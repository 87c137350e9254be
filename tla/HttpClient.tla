----------------------------- MODULE HttpClient -----------------------------
(***************************************************************************)
(* Client of stdlib/net/http.kod: the pool of idle connections, exchange   *)
(* (one request, retried once when a reused connection turns out dead) and *)
(* fetch (the redirect loop), against servers that answer, close or stay   *)
(* silent at any moment.                                                   *)
(*                                                                         *)
(* A link is a TCP or TLS connection, one of a stock that none is used     *)
(* twice from.  A request is its number (rid) on the wire, a response the  *)
(* number of the request it answers.  Time is abstract: a wait may end in  *)
(* an error at any moment, one that the timeout bounds must end unless the *)
(* server takes or sends another piece, the deadline passes some time, and *)
(* at each `take` some of the oldest idle connections may have grown too   *)
(* old.                                                                    *)
(***************************************************************************)
EXTENDS Naturals, Sequences, FiniteSets

CONSTANTS Urls,          \* records [scheme, host]; host stands for host and port
          Methods,
          Credentials,   \* whether the caller's headers carry credentials
          Settings,      \* [timeout, deadline]: whether each is set (not zero)
          MaxIdle,       \* Client.max_idle_per_host
          MaxRedirects,  \* Client.max_redirects
          MaxLinks,      \* bound: connections ever opened
          MaxReqs        \* bound: requests (hops) ever started

ASSUME HttpConstants ==
  /\ Urls # {} /\ \A u \in Urls : u.scheme \in {"http", "https"}   \* parse_url's check
  /\ Methods \subseteq STRING /\ Credentials \subseteq BOOLEAN
  /\ Settings \subseteq [timeout : BOOLEAN, deadline : BOOLEAN]
  /\ MaxIdle \in Nat /\ MaxRedirects \in Nat
  /\ MaxLinks \in Nat \ {0} /\ MaxReqs \in Nat

Links == 1..MaxLinks
NoLink == 0
Surplus == 0    \* bytes in an inbox that answer no request

repeatable(m) == m \in {"GET", "HEAD", "OPTIONS", "PUT", "DELETE", "TRACE"}
Key(url) == url

VARIABLES
  pool,       \* Client.pool: a set of [key, link, since]; array order is `since`
  clock,      \* next `since`
  links,      \* per link: "new", "open" or "closed" at this end
  closes,     \* per link: how often it was closed
  peerClosed, \* per link: the server has closed its end
  toServer,   \* per link: requests on their way to the server
  inbox,      \* per link: responses on the socket, not yet read
  decrypted,  \* per link: responses its TLS session holds, not yet read
  \* exchange's locals
  phase, link, reused, repeated,
  \* the waits of a Link
  moved,      \* the server has taken or sent a piece, not noticed yet
  received,   \* Link.received() > 0: a piece was read since `arm`
  \* fetch's locals
  hops, origin,
  limits,     \* whether a timeout is set; the deadline: none, ahead or passed
  \* history
  reqs,       \* every request started: [verb, url, creds, body, origin]
  served,     \* per request: times a server carried it out
  result,     \* how the last fetch ended
  unread      \* links whose TLS session was left holding bytes after a response

poolVars == <<pool, clock>>
sockVars == <<links, closes>>
tlsVars == <<decrypted, unread>>
wireVars == <<peerClosed, toServer, inbox, tlsVars>>
xchgVars == <<phase, link, reused, repeated>>
waitVars == <<moved, received, limits>>
fetchVars == <<hops, origin>>
histVars == <<reqs, served, result>>
vars == <<poolVars, sockVars, wireVars, xchgVars, waitVars, fetchVars, histVars>>

rid == Len(reqs)
req == reqs[rid]

NoLimits == [timeout |-> FALSE, deadline |-> "none"]

Init ==
  /\ pool = {} /\ clock = 0
  /\ links = [l \in Links |-> "new"] /\ closes = [l \in Links |-> 0]
  /\ peerClosed = [l \in Links |-> FALSE]
  /\ toServer = [l \in Links |-> <<>>] /\ inbox = [l \in Links |-> <<>>]
  /\ decrypted = [l \in Links |-> <<>>] /\ unread = {}
  /\ phase = "idle" /\ link = NoLink /\ reused = FALSE /\ repeated = FALSE
  /\ hops = 0 /\ origin = CHOOSE u \in Urls : TRUE
  /\ moved = FALSE /\ received = FALSE /\ limits = NoLimits
  /\ reqs = <<>> /\ served = [r \in 1..MaxReqs |-> 0] /\ result = "none"

-----------------------------------------------------------------------------
(* Links and the pool.                                                       *)

\* Mutant: only looks for the server's close.
Idle_ignores_data(l) == ~peerClosed[l]

\* Link.idle: poll finds nothing to read and no end of stream.  It looks at the
\* socket, of a TLS link too: what its session has decrypted is not seen.
Idle(l) == inbox[l] = <<>> /\ ~peerClosed[l]

\* discard every link of D.
Discard(D) ==
  /\ links' = [l \in Links |-> IF l \in D THEN "closed" ELSE links[l]]
  /\ closes' = [l \in Links |-> IF l \in D THEN closes[l] + 1 ELSE closes[l]]

LinksOf(E) == {e.link : e \in E}
Oldest(E) == CHOOSE e \in E : \A f \in E : e.since <= f.since

\* What `take` closes: entries kept before `cutoff` are too old, others may have
\* been closed or written to by their server.
Stale(cutoff) == {e \in pool : e.since < cutoff \/ ~Idle(e.link)}

\* The entry `take` finds: the first one left of the key.
Candidates(key, cutoff) == {e \in pool \ Stale(cutoff) : e.key = key}

\* keep: the oldest of the key's make room, then the link goes to the end.
Excess(key) ==
  LET mine == {e \in pool : e.key = key}
      drop == Cardinality(mine) + 1 - MaxIdle
  IN  {e \in mine : Cardinality({f \in mine : f.since < e.since}) < drop}

keep(key, l) ==
  /\ pool' = (pool \ Excess(key)) \cup {[key |-> key, link |-> l, since |-> clock]}
  /\ clock' = clock + 1
  /\ Discard(LinksOf(Excess(key)))

\* Client.close, between fetches.
close ==
  /\ phase = "idle"
  /\ pool # {}
  /\ Discard(LinksOf(pool))
  /\ pool' = {}
  /\ UNCHANGED <<clock, wireVars, xchgVars, waitVars, fetchVars, histVars>>

-----------------------------------------------------------------------------
(* fetch.                                                                    *)

\* One more request of the current fetch, about to be exchanged.
StartExchange(r) ==
  /\ rid < MaxReqs
  /\ reqs' = Append(reqs, r)
  /\ repeated' = FALSE /\ reused' = FALSE
  /\ phase' = "acquire" /\ link' = NoLink

fetch ==
  /\ phase = "idle"
  /\ \E m \in Methods, u \in Urls, c \in Credentials :
        /\ StartExchange([verb |-> m, url |-> u, creds |-> c,
                          body |-> m = "POST", origin |-> u])
        /\ origin' = u
  /\ \E s \in Settings :
        limits' = [timeout |-> s.timeout, deadline |-> IF s.deadline THEN "ahead" ELSE "none"]
  /\ hops' = 0 /\ result' = "none"
  /\ UNCHANGED <<poolVars, sockVars, wireVars, moved, received, served>>

\* The fetch ends; `link` still names the connection of its last exchange.
Finish(r) == phase' = "idle" /\ result' = r /\ limits' = NoLimits

\* An attempt has ended or the next one's link is armed: nothing is received yet.
Armed == moved' = FALSE /\ received' = FALSE

-----------------------------------------------------------------------------
(* Waiting.                                                                  *)

\* Mutant: the deadline is not looked at before a wait.
Passed_never == FALSE

\* wait_ms throws: the deadline has passed.
Passed == limits.deadline = "passed"

\* The wait in progress comes to an end by itself: no piece within the timeout,
\* the deadline (which shortens the timeout, but not one of zero, that stands
\* for no timeout), or the server's close; or wait_ms ends the one after it.
WaitEnds ==
  \/ limits.timeout /\ (~moved \/ Passed)
  \/ moved /\ Passed
  \/ peerClosed[link]

\* A write or a read of the link returns with a piece, and the loop around it
\* waits for the next one.
next_wait ==
  /\ phase \in {"write", "read"} /\ moved /\ ~Passed
  /\ moved' = FALSE /\ received' = (received \/ phase = "read")
  /\ UNCHANGED <<poolVars, sockVars, wireVars, xchgVars, limits, fetchVars, histVars>>

\* Time goes on.
DeadlinePasses ==
  /\ limits.deadline = "ahead"
  /\ limits' = [limits EXCEPT !.deadline = "passed"]
  /\ UNCHANGED <<poolVars, sockVars, wireVars, xchgVars, moved, received, fetchVars, histVars>>

-----------------------------------------------------------------------------
(* exchange.                                                                 *)

\* acquire finds a kept connection.
acquire_kept ==
  /\ phase = "acquire"
  /\ \E cutoff \in 0..clock :
        /\ Candidates(Key(req.url), cutoff) # {}
        /\ LET found == Oldest(Candidates(Key(req.url), cutoff))
           IN  /\ pool' = pool \ (Stale(cutoff) \cup {found})
               /\ link' = found.link
        /\ Discard(LinksOf(Stale(cutoff)))
  /\ reused' = TRUE /\ phase' = "write" /\ Armed
  /\ UNCHANGED <<clock, wireVars, repeated, limits, fetchVars, histVars>>

\* Mutant: connects without looking for a kept connection.
acquire_new_always ==
  /\ phase = "acquire"
  /\ LET fresh == {l \in Links : links[l] = "new"}
     IN  /\ fresh # {}
         /\ link' = CHOOSE l \in fresh : TRUE
         /\ links' = [links EXCEPT ![link'] = "open"]
  /\ phase' = "write" /\ reused' = FALSE /\ Armed
  /\ UNCHANGED <<poolVars, closes, wireVars, repeated, limits, fetchVars, histVars>>

\* acquire finds none and connects, or fails to (deadline passed, no answer).
acquire_new ==
  /\ phase = "acquire"
  /\ \E cutoff \in 0..clock :
        /\ Candidates(Key(req.url), cutoff) = {}
        /\ pool' = pool \ Stale(cutoff)
        /\ LET D == LinksOf(Stale(cutoff))
               fresh == {l \in Links : links[l] = "new"}
           IN  \/ /\ fresh # {} /\ ~Passed
                  /\ link' = CHOOSE l \in fresh : TRUE
                  /\ links' = [l \in Links |-> IF l \in D THEN "closed"
                                               ELSE IF l = link' THEN "open" ELSE links[l]]
                  /\ closes' = [l \in Links |-> IF l \in D THEN closes[l] + 1 ELSE closes[l]]
                  /\ phase' = "write" /\ UNCHANGED <<result, limits>>
               \/ /\ Discard(D)
                  /\ link' = NoLink /\ Finish("error")
  /\ reused' = FALSE /\ Armed
  /\ UNCHANGED <<clock, wireVars, repeated, fetchVars, reqs, served>>

\* Mutant: the dead link is not closed before the retry.
Failed_leaks(got) ==
  /\ IF reused /\ ~repeated /\ ~got /\ repeatable(req.verb)
     THEN repeated' = TRUE /\ phase' = "acquire" /\ UNCHANGED <<sockVars, result, limits>>
     ELSE Discard({link}) /\ UNCHANGED repeated /\ Finish("error")
  /\ Armed
  /\ UNCHANGED <<poolVars, link, reused, fetchVars, reqs, served>>

\* Mutant: any method is repeated.
Failed_repeats_all(got) ==
  /\ Discard({link})
  /\ IF reused /\ ~repeated /\ ~got
     THEN repeated' = TRUE /\ phase' = "acquire" /\ UNCHANGED <<result, limits>>
     ELSE UNCHANGED repeated /\ Finish("error")
  /\ Armed
  /\ UNCHANGED <<poolVars, link, reused, fetchVars, reqs, served>>

\* Mutant: the link goes back to the pool before the retry.
Failed_keeps(got) ==
  /\ IF reused /\ ~repeated /\ ~got /\ repeatable(req.verb)
     THEN repeated' = TRUE /\ phase' = "acquire" /\ keep(Key(req.url), link) /\ UNCHANGED <<result, limits>>
     ELSE Discard({link}) /\ UNCHANGED <<poolVars, repeated>> /\ Finish("error")
  /\ Armed
  /\ UNCHANGED <<link, reused, fetchVars, reqs, served>>

\* The error branch: the link is closed; a reused link that gave nothing back
\* is replaced once, if the method may be repeated.
Failed(got) ==
  /\ Discard({link})
  /\ IF reused /\ ~repeated /\ ~got /\ repeatable(req.verb)
     THEN repeated' = TRUE /\ phase' = "acquire" /\ UNCHANGED <<result, limits>>
     ELSE UNCHANGED repeated /\ Finish("error")
  /\ Armed
  /\ UNCHANGED <<poolVars, link, reused, fetchVars, reqs, served>>

\* attempt: write_request.  A request written to a connection the server has
\* closed is lost; a write that fails has not delivered a whole request.
write_request ==
  /\ phase = "write"
  /\ \/ /\ ~Passed
        /\ toServer' = IF peerClosed[link] THEN toServer
                       ELSE [toServer EXCEPT ![link] = Append(@, rid)]
        /\ phase' = "read" /\ moved' = FALSE
        /\ UNCHANGED <<poolVars, sockVars, peerClosed, inbox, tlsVars, link, reused,
                       repeated, received, limits, fetchVars, reqs, served, result>>
     \/ Failed(FALSE) /\ UNCHANGED wireVars

\* attempt: read_response fails: end of stream, timeout, deadline, a malformed
\* response or one over the limits, before or after some of it was received.
read_fails ==
  /\ phase = "read"
  /\ \E got \in BOOLEAN : (received => got) /\ Failed(got)
  /\ UNCHANGED wireVars

\* Whether the connection may go back to the pool after a response: framed and
\* kept alive by the server, and nothing left over in the reader's buffer.
Reusable(keepAlive, leftover) == MaxIdle > 0 /\ keepAlive /\ ~leftover

\* Closing a link or keeping it, after its response was read in full.
Settle(reuse) ==
  IF reuse THEN keep(Key(req.url), link)
  ELSE Discard({link}) /\ UNCHANGED poolVars

\* What a read of the link meets, oldest first.
Stream(l) == decrypted[l] \o inbox[l]

\* read_response returns the oldest response on the link, whose last piece came
\* before the deadline or in a wait without a limit.  Bytes behind it are
\* left over if they were read with it; a TLS session may have decrypted n of
\* the others (a body is read for as many bytes as it still lacks).  They are
\* lost with a link that is not kept.
ReadResponse ==
  /\ phase = "read" /\ Stream(link) # <<>> /\ (Passed => ~limits.timeout)
  /\ Armed
  /\ \E keepAlive \in BOOLEAN, leftover \in BOOLEAN :
        LET reuse == Reusable(keepAlive, leftover)
            rest == IF reuse THEN Tail(Stream(link)) ELSE <<>>
        IN  /\ leftover => Len(Stream(link)) > 1
            /\ Settle(reuse)
            /\ \E n \in 0..Len(rest) :
                  /\ n > 0 => req.url.scheme = "https"
                  /\ reuse => Len(decrypted[link]) <= n + 1
                  /\ decrypted' = [decrypted EXCEPT ![link] = SubSeq(rest, 1, n)]
                  /\ inbox' = [inbox EXCEPT ![link] = SubSeq(rest, n + 1, Len(rest))]
                  /\ unread' = IF n > 0 THEN unread \cup {link} ELSE unread
  /\ UNCHANGED <<peerClosed, toServer>>

\* A response that ends the fetch: not a redirect, or a redirect not followed.
exchange_returns ==
  /\ ReadResponse
  /\ Finish("ok")
  /\ UNCHANGED <<link, reused, repeated, fetchVars, reqs, served>>

\* Errors after the link was settled: decode_content fails, the redirect limit
\* is reached, the Location is bad or would leave https for http.
exchange_rejected ==
  /\ ReadResponse
  /\ Finish("error")
  /\ UNCHANGED <<link, reused, repeated, fetchVars, reqs, served>>

\* Mutant: the scheme is not looked at.
Follows_any_scheme(next) == hops < MaxRedirects

Follows(next) ==
  /\ hops < MaxRedirects
  /\ ~(req.url.scheme = "https" /\ next.scheme = "http")

\* Mutant: headers are copied whole.
Redirected_with_credentials(next, preserve) ==
  [verb   |-> IF preserve \/ req.verb = "HEAD" THEN req.verb ELSE "GET",
   url    |-> next, creds |-> req.creds, body |-> preserve /\ req.body, origin |-> origin]

\* The request a redirect leads to: 307 and 308 keep method and body, the others
\* become GET (HEAD stays); credentials do not follow to another host or port.
Redirected(next, preserve) ==
  [verb   |-> IF preserve \/ req.verb = "HEAD" THEN req.verb ELSE "GET",
   url    |-> next,
   creds  |-> req.creds /\ next.host = req.url.host,
   body   |-> preserve /\ req.body,
   origin |-> origin]

redirect ==
  /\ ReadResponse
  /\ \E next \in Urls, preserve \in BOOLEAN :
        Follows(next) /\ StartExchange(Redirected(next, preserve))
  /\ hops' = hops + 1
  /\ UNCHANGED <<origin, limits, served, result>>

-----------------------------------------------------------------------------
(* The servers.                                                              *)

\* A server carries out a request and answers it, at times with more bytes
\* than the answer announced (Surplus).  These arrive with the answer: bytes a
\* server sends unasked after the idle check look like an answer to any client.
ServerAnswers(l) ==
  /\ toServer[l] # <<>> /\ ~peerClosed[l]
  /\ served' = [served EXCEPT ![Head(toServer[l])] = @ + 1]
  /\ IF links[l] = "open"
     THEN \E more \in {<<>>, <<Surplus>>} :
            inbox' = [inbox EXCEPT ![l] = Append(@, Head(toServer[l])) \o more]
     ELSE UNCHANGED inbox
  /\ toServer' = [toServer EXCEPT ![l] = Tail(@)]
  /\ UNCHANGED <<poolVars, sockVars, peerClosed, tlsVars, xchgVars, waitVars, fetchVars,
                 reqs, result>>

ServerCloses(l) ==
  /\ links[l] = "open" /\ ~peerClosed[l]
  /\ peerClosed' = [peerClosed EXCEPT ![l] = TRUE]
  /\ UNCHANGED <<poolVars, sockVars, toServer, inbox, tlsVars, xchgVars, waitVars, fetchVars,
                 histVars>>

\* The server takes a piece of the request, or sends a piece of its answer that
\* does not complete it.  Nothing says how long it goes on like this.
ServerTrickles ==
  /\ phase \in {"write", "read"} /\ ~moved /\ ~peerClosed[link]
  /\ phase = "read" => toServer[link] # <<>>
  /\ moved' = TRUE
  /\ UNCHANGED <<poolVars, sockVars, wireVars, xchgVars, received, limits, fetchVars, histVars>>

-----------------------------------------------------------------------------
Exchange == \/ acquire_kept \/ acquire_new \/ write_request \/ next_wait \/ read_fails
            \/ exchange_returns \/ exchange_rejected \/ redirect

Next == \/ fetch \/ close \/ Exchange \/ DeadlinePasses \/ ServerTrickles
        \/ \E l \in Links : ServerAnswers(l) \/ ServerCloses(l)

Spec == Init /\ [][Next]_vars

\* What the client and the clock do by themselves.  A wait ends when something
\* ends it; a handshake without a timeout may last for ever.
Progress ==
  \/ acquire_kept \/ next_wait \/ exchange_returns \/ exchange_rejected \/ redirect
  \/ acquire_new /\ (limits.timeout \/ req.url.scheme = "http")
  \/ (write_request \/ read_fails) /\ WaitEnds

\* A request in progress takes its next step, and time goes on.  Servers owe
\* nothing.
FairSpec == Spec /\ WF_vars(Progress) /\ WF_vars(DeadlinePasses)

-----------------------------------------------------------------------------
(* Properties.                                                               *)

Request == [verb : Methods \cup {"GET"}, url : Urls, creds : BOOLEAN, body : BOOLEAN, origin : Urls]
InUse == IF phase \in {"write", "read"} THEN {link} ELSE {}

WaitsOK ==
  /\ moved \in BOOLEAN /\ received \in BOOLEAN
  /\ limits \in [timeout : BOOLEAN, deadline : {"none", "ahead", "passed"}]

TypeOK ==
  /\ pool \subseteq [key : Urls, link : Links, since : Nat] /\ clock \in Nat
  /\ links \in [Links -> {"new", "open", "closed"}] /\ closes \in [Links -> Nat]
  /\ peerClosed \in [Links -> BOOLEAN]
  /\ toServer \in [Links -> Seq(Nat)] /\ inbox \in [Links -> Seq(Nat)]
  /\ decrypted \in [Links -> Seq(Nat)] /\ unread \subseteq Links
  /\ phase \in {"idle", "acquire", "write", "read"}
  /\ link \in Links \cup {NoLink} /\ (phase \in {"write", "read"} => link \in Links)
  /\ reused \in BOOLEAN /\ repeated \in BOOLEAN
  /\ hops \in Nat /\ origin \in Urls
  /\ WaitsOK
  /\ reqs \in Seq(Request) /\ (phase # "idle" => reqs # <<>>)
  /\ served \in [1..MaxReqs -> Nat]
  /\ result \in {"none", "ok", "error"}

\* Every open connection is in exactly one place, an entry of the pool or the
\* exchange in progress: none leaks, none is lent out twice, and none is
\* closed twice (a second close would hit a reused descriptor).
LinksOwnedOnce ==
  /\ {l \in Links : links[l] = "open"} = LinksOf(pool) \cup InUse
  /\ LinksOf(pool) \cap InUse = {}
  /\ \A e, f \in pool : e.link = f.link => e = f
  /\ \A l \in Links : closes[l] = IF links[l] = "closed" THEN 1 ELSE 0

\* A Client used by one request at a time never keeps two connections for one
\* scheme, host and port: `keep` puts back what `take` took out, or what was
\* opened because `take` found nothing.
OneIdlePerKey ==
  /\ \A e, f \in pool : e.key = f.key => e = f
  /\ phase \in {"write", "read"} => \A e \in pool : e.key # Key(req.url)

\* docs/http.md: the Client makes a failed request "once more on a new
\* connection".  The second acquire asks the pool again; it finds nothing.
RetryOnNewLink == repeated /\ phase \in {"write", "read"} => ~reused

\* The response read is the response to this request: a late answer to an
\* earlier request that timed out, or surplus bytes behind an earlier answer,
\* are never taken for it, on a link whose TLS session was never left holding
\* bytes the client had not asked for.
ResponseIsOurs ==
  phase = "read" /\ link \notin unread /\ Stream(link) # <<>> => Head(Stream(link)) = rid

\* The same on every link, as docs/http.md has it: a connection goes back to the
\* Client only when the response "left nothing unread".
NothingUnread ==
  phase = "read" /\ Stream(link) # <<>> => Head(Stream(link)) = rid

\* No server carries out a request twice unless its method is safe to repeat,
\* and then at most twice.
NotRepeated ==
  \A r \in 1..rid : served[r] <= IF repeatable(reqs[r].verb) THEN 2 ELSE 1

\* Credentials are only sent to the host and port the caller named, even when
\* redirects lead away and back; a chain never falls from https to http.
CredentialsStayHome ==
  \A r \in 1..rid : reqs[r].creds => reqs[r].url.host = reqs[r].origin.host

\* A fetch that started on https stays on https.
NoDowngrade ==
  \A r \in 1..rid : reqs[r].origin.scheme = "https" => reqs[r].url.scheme = "https"

\* What is on its way on each link but the unread ones: nothing on one that is
\* new or idle but bytes its server sent unasked, and on the one in use at most
\* this request or the answer to it.
WiresOwned ==
  /\ \A l \in Links \ unread : decrypted[l] = <<>>
  /\ \A l \in Links :
       links[l] = "new" => l \notin unread /\ toServer[l] = <<>> /\ inbox[l] = <<>>
  /\ \A e \in pool : e.link \in unread \/ toServer[e.link] = <<>>
  /\ phase = "write" => link \in unread \/ (toServer[link] = <<>> /\ inbox[link] = <<>>)
  /\ phase = "read" =>
       \/ link \in unread
       \/ inbox[link] = <<>> /\ toServer[link] \in {<<>>, <<rid>>}
       \/ toServer[link] = <<>> /\ inbox[link] \in {<<rid>>, <<rid, Surplus>>}

\* When a retry asks the pool, nothing is kept for its host.
RetryFindsNone ==
  repeated /\ phase = "acquire" => \A e \in pool : e.key # Key(req.url)

\* The request in progress belongs to the fetch in progress.
OriginKept == phase # "idle" => req.origin = origin

\* The inductive invariant.
IInv == /\ TypeOK /\ LinksOwnedOnce /\ OneIdlePerKey /\ RetryOnNewLink
        /\ WiresOwned /\ RetryFindsNone
        /\ OriginKept /\ CredentialsStayHome /\ NoDowngrade

\* A fetch with a timeout ends, unless some server keeps a request open piece by
\* piece for ever; with a deadline as well it ends whatever the servers do,
\* through every retry and redirect.
FetchEnds ==
  /\ (phase # "idle" /\ limits.timeout /\ limits.deadline # "none") ~> (phase = "idle")
  /\ []<>moved \/ ((phase # "idle" /\ limits.timeout) ~> (phase = "idle"))

\* docs/http.md: "`deadline` bounds the request as a whole", and "every read and
\* write is given only what is left of it".
DeadlineBinds ==
  (phase # "idle" /\ limits.deadline # "none") ~> (phase = "idle")
=============================================================================
