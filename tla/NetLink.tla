------------------------------- MODULE NetLink -------------------------------
(***************************************************************************)
(* TCP and TLS connections: stdlib/net/tcp.c, tcp.kod, tls.c and tls.kod.  *)
(*                                                                         *)
(* One program makes one call at a time.  A call may try several addresses *)
(* and wait several times, while the peer sends, stalls or closes at any   *)
(* moment.  An error is where it came from: an OS error number, "Tls" or   *)
(* "HostNotFound".  A call interrupted by a signal is retried (a stutter). *)
(*                                                                         *)
(* A peer sends the first of Bytes, in order.  On a TLS connection they    *)
(* come in records: a header "h1" or "h2", then that many bytes; "hb" and  *)
(* "bye" are the close notice.  The TLS library asks read_cb for a header  *)
(* and then for a body, and keeps what it has when it is told to wait.     *)
(***************************************************************************)
EXTENDS Naturals, Sequences

CONSTANTS MaxAddrs,   \* bound: addresses a name resolves to
          MaxFds,     \* the process's limit of open descriptors
          Bytes,      \* data bytes, all different
          Streams,    \* what the peer of a TLS connection may send
          Maxes       \* the `max` arguments of reads

Units == UNION {{s[i] : i \in DOMAIN s} : s \in Streams \cup {Bytes}}
IsByte(u) == \E i \in DOMAIN Bytes : u = Bytes[i]
Headers == {"h1", "h2", "hb"}

\* The unit u comes where d is due (a header, or what a header announced); e is
\* due after it.
Announced(u, d, e) ==
  \/ d = "header" /\ u \in Headers /\ ~IsByte(u) /\ e = u
  \/ d \in {"h1", "h2"} /\ IsByte(u) /\ e = (IF d = "h2" THEN "h1" ELSE "header")
  \/ d = "hb" /\ ~IsByte(u) /\ e = "header"

\* s is a sequence of records from where d is due, the last one whole or not.
Framed(s, d) ==
  \E due \in [0..Len(s) -> Headers \cup {"header"}] :
    due[0] = d /\ \A i \in 1..Len(s) : Announced(s[i], due[i - 1], due[i])

\* The data bytes of s are those of Bytes that follow the first n.
Counted(s, n) ==
  \E k \in [0..Len(s) -> 0..Len(Bytes)] :
    /\ k[0] = n
    /\ \A i \in 1..Len(s) :
         IF IsByte(s[i]) THEN k[i] = k[i - 1] + 1 /\ s[i] = Bytes[k[i]] ELSE k[i] = k[i - 1]

ASSUME NetConstants ==
  /\ MaxAddrs \in Nat \ {0} /\ MaxFds \in Nat \ {0} /\ Maxes \subseteq Nat
  /\ Bytes \in Seq(Units) /\ Streams \subseteq Seq(Units)
  /\ \A s \in Streams : Framed(s, "header") /\ Counted(s, 0)

SocketErrors == {"ECONNREFUSED", "ETIMEDOUT"}
NoFd == 0
Idle == "idle"

VARIABLES
  at,         \* the step of the call in progress, "idle" between calls
  doing,      \* "connect", "tls" or "listen", while it tries addresses
  left, last, \* addresses left to try; kod_tcp_connect's `last`
  fd,         \* the descriptor of the call in progress, or of the stream
  sock,       \* the socket of the address being tried
  isopen,     \* descriptors open now
  owned,      \* descriptors the program was given and has not closed
  lost,       \* descriptors nobody will close
  io_errno, gai, tls_status,   \* the slots a failed call leaves its reason in
  thrown,     \* the error the last call threw, "none" if it returned
  cause,      \* what made it fail
  anchors, checked,            \* a trust file is used; who has checked the peer
  session,    \* the TLS session: "none", "live" or "ended" (Session.eof)
  limited,    \* SO_RCVTIMEO is set
  conn,       \* Conn: timed_out, io (io_errno is set), clean_eof
  lib,        \* the library: stage (what it asks for; "cut" or "dead" once the
              \* connection ended in a record, or else), got of the request (held:
              \* of an earlier read_cb call), plain (decrypted and not returned)
  st, max,    \* what SSLRead returned; the argument of read
  outgoing, wire, peer,        \* not sent yet, sent and not read, "open"/"closed"
  delivered,  \* bytes returned by read
  ended       \* read has returned the end of the stream

callVars == <<at, doing, left, last>>
fdVars == <<fd, sock, isopen, owned, lost>>
errVars == <<io_errno, gai, tls_status, thrown, cause>>
tlsVars == <<anchors, checked, session, limited, conn, lib, st, max>>
peerVars == <<outgoing, wire, peer>>
progVars == <<delivered, ended>>
netVars == <<callVars, fdVars, errVars, tlsVars, peerVars, progVars>>

NoFlags == [timed_out |-> FALSE, io |-> FALSE, clean_eof |-> FALSE]
NoRecord == [stage |-> "header", got |-> <<>>, held |-> 0, plain |-> <<>>]

NetInit ==
  /\ at = Idle /\ doing = "none" /\ left = 0 /\ last = "none"
  /\ sock = NoFd /\ isopen = {} /\ owned = {} /\ lost = {}
  /\ io_errno = "0" /\ gai = FALSE /\ tls_status = 0 /\ thrown = "none" /\ cause = "none"
  /\ fd = NoFd /\ anchors = FALSE /\ checked = "nobody" /\ session = "none"
  /\ limited = FALSE /\ conn = NoFlags /\ lib = NoRecord /\ st = "noErr" /\ max = 0
  /\ outgoing = <<>> /\ wire = <<>> /\ peer = "closed"
  /\ delivered = <<>> /\ ended = FALSE

\* The connection is gone, and what belonged to it.
Disconnect ==
  /\ fd' = NoFd /\ anchors' = FALSE /\ checked' = "nobody" /\ session' = "none"
  /\ limited' = FALSE /\ conn' = NoFlags /\ lib' = NoRecord /\ st' = "noErr" /\ max' = 0
  /\ outgoing' = <<>> /\ wire' = <<>> /\ peer' = "closed"
  /\ delivered' = <<>> /\ ended' = FALSE

-----------------------------------------------------------------------------
(* tcp.c and tcp.kod: connect and listen.                                    *)

\* Mutant: the resolver's failure leaves the errno of an earlier call behind.
ResolverFails_keeps_errno == gai' = TRUE /\ UNCHANGED io_errno

ResolverFails == gai' = TRUE /\ io_errno' = "0"

\* last_error: a resolver's message counts only when there is no errno.
LastError(errno, message) == IF message /\ errno = "0" THEN "HostNotFound" ELSE errno

Throw(error, why) == at' = Idle /\ thrown' = error /\ cause' = why

\* connect, tls.connect or listen is called: resolve.  At most one connection,
\* and neither listen nor accept beside it (a bound; listeners may be open).
resolve(what) ==
  /\ at = Idle /\ fd = NoFd
  /\ \/ /\ ResolverFails
        /\ Throw(LastError(io_errno', gai'), "HostNotFound")
        /\ UNCHANGED <<doing, left, last>>
     \/ /\ gai' = FALSE /\ io_errno' = "EMFILE"        \* EAI_SYSTEM
        /\ Throw(LastError(io_errno', gai'), "EMFILE")
        /\ UNCHANGED <<doing, left, last>>
     \/ /\ doing' = what /\ \E n \in 1..MaxAddrs : left' = n
        /\ last' = IF what = "listen" THEN "EADDRNOTAVAIL" ELSE "ECONNREFUSED"
        /\ gai' = FALSE /\ at' = "try" /\ thrown' = "none" /\ cause' = "none"
        /\ UNCHANGED io_errno
  /\ UNCHANGED <<fdVars, tls_status, tlsVars, peerVars, progVars>>

\* The kernel hands out the lowest free descriptor.
LowestFree == CHOOSE d \in (1..MaxFds) \ isopen : \A e \in (1..MaxFds) \ isopen : d <= e

\* socket() for the next address, or its failure.
new_socket ==
  /\ at = "try" /\ left > 0
  /\ left' = left - 1
  /\ \/ /\ isopen # 1..MaxFds
        /\ sock' = LowestFree /\ isopen' = isopen \cup {LowestFree}
        /\ at' = "opened" /\ UNCHANGED <<last, cause>>
     \/ last' = "EMFILE" /\ cause' = "EMFILE" /\ UNCHANGED <<at, sock, isopen>>
  /\ UNCHANGED <<doing, fd, owned, lost, io_errno, gai, tls_status, thrown,
                 tlsVars, peerVars, progVars>>

\* Mutant: the descriptor of an address that failed stays open.
AddressFails_leaks ==
  /\ at = "opened"
  /\ \E e \in SocketErrors : last' = e /\ cause' = e
  /\ at' = "try"
  /\ UNCHANGED <<doing, left, fdVars, io_errno, gai, tls_status, thrown,
                 tlsVars, peerVars, progVars>>

\* connect_within fails or times out (or bind or listen fails): next address.
AddressFails ==
  /\ at = "opened"
  /\ \E e \in SocketErrors : last' = e /\ cause' = e
  /\ isopen' = isopen \ {sock} /\ sock' = NoFd /\ at' = "try"
  /\ UNCHANGED <<doing, left, fd, owned, lost, io_errno, gai, tls_status, thrown,
                 tlsVars, peerVars, progVars>>

\* The address answers (or the port is bound): the descriptor is the result, and
\* of a connection there is a peer with something to send.
AddressAnswers ==
  /\ at = "opened"
  /\ io_errno' = "0" /\ cause' = "none"
  /\ IF doing = "tls" THEN at' = "arm" /\ UNCHANGED owned
     ELSE at' = Idle /\ owned' = owned \cup {sock}
  /\ IF doing = "listen" THEN UNCHANGED <<fd, outgoing, peer>>
     ELSE fd' = sock /\ outgoing' \in Streams /\ peer' = "open"
  /\ sock' = NoFd /\ doing' = "none" /\ left' = 0 /\ last' = "none"
  /\ UNCHANGED <<isopen, lost, gai, tls_status, thrown,
                 tlsVars, wire, progVars>>

\* Every address failed: the last one's error.
NoAddressLeft ==
  /\ at = "try" /\ left = 0
  /\ io_errno' = last /\ Throw(LastError(io_errno', gai), cause)
  /\ doing' = "none" /\ last' = "none"
  /\ UNCHANGED <<left, fdVars, gai, tls_status, tlsVars, peerVars, progVars>>

\* kod_tcp_accept: one more descriptor for the program, or an error.
accept ==
  /\ at = Idle /\ fd = NoFd /\ owned # {}
  /\ \/ /\ isopen # 1..MaxFds
        /\ isopen' = isopen \cup {LowestFree} /\ owned' = owned \cup {LowestFree}
        /\ io_errno' = "0" /\ thrown' = "none" /\ cause' = "none"
     \/ /\ io_errno' = "EMFILE" /\ thrown' = "EMFILE" /\ cause' = "EMFILE"
        /\ UNCHANGED <<isopen, owned>>
  /\ UNCHANGED <<callVars, fd, sock, lost, gai, tls_status, tlsVars, peerVars, progVars>>

\* kod_tcp_port: no error is thrown, only the slot is written.
port ==
  /\ at = Idle /\ owned # {}
  /\ io_errno' \in {"0", "EINVAL"} /\ Throw("none", "none")
  /\ UNCHANGED <<doing, left, last, fdVars, gai, tls_status, tlsVars, peerVars, progVars>>

-----------------------------------------------------------------------------
(* tls.kod connect: the handshake on a connected descriptor.                 *)

\* tcp.set_timeout before the handshake; a timeout of zero is no limit.  When it
\* fails nobody closes the connection: connect leaves by `try`.
SetTimeout ==
  /\ at = "arm"
  /\ \/ /\ limited' \in BOOLEAN /\ io_errno' = "0" /\ at' = "open"
        /\ UNCHANGED <<fd, lost, thrown, cause, anchors, checked, session, conn, lib, st,
                       max, peerVars, progVars>>
     \/ /\ io_errno' = "EINVAL" /\ Throw("EINVAL", "EINVAL")
        /\ lost' = lost \cup {fd} /\ Disconnect
  /\ UNCHANGED <<doing, left, last, sock, isopen, owned, gai, tls_status>>

os_failure(errno) == tls_status' = 1 /\ io_errno' = errno
tls_failure == tls_status' = 2 /\ UNCHANGED io_errno

\* The trust file cannot be opened or read, is too large, or holds no certificate.
load_certificates ==
  \/ \E errno \in {"ENOENT", "EIO"} : os_failure(errno) /\ cause' = errno
  \/ tls_failure /\ cause' = "Tls"

\* kod_tls_open as far as the handshake: the trust file is loaded and the
\* session set up, where an allocation may fail or the library refuse.
OpenSession ==
  /\ at = "open"
  /\ \E trust_file \in BOOLEAN :
       /\ anchors' = trust_file
       /\ \/ at' = "handshake" /\ UNCHANGED <<io_errno, tls_status, cause>>
          \/ trust_file /\ load_certificates /\ at' = "failed"
          \/ os_failure("ENOMEM") /\ cause' = "ENOMEM" /\ at' = "failed"
          \/ tls_failure /\ cause' = "Tls" /\ at' = "failed"
  /\ checked' = "nobody" /\ conn' = NoFlags /\ lib' = NoRecord
  /\ UNCHANGED <<doing, left, last, fdVars, gai, thrown, session, limited, st, max,
                 peerVars, progVars>>

\* Mutant: whatever check_trust says, the handshake goes on.
check_trust_ignored ==
  /\ checked' = "unverified" /\ at' = "handshake"
  /\ UNCHANGED <<io_errno, tls_status, cause>>

\* check_trust: the server's certificates against the anchors alone.
check_trust ==
  \/ checked' = "anchors" /\ at' = "handshake" /\ UNCHANGED <<io_errno, tls_status, cause>>
  \/ tls_failure /\ cause' = "Tls" /\ at' = "failed" /\ UNCHANGED checked

\* SSLHandshake stops at the server's certificates when it was asked to.
ServerAuthCompleted ==
  /\ at = "handshake" /\ anchors /\ checked = "nobody"
  /\ check_trust
  /\ UNCHANGED <<doing, left, last, fdVars, gai, thrown, anchors, session, limited,
                 conn, lib, st, max, peerVars, progVars>>

\* failed: a timeout, then the errno of the callback, then a TLS failure.
failed(c, status) ==
  IF c.timed_out THEN os_failure("EAGAIN") /\ conn' = [c EXCEPT !.timed_out = FALSE]
  ELSE IF status = "io" /\ c.io THEN os_failure("ECONNRESET") /\ conn' = [c EXCEPT !.io = FALSE]
  ELSE tls_failure /\ conn' = c

\* The error `failed` stands for.
Why(status) == CASE status = "block" -> "EAGAIN" [] status = "io" -> "ECONNRESET" [] OTHER -> "Tls"

\* The flags read_cb and write_cb leave behind when they end a call.
Flags(c, status) ==
  [c EXCEPT !.timed_out = @ \/ status = "block", !.io = @ \/ status = "io"]

\* SSLHandshake gives up: no byte within the limit (of each read or write; there
\* are finitely many), an OS error, a refusal.
HandshakeFails(status) ==
  /\ at = "handshake"
  /\ status = "block" => limited
  /\ failed(Flags(conn, status), status) /\ cause' = Why(status)
  /\ at' = "failed"
  /\ UNCHANGED <<doing, left, last, fdVars, gai, thrown, anchors, checked, session,
                 limited, lib, st, max, peerVars, progVars>>

\* The handshake completes (the library checks the peer itself when it was not
\* asked to stop).  The timeout is then lifted; a failure of that leaks too.
HandshakeDone ==
  /\ at = "handshake" /\ (anchors => checked # "nobody")
  /\ tls_status' = 0
  /\ \/ /\ limited' = FALSE /\ io_errno' = "0" /\ Throw("none", "none")
        /\ owned' = owned \cup {fd} /\ session' = "live"
        /\ checked' = IF anchors THEN checked ELSE "keychain"
        /\ UNCHANGED <<fd, lost, anchors, conn, lib, st, max, peerVars, progVars>>
     \/ /\ io_errno' = "EINVAL" /\ Throw("EINVAL", "EINVAL")
        /\ lost' = lost \cup {fd} /\ Disconnect
        /\ UNCHANGED owned
  /\ UNCHANGED <<doing, left, last, sock, isopen, gai>>

\* failure: the error for the call that just failed.
failure == IF tls_status = 2 THEN "Tls" ELSE io_errno

\* connect after kod_tls_open failed: the error is made, then kod_fd_close
\* overwrites the errno (with its own, when close fails).
OpenFailed ==
  /\ at = "failed"
  /\ Throw(failure, cause)
  /\ isopen' = isopen \ {fd} /\ Disconnect /\ io_errno' \in {"0", "EIO"}
  /\ UNCHANGED <<doing, left, last, sock, owned, lost, gai, tls_status>>

-----------------------------------------------------------------------------
(* The streams.                                                              *)

Live == fd \in owned /\ session \in {"live", "ended"}

Taken(s, n) == SubSeq(s, 1, IF n < Len(s) THEN n ELSE Len(s))
Rest(s, n) == SubSeq(s, n + 1, Len(s))

\* Both limits are set, one alone (read's comes first), or neither.
set_timeout ==
  /\ at = Idle /\ fd \in owned
  /\ limited' \in BOOLEAN
  /\ \/ io_errno' = "0" /\ Throw("none", "none")
     \/ io_errno' = "EINVAL" /\ Throw("EINVAL", "EINVAL")
  /\ UNCHANGED <<doing, left, last, fdVars, gai, tls_status, anchors, checked, session,
                 conn, lib, st, max, peerVars, progVars>>

Dead == {"dead", "cut"}

\* kod_tls_read: nothing more after the end; else SSLRead, which returns at once
\* when it has decrypted bytes.
tls_read(m) ==
  /\ at = Idle /\ Live
  /\ tls_status' = 0
  /\ IF m = 0 \/ session = "ended"
     THEN Throw("none", "none") /\ ended' = (ended \/ m > 0) /\ UNCHANGED <<max, st>>
     ELSE /\ max' = m /\ st' = IF lib.stage \in Dead THEN "abort" ELSE "noErr"
          /\ at' = IF lib.plain = <<>> /\ lib.stage \notin Dead THEN "SSLRead" ELSE "return"
          /\ thrown' = "none" /\ cause' = "none" /\ UNCHANGED ended
  /\ UNCHANGED <<doing, left, last, fdVars, io_errno, gai, anchors, checked, session,
                 limited, conn, lib, peerVars, delivered>>

\* The length of the request read_cb is working on.
Wanted == IF lib.stage = "h2" THEN 2 ELSE 1

\* read(2) in read_cb returns some of the request.  A header is followed by the
\* request for its body; a body is decrypted, and SSLRead then returns, with an
\* error if it has met the end of the connection meanwhile.
ReadSome ==
  /\ at = "SSLRead" /\ wire # <<>>
  /\ LET more == Taken(wire, Wanted - Len(lib.got))
         got == lib.got \o more
         whole == Len(got) = Wanted
         rest == Rest(wire, Len(more))
     IN  /\ wire' = rest
         /\ \/ /\ whole /\ lib.stage = "header"
               /\ lib' = [lib EXCEPT !.stage = got[1], !.got = <<>>, !.held = 0]
               /\ UNCHANGED <<at, st, conn>>
            \/ /\ whole /\ lib.stage \in {"h1", "h2"}
               /\ lib' = [NoRecord EXCEPT !.plain = got]
               /\ at' = "return"
               /\ \/ st' = "noErr" /\ UNCHANGED conn
                  \/ /\ rest = <<>> /\ peer = "closed"
                     /\ st' = "abort" /\ conn' = [conn EXCEPT !.clean_eof = TRUE]
            \/ /\ whole /\ lib.stage = "hb"
               /\ lib' = NoRecord /\ at' = "return" /\ st' = "graceful"
               /\ UNCHANGED conn
            \/ /\ ~whole
               /\ lib' = [lib EXCEPT !.got = got]
               /\ UNCHANGED <<at, st, conn>>
  /\ UNCHANGED <<doing, left, last, fdVars, errVars, anchors, checked, session, limited,
                 max, outgoing, peer, progVars>>

\* read(2) in read_cb returns 0: clean_eof when this call of read_cb has read
\* nothing yet.  The library fails every later read.
ReadEof ==
  /\ at = "SSLRead" /\ wire = <<>> /\ peer = "closed"
  /\ st' = "abort" /\ at' = "return"
  /\ conn' = [conn EXCEPT !.clean_eof = @ \/ Len(lib.got) = lib.held]
  /\ lib' = [lib EXCEPT !.stage = IF @ = "header" THEN "dead" ELSE "cut"]
  /\ UNCHANGED <<doing, left, last, fdVars, errVars, anchors, checked, session, limited,
                 max, peerVars, progVars>>

\* read(2) in read_cb fails: no byte within the limit, or an error.  What was
\* read of the request stays with the library, which goes on after a wait and
\* gives up after an error.
ReadStops(status) ==
  /\ at = "SSLRead" /\ wire = <<>>
  /\ status = "block" => limited /\ peer = "open"
  /\ st' = status /\ at' = "return" /\ conn' = Flags(conn, status)
  /\ lib' = [lib EXCEPT !.stage = IF status = "io" THEN "dead" ELSE @,
                        !.held = Len(lib.got)]
  /\ UNCHANGED <<doing, left, last, fdVars, errVars, anchors, checked, session, limited,
                 max, peerVars, progVars>>

\* Mutant: the room left in the caller's buffer is not subtracted.
ReturnData_drops ==
  /\ delivered' = delivered \o Taken(lib.plain, max)
  /\ lib' = [lib EXCEPT !.plain = <<>>]
  /\ session' = IF st \in {"graceful", "abort"} THEN "ended" ELSE session
  /\ Throw("none", "none")
  /\ UNCHANGED <<tls_status, io_errno, conn, ended>>

\* At most `max` of the decrypted bytes.  When SSLRead met a close, this is the
\* last read that returns any.
ReturnData ==
  /\ delivered' = delivered \o Taken(lib.plain, max)
  /\ lib' = [lib EXCEPT !.plain = Rest(@, max)]
  /\ session' = IF st \in {"graceful", "abort"} THEN "ended" ELSE session
  /\ Throw("none", "none")
  /\ UNCHANGED <<tls_status, io_errno, conn, ended>>

\* The end of the stream: a close notice, or a close with clean_eof set.
ReturnEnd ==
  /\ session' = "ended" /\ ended' = TRUE /\ Throw("none", "none")
  /\ UNCHANGED <<tls_status, io_errno, conn, lib, delivered>>

\* read throws what `failed` (or a connection cut inside a record) left.
ReturnError ==
  /\ failed(conn, st)
  /\ Throw(IF tls_status' = 2 THEN "Tls" ELSE io_errno', Why(st))
  /\ UNCHANGED <<lib, session, delivered, ended>>

IsEnd == st = "graceful" \/ (st = "abort" /\ conn.clean_eof)

\* The rest of kod_tls_read, and TlsStream.read.
ReadReturns ==
  /\ at = "return"
  /\ IF lib.plain # <<>> THEN ReturnData
     ELSE IF IsEnd THEN ReturnEnd
     ELSE ReturnError
  /\ max' = 0
  /\ UNCHANGED <<doing, left, last, fdVars, gai, anchors, checked, limited, st, peerVars>>

\* kod_tls_write, whole or failed, and TlsStream.write.
tls_write ==
  /\ at = Idle /\ Live
  /\ \/ /\ tls_status' = 0 /\ Throw("none", "none")
        /\ UNCHANGED <<io_errno, conn>>
     \/ \E status \in {"block", "io", "refused"} :
          /\ status = "block" => limited
          /\ failed(Flags(conn, status), status)
          /\ Throw(IF tls_status' = 2 THEN "Tls" ELSE io_errno', Why(status))
  /\ UNCHANGED <<doing, left, last, fdVars, gai, anchors, checked, session, limited,
                 lib, st, max, peerVars, progVars>>

\* kod_fd_read on a plain connection: some bytes, none at the end, or an error.
fd_read(m) ==
  /\ at = Idle /\ fd \in owned /\ session = "none"
  /\ \/ /\ wire # <<>> /\ m > 0
        /\ delivered' = delivered \o Taken(wire, m) /\ wire' = Rest(wire, m)
        /\ io_errno' = "0" /\ Throw("none", "none") /\ UNCHANGED ended
     \/ /\ m = 0 \/ (wire = <<>> /\ peer = "closed")
        /\ ended' = (ended \/ m > 0)
        /\ io_errno' = "0" /\ Throw("none", "none") /\ UNCHANGED <<delivered, wire>>
     \/ /\ m > 0 /\ wire = <<>>
        /\ \E e \in {"ECONNRESET", "EAGAIN"} :
             /\ e = "EAGAIN" => limited /\ peer = "open"
             /\ io_errno' = e /\ Throw(e, e)
        /\ UNCHANGED <<delivered, wire, ended>>
  /\ UNCHANGED <<doing, left, last, fdVars, gai, tls_status, tlsVars, outgoing, peer>>

\* kod_fd_write, whole, in part or failed.
fd_write ==
  /\ at = Idle /\ fd \in owned /\ session = "none"
  /\ \/ io_errno' = "0" /\ Throw("none", "none")
     \/ \E e \in {"ECONNRESET", "EAGAIN"} :
          (e = "EAGAIN" => limited) /\ io_errno' = e /\ Throw(e, e)
  /\ UNCHANGED <<doing, left, last, fdVars, gai, tls_status, tlsVars, peerVars, progVars>>

\* TlsStream.close (kod_tls_close sends the notice and frees the session, then
\* the descriptor is closed) or Fd.close.  close(2) may report an error; the
\* descriptor and the stream are gone then too.
Close(d) ==
  /\ at = Idle /\ d \in owned
  /\ isopen' = isopen \ {d} /\ owned' = owned \ {d}
  /\ \/ io_errno' = "0" /\ Throw("none", "none")
     \/ io_errno' = "EIO" /\ Throw("EIO", "EIO")
  /\ IF d = fd THEN Disconnect ELSE UNCHANGED <<fd, tlsVars, peerVars, progVars>>
  /\ UNCHANGED <<doing, left, last, sock, lost, gai, tls_status>>

-----------------------------------------------------------------------------
(* The peer of the connection: it sends one unit at a time and may close     *)
(* anywhere.                                                                 *)

Connected == fd # NoFd /\ peer = "open"

PeerSends ==
  /\ Connected /\ outgoing # <<>>
  /\ wire' = Append(wire, Head(outgoing)) /\ outgoing' = Tail(outgoing)
  /\ UNCHANGED <<callVars, fdVars, errVars, tlsVars, peer, progVars>>

PeerCloses ==
  /\ Connected /\ peer' = "closed"
  /\ UNCHANGED <<callVars, fdVars, errVars, tlsVars, outgoing, wire, progVars>>

-----------------------------------------------------------------------------
\* The steps a call in progress takes by itself: a socket call ends, a limited
\* wait runs out, bytes that have arrived are read.
NetProgress ==
  \/ new_socket \/ AddressFails \/ NoAddressLeft \/ SetTimeout \/ OpenSession
  \/ HandshakeFails("block") \/ OpenFailed
  \/ ReadSome \/ ReadEof \/ ReadStops("block") \/ ReadReturns

NetNext ==
  \/ NetProgress
  \/ \E what \in {"connect", "tls", "listen"} : resolve(what)
  \/ AddressAnswers \/ accept \/ port \/ set_timeout \/ tls_write \/ fd_write
  \/ ServerAuthCompleted \/ HandshakeDone
  \/ \E status \in {"io", "refused"} : HandshakeFails(status)
  \/ \E m \in Maxes : tls_read(m) \/ fd_read(m)
  \/ ReadStops("io")
  \/ \E d \in owned : Close(d)
  \/ PeerSends \/ PeerCloses

NetSpec == NetInit /\ [][NetNext]_netVars

\* The kernel schedules the program and its timers run.  Nothing is assumed of
\* the peer: what it does not send, no step delivers.
NetFairSpec == NetSpec /\ WF_netVars(NetProgress)

-----------------------------------------------------------------------------
(* Properties.                                                               *)

\* A descriptor that is open belongs to the program or to the call in progress,
\* whatever step of connect, listen or the handshake failed; the one exception
\* is a TLS connection whose timeout could not be set.
FdsAccounted ==
  /\ isopen \subseteq 1..MaxFds /\ owned \cap lost = {}
  /\ isopen = owned \cup lost \cup ({fd, sock} \ {NoFd})
  /\ at = Idle => {fd, sock} \subseteq owned \cup {NoFd}

\* The error a call throws is the failure that ended it: not an earlier call's
\* errno, not the first address's, and not that of the close which follows.
ErrorIsCause == at = Idle => thrown = cause

\* A session that reads and writes was checked against the trust file's
\* certificates if there is one, by the library's own check otherwise.
TrustChecked == Live => checked = IF anchors THEN "anchors" ELSE "keychain"

\* The data bytes of a sequence of records.
Payload(s) ==
  LET kept[i \in 0..Len(s)] ==
        IF i = 0 THEN <<>> ELSE IF IsByte(s[i]) THEN Append(kept[i - 1], s[i]) ELSE kept[i - 1]
  IN  kept[Len(s)]

\* Bytes reach the program in order, each once, over any splitting of records
\* into reads and reads into `max` bytes, timeouts in the middle included.
BytesInOrder ==
  LET bytes == delivered \o lib.plain \o Payload(lib.got) \o Payload(wire) \o Payload(outgoing)
  IN  Live \/ at = "return" => \A i \in DOMAIN bytes : bytes[i] = Bytes[i]

\* A wait that ran out, or an error, is never taken for the end of the stream:
\* the peer sent its close notice, or closed and nothing it sent is left to read.
EndNeedsClose ==
  ended /\ session = "ended" => st = "graceful" \/ (peer = "closed" /\ wire = <<>>)

\* What the program reads is the first of what the peer sent, and it is told of an
\* end only when the peer has made one.
StreamInOrder == BytesInOrder /\ EndNeedsClose

\* A handshake with a timeout, and a read on a stream with one, come to an end
\* whatever the peer does.
NetReturns ==
  /\ (at \in {"open", "handshake"} /\ limited) ~> at = Idle
  /\ (at = "SSLRead" /\ limited) ~> at = Idle

\* tls.c says of kod_tls_read that "A close between records is the end of the
\* stream", and has an error for a "connection closed in the middle of a record":
\* the end is reported only where a record has not begun.
EndBetweenRecords == Live /\ ended => lib.stage # "cut"

\* tls.c says of kod_tls_read that "the buffer is drained before the error
\* counts": when the end is reported no decrypted byte is left unread.
AllDelivered == Live /\ ended => lib.plain = <<>>
=============================================================================
