---------------------------- MODULE NetLink_proofs ----------------------------
(***************************************************************************)
(* Proofs about NetLink: descriptors are accounted for, the error thrown   *)
(* is the failure, a session was checked, an end reported is an end, and   *)
(* bytes arrive in order.  Five invariants, each over the ones before it.  *)
(***************************************************************************)
EXTENDS NetLink, Integers, WellFoundedInduction, TLAPS

Places == {Idle, "try", "opened", "arm", "open", "handshake", "failed",
           "SSLRead", "return"}

-----------------------------------------------------------------------------
(* Descriptors.                                                              *)

\* Between calls fd is a connection of the program or none; while a call works
\* on a descriptor, it is in fd or sock and nowhere else.
FdInv ==
  /\ at \in Places /\ fd \in 0..MaxFds /\ sock \in 0..MaxFds
  /\ session \in {"none", "live", "ended"}
  /\ FdsAccounted
  /\ (sock # NoFd <=> at = "opened") /\ sock \notin owned \cup lost
  /\ at \in {"try", "opened"} => fd = NoFd
  /\ at \in {"arm", "open", "handshake", "failed"} => fd # NoFd /\ fd \notin owned \cup lost
  /\ session # "none" => fd \in owned /\ at \in {Idle, "SSLRead", "return"}
  /\ at \in {"SSLRead", "return"} => session = "live"

\* A set of numbers that is not empty has a least member.
LEMMA LeastMember ==
  ASSUME NEW S, S \subseteq Nat, S # {}
  PROVE  \E d \in S : \A e \in S : d <= e
<1>1. PICK d \in S : \A e \in S : ~(<<e, d>> \in OpToRel(<, Nat))
  BY NatLessThanWellFounded, WFMin
<1>2. ASSUME NEW e \in S PROVE ~(e < d)
  BY <1>1 DEF OpToRel
<1>3. \A e \in S : d <= e
  BY <1>2
<1> QED
  BY <1>3

\* The kernel finds a free descriptor when there is one.
LEMMA LowestFreeIsFree ==
  ASSUME isopen \subseteq 1..MaxFds, isopen # 1..MaxFds
  PROVE  LowestFree \in (1..MaxFds) \ isopen
<1> DEFINE F == (1..MaxFds) \ isopen
<1>1. F \subseteq Nat /\ F # {}
  <2>1. F \subseteq Nat
    BY NetConstants
  <2>2. F # {}
    BY Zenon
  <2> QED BY <2>1, <2>2
<1>2. \E d \in F : \A e \in F : d <= e
  <2> HIDE DEF F
  <2> QED BY <1>1, LeastMember
<1> QED
  BY <1>2 DEF LowestFree

\* The initial state.
LEMMA FdInit == NetInit => FdInv
  BY NetConstants DEF NetInit, FdInv, FdsAccounted, Places, Idle, NoFd

\* Every step keeps descriptors accounted for.
LEMMA FdStep == FdInv /\ [NetNext]_netVars => FdInv'
<1> SUFFICES ASSUME FdInv, [NetNext]_netVars PROVE FdInv'
  OBVIOUS
<1> USE NetConstants DEF FdInv, FdsAccounted, Places, Idle, NoFd,
        callVars, fdVars, errVars, tlsVars, peerVars, progVars
<1>1. ASSUME NEW what \in {"connect", "tls", "listen"}, resolve(what) PROVE FdInv'
  BY <1>1 DEF resolve, Throw
<1>2. CASE new_socket
  BY <1>2, LowestFreeIsFree DEF new_socket
<1>3. CASE AddressFails
  BY <1>3 DEF AddressFails
<1>4. CASE AddressAnswers
  BY <1>4 DEF AddressAnswers
<1>5. CASE NoAddressLeft
  BY <1>5 DEF NoAddressLeft, Throw
<1>6. CASE accept
  BY <1>6, LowestFreeIsFree DEF accept
<1>7. CASE port \/ set_timeout \/ tls_write \/ fd_write
  BY <1>7 DEF port, set_timeout, tls_write, fd_write, Throw
<1>8. CASE SetTimeout
  BY <1>8 DEF SetTimeout, Throw, Disconnect
<1>9. CASE OpenSession
  BY <1>9 DEF OpenSession
<1>10. CASE ServerAuthCompleted
  BY <1>10 DEF ServerAuthCompleted, check_trust
<1>11. ASSUME NEW status, HandshakeFails(status) PROVE FdInv'
  BY <1>11 DEF HandshakeFails
<1>12. CASE HandshakeDone
  BY <1>12 DEF HandshakeDone, Throw, Disconnect
<1>13. CASE OpenFailed
  BY <1>13 DEF OpenFailed, Throw, Disconnect
<1>14. ASSUME NEW m, tls_read(m) PROVE FdInv'
  BY <1>14 DEF tls_read, Throw, Live
<1>15. CASE ReadSome
  BY <1>15 DEF ReadSome
<1>16. CASE ReadEof
  BY <1>16 DEF ReadEof
<1>17. ASSUME NEW status, ReadStops(status) PROVE FdInv'
  BY <1>17 DEF ReadStops
<1>18. CASE ReadReturns
  BY <1>18 DEF ReadReturns, ReturnData, ReturnEnd, ReturnError, Throw
<1>19. ASSUME NEW m, fd_read(m) PROVE FdInv'
  BY <1>19 DEF fd_read, Throw
<1>20. ASSUME NEW d \in owned, Close(d) PROVE FdInv'
  BY <1>20 DEF Close, Throw, Disconnect
<1>21. CASE PeerSends \/ PeerCloses
  BY <1>21 DEF PeerSends, PeerCloses
<1>22. CASE UNCHANGED netVars
  BY <1>22 DEF netVars
<1> QED
  BY <1>1, <1>2, <1>3, <1>4, <1>5, <1>6, <1>7, <1>8, <1>9, <1>10, <1>11, <1>12, <1>13,
     <1>14, <1>15, <1>16, <1>17, <1>18, <1>19, <1>20, <1>21, <1>22 DEF NetNext, NetProgress

\* The invariant behind the theorem.
LEMMA FdAlways == NetSpec => []FdInv
  BY FdInit, FdStep, PTL DEF NetSpec

\* Whatever step of connect, listen or the handshake fails, in any order of calls
\* and with any number of descriptors, every open descriptor is the program's, the
\* call's, or a TLS connection whose timeout could not be set.
THEOREM DescriptorsAccounted == NetSpec => []FdsAccounted
<1>1. FdInv => FdsAccounted
  BY DEF FdInv
<1> QED
  BY <1>1, FdAlways, PTL

-----------------------------------------------------------------------------
(* Errors.                                                                   *)

ConnFlags == [timed_out : BOOLEAN, io : BOOLEAN, clean_eof : BOOLEAN]

\* The flags of the connection and the library's buffers are records.
Shapes ==
  /\ conn \in ConnFlags
  /\ DOMAIN lib = {"stage", "got", "held", "plain"}

\* The flags the callbacks leave are flags.
LEMMA FlagsShape ==
  ASSUME NEW c \in ConnFlags, NEW status
  PROVE  /\ Flags(c, status) \in ConnFlags
         /\ Flags(c, status).timed_out <=> c.timed_out \/ status = "block"
         /\ Flags(c, status).io <=> c.io \/ status = "io"
         /\ Flags(c, status).clean_eof = c.clean_eof
  BY DEF Flags, ConnFlags

\* What `failed` leaves of the flags, and the error it stands for.
LEMMA FailedShape ==
  ASSUME NEW c \in ConnFlags, NEW status, failed(c, status)
  PROVE  /\ conn' \in ConnFlags /\ conn'.clean_eof = c.clean_eof /\ ~conn'.timed_out
         /\ (c.timed_out <=> status = "block") /\ (status = "io" => c.io)
              => Why(status) = failure'
<1>1. CASE c.timed_out
  <2>1. conn' = [c EXCEPT !.timed_out = FALSE] /\ failure' = "EAGAIN"
    BY <1>1 DEF failed, os_failure, failure
  <2>2. status = "block" => Why(status) = "EAGAIN"
    BY DEF Why
  <2> QED
    BY <1>1, <2>1, <2>2 DEF ConnFlags
<1>2. CASE ~c.timed_out /\ status = "io" /\ c.io
  <2>1. conn' = [c EXCEPT !.io = FALSE] /\ failure' = "ECONNRESET"
    BY <1>2 DEF failed, os_failure, failure
  <2>2. Why(status) = "ECONNRESET"
    BY <1>2 DEF Why
  <2> QED
    BY <1>2, <2>1, <2>2 DEF ConnFlags
<1>3. CASE ~c.timed_out /\ ~(status = "io" /\ c.io)
  BY <1>3 DEF failed, ConnFlags, tls_failure, Why, failure
<1> QED
  BY <1>1, <1>2, <1>3

\* A step writes only fields of these records.
LEMMA ShapeStep == Shapes /\ [NetNext]_netVars => Shapes'
<1> SUFFICES ASSUME Shapes, [NetNext]_netVars PROVE Shapes'
  OBVIOUS
<1> USE DEF Shapes, callVars, fdVars, errVars, tlsVars, peerVars, progVars
<1>0. NoFlags \in ConnFlags /\ DOMAIN NoRecord = {"stage", "got", "held", "plain"}
  BY DEF NoFlags, NoRecord, ConnFlags
<1>1. ASSUME NEW what \in {"connect", "tls", "listen"}, resolve(what) PROVE Shapes'
  BY <1>1 DEF resolve
<1>2. CASE new_socket \/ AddressFails \/ AddressAnswers \/ NoAddressLeft \/ accept \/ port
  BY <1>2 DEF new_socket, AddressFails, AddressAnswers, NoAddressLeft, accept, port
<1>3. CASE SetTimeout \/ OpenSession \/ ServerAuthCompleted \/ HandshakeDone \/ OpenFailed
  BY <1>0, <1>3 DEF SetTimeout, OpenSession, ServerAuthCompleted, HandshakeDone, OpenFailed,
     Disconnect
<1>4. ASSUME NEW status, HandshakeFails(status) PROVE Shapes'
  BY <1>4, FlagsShape, FailedShape DEF HandshakeFails
<1>5. ASSUME NEW m, tls_read(m) \/ fd_read(m) PROVE Shapes'
  BY <1>5 DEF tls_read, fd_read
<1>6. CASE ReadSome
  <2>1. lib' \in {lib', NoRecord} /\ DOMAIN lib' = {"stage", "got", "held", "plain"}
    BY <1>0, <1>6 DEF ReadSome, NoRecord
  <2>2. conn' \in ConnFlags
    BY <1>6 DEF ReadSome, ConnFlags
  <2> QED
    BY <2>1, <2>2
<1>7. CASE ReadEof
  BY <1>7 DEF ReadEof, ConnFlags
<1>8. ASSUME NEW status, ReadStops(status) PROVE Shapes'
  BY <1>8, FlagsShape DEF ReadStops
<1>9. CASE ReadReturns
  BY <1>9, FailedShape DEF ReadReturns, ReturnData, ReturnEnd, ReturnError
<1>10. CASE tls_write
  BY <1>10, FlagsShape, FailedShape DEF tls_write
<1>11. CASE set_timeout \/ fd_write \/ PeerSends \/ PeerCloses
  BY <1>11 DEF set_timeout, fd_write, PeerSends, PeerCloses
<1>12. ASSUME NEW d \in owned, Close(d) PROVE Shapes'
  BY <1>0, <1>12 DEF Close, Disconnect
<1>13. CASE UNCHANGED netVars
  BY <1>13 DEF netVars
<1> QED
  BY <1>1, <1>2, <1>3, <1>4, <1>5, <1>6, <1>7, <1>8, <1>9, <1>10, <1>11, <1>12, <1>13
     DEF NetNext, NetProgress

\* The records keep their fields.
LEMMA ShapeAlways == NetSpec => []Shapes
<1>1. NetInit => Shapes
  BY DEF NetInit, Shapes, ConnFlags, NoFlags, NoRecord
<1> QED
  BY <1>1, ShapeStep, PTL DEF NetSpec

\* What a read(2) in read_cb leaves: the request goes on, or SSLRead returns, with
\* data (and an error, at a close right behind it) or with the close notice.
LEMMA ReadSomeEffect ==
  ASSUME Shapes, ReadSome
  PROVE  /\ UNCHANGED <<doing, left, last, fdVars, errVars, anchors, checked, session,
                        limited, max, outgoing, peer, progVars>>
         /\ \/ UNCHANGED <<at, st, conn>> /\ lib'.plain = lib.plain
            \/ /\ at' = "return" /\ lib'.stage = "header" /\ lib'.got = <<>> /\ lib'.held = 0
               /\ \/ st' = "noErr" /\ UNCHANGED conn
                  \/ /\ wire' = <<>> /\ peer = "closed" /\ st' = "abort"
                     /\ conn' = [conn EXCEPT !.clean_eof = TRUE]
                  \/ st' = "graceful" /\ UNCHANGED conn /\ lib'.plain = <<>>
<1> DEFINE more == Taken(wire, Wanted - Len(lib.got))
           got == lib.got \o more
           rest == Rest(wire, Len(more))
<1>1. CASE lib' = [lib EXCEPT !.stage = got[1], !.got = <<>>, !.held = 0] /\ UNCHANGED <<at, st, conn>>
  <2> HIDE DEF got
  <2>1. lib'.plain = lib.plain
    BY <1>1 DEF Shapes
  <2> QED
    BY <1>1, <2>1 DEF ReadSome
<1>2. CASE /\ lib' = [NoRecord EXCEPT !.plain = got] /\ at' = "return"
           /\ \/ st' = "noErr" /\ UNCHANGED conn
              \/ /\ rest = <<>> /\ wire' = rest /\ peer = "closed"
                 /\ st' = "abort" /\ conn' = [conn EXCEPT !.clean_eof = TRUE]
  <2> HIDE DEF got, rest
  <2>1. lib'.stage = "header" /\ lib'.got = <<>> /\ lib'.held = 0
    BY <1>2 DEF NoRecord
  <2> QED
    BY <1>2, <2>1 DEF ReadSome
<1>3. CASE lib' = NoRecord /\ at' = "return" /\ st' = "graceful" /\ UNCHANGED conn
  BY <1>3 DEF ReadSome, NoRecord
<1>4. CASE lib' = [lib EXCEPT !.got = got] /\ UNCHANGED <<at, st, conn>>
  <2> HIDE DEF got
  <2>1. lib'.plain = lib.plain
    BY <1>4 DEF Shapes
  <2> QED
    BY <1>4, <2>1 DEF ReadSome
<1> QED
  BY <1>1, <1>2, <1>3, <1>4 DEF ReadSome

\* The slots hold the failure that ends the call from the step that fails until
\* the error is thrown, and no flag of an earlier read is left to outrank it.
ErrInv ==
  /\ ErrorIsCause
  /\ left \in Nat
  /\ at \in {"try", "opened"} => gai = FALSE /\ thrown = "none"
  /\ at = "try" /\ left = 0 => last = cause
  /\ at = "failed" => cause = failure
  /\ at = "handshake" => conn = NoFlags
  /\ at # "return" => ~conn.timed_out
  /\ at = "return" => (conn.timed_out <=> st = "block") /\ (st = "io" => conn.io)
  /\ at = "return" /\ lib.plain # <<>> => st \in {"noErr", "abort"}
  /\ at = "SSLRead" => lib.plain = <<>>

\* The initial state.
LEMMA ErrInit == NetInit => ErrInv
  BY DEF NetInit, ErrInv, ErrorIsCause, Shapes, NoFlags, NoRecord, Idle

\* Every step leaves in the slots what the call will throw.
LEMMA ErrStep == ErrInv /\ Shapes /\ FdInv /\ [NetNext]_netVars => ErrInv'
<1> SUFFICES ASSUME ErrInv, Shapes, FdInv, [NetNext]_netVars PROVE ErrInv'
  OBVIOUS
<1>0. at \in Places
  BY DEF FdInv
<1> USE <1>0, NetConstants DEF ErrInv, ErrorIsCause, Places, Idle, NoFd, NoFlags, NoRecord,
        callVars, fdVars, errVars, tlsVars, peerVars, progVars, failure
<1>1. ASSUME NEW what \in {"connect", "tls", "listen"}, resolve(what) PROVE ErrInv'
  BY <1>1 DEF resolve, Throw, ResolverFails, LastError
<1>2. CASE new_socket
  BY <1>2 DEF new_socket
<1>3. CASE AddressFails
  BY <1>3 DEF AddressFails
<1>4. CASE AddressAnswers
  BY <1>4 DEF AddressAnswers
<1>5. CASE NoAddressLeft
  BY <1>5 DEF NoAddressLeft, Throw, LastError
<1>6. CASE accept
  BY <1>6 DEF accept
<1>7. CASE port \/ set_timeout \/ fd_write
  BY <1>7 DEF port, set_timeout, fd_write, Throw
<1>8. CASE SetTimeout
  BY <1>8 DEF SetTimeout, Throw, Disconnect
<1>9. CASE OpenSession
  BY <1>9 DEF OpenSession, load_certificates, os_failure, tls_failure
<1>10. CASE ServerAuthCompleted
  BY <1>10 DEF ServerAuthCompleted, check_trust, tls_failure
<1>11. ASSUME NEW status \in {"block", "io", "refused"}, HandshakeFails(status) PROVE ErrInv'
  <2>1. Flags(conn, status) \in ConnFlags
    BY FlagsShape DEF Shapes
  <2>2. failure' = cause' /\ ~conn'.timed_out
    BY <1>11, <2>1, FlagsShape, FailedShape DEF HandshakeFails, Shapes
  <2> QED
    BY <1>11, <2>2 DEF HandshakeFails
<1>12. CASE HandshakeDone
  BY <1>12 DEF HandshakeDone, Throw, Disconnect
<1>13. CASE OpenFailed
  BY <1>13 DEF OpenFailed, Throw, Disconnect
<1>14. ASSUME NEW m, tls_read(m) PROVE ErrInv'
  BY <1>14 DEF tls_read, Throw
<1>15. CASE ReadSome
  <2>1. CASE UNCHANGED conn
    <3>1. at = "SSLRead"
      BY <1>15 DEF ReadSome
    <3>2. /\ UNCHANGED <<left, last, errVars>>
          /\ \/ UNCHANGED <<at, st>> /\ lib'.plain = lib.plain
             \/ at' = "return" /\ st' = "noErr"
             \/ at' = "return" /\ st' = "abort"
             \/ at' = "return" /\ st' = "graceful" /\ lib'.plain = <<>>
      BY <1>15, ReadSomeEffect
    <3> QED
      BY <2>1, <3>1, <3>2
  <2>2. CASE at' = "return" /\ st' = "abort" /\ conn' = [conn EXCEPT !.clean_eof = TRUE]
    <3>1. ~conn'.timed_out
      BY <1>15, <2>2 DEF ReadSome, Shapes, ConnFlags
    <3> QED
      BY <1>15, <2>2, <3>1, ReadSomeEffect
  <2> QED
    BY <1>15, <2>1, <2>2, ReadSomeEffect
<1>16. CASE ReadEof
  BY <1>16 DEF ReadEof, Shapes, ConnFlags
<1>17. ASSUME NEW status \in {"block", "io"}, ReadStops(status) PROVE ErrInv'
  BY <1>17, FlagsShape DEF ReadStops, Shapes
<1>18. CASE ReadReturns
  <2>1. CASE ReturnError
    <3>1. failure' = Why(st) /\ ~conn'.timed_out
      BY <1>18, <2>1, FailedShape DEF ReadReturns, ReturnError, Shapes
    <3> QED
      BY <1>18, <2>1, <3>1 DEF ReadReturns, ReturnError, Throw
  <2>2. CASE ReturnData /\ lib.plain # <<>>
    BY <1>18, <2>2 DEF ReadReturns, ReturnData, Throw
  <2>3. CASE ReturnEnd /\ IsEnd
    BY <1>18, <2>3 DEF ReadReturns, ReturnEnd, IsEnd, Throw
  <2> QED
    BY <1>18, <2>1, <2>2, <2>3 DEF ReadReturns
<1>19. ASSUME NEW m, fd_read(m) PROVE ErrInv'
  BY <1>19 DEF fd_read, Throw
<1>20. ASSUME NEW d \in owned, Close(d) PROVE ErrInv'
  BY <1>20 DEF Close, Throw, Disconnect
<1>21. CASE PeerSends \/ PeerCloses
  BY <1>21 DEF PeerSends, PeerCloses
<1>22. CASE tls_write
  <2>1. ASSUME NEW status \in {"block", "io", "refused"}, failed(Flags(conn, status), status),
               Throw(IF tls_status' = 2 THEN "Tls" ELSE io_errno', Why(status))
        PROVE  ErrInv'
    <3>1. failure' = Why(status) /\ ~conn'.timed_out
      BY <1>22, <2>1, FlagsShape, FailedShape DEF tls_write, Shapes
    <3> QED
      BY <1>22, <2>1, <3>1 DEF tls_write, Throw
  <2>2. CASE Throw("none", "none") /\ UNCHANGED conn
    BY <1>22, <2>2 DEF tls_write, Throw
  <2> QED
    BY <1>22, <2>1, <2>2 DEF tls_write
<1>23. CASE UNCHANGED netVars
  BY <1>23 DEF netVars
<1> QED
  BY <1>1, <1>2, <1>3, <1>4, <1>5, <1>6, <1>7, <1>8, <1>9, <1>10, <1>11, <1>12, <1>13,
     <1>14, <1>15, <1>16, <1>17, <1>18, <1>19, <1>20, <1>21, <1>22, <1>23
     DEF NetNext, NetProgress

\* The invariant behind the theorem.
LEMMA ErrAlways == NetSpec => []ErrInv
  BY FdAlways, ShapeAlways, ErrInit, ErrStep, PTL DEF NetSpec

\* Over any number of addresses and any sequence of calls, an error thrown by
\* connect, listen, accept, read, write or the handshake is the failure that ended
\* that call: no slot an earlier call wrote, and no close on the way out, hides it.
THEOREM ErrorsAreCauses == NetSpec => []ErrorIsCause
<1>1. ErrInv => ErrorIsCause
  BY DEF ErrInv
<1> QED
  BY <1>1, ErrAlways, PTL

-----------------------------------------------------------------------------
(* Trust.                                                                    *)

\* A handshake in progress has been checked by nobody or against the anchors.
TrustInv ==
  /\ session # "none" => checked = IF anchors THEN "anchors" ELSE "keychain"
  /\ at = "handshake" => checked \in {"nobody", "anchors"}

\* Only the handshake and the end of the connection touch what trust rests on.
LEMMA TrustStep == TrustInv /\ FdInv /\ [NetNext]_netVars => TrustInv'
<1> SUFFICES ASSUME TrustInv, FdInv, [NetNext]_netVars PROVE TrustInv'
  OBVIOUS
<1>0. session # "none" => at \in {Idle, "SSLRead", "return"}
  BY DEF FdInv
<1> USE <1>0 DEF TrustInv, Idle, callVars, fdVars, errVars, tlsVars, peerVars, progVars
<1>1. ASSUME NEW what \in {"connect", "tls", "listen"}, resolve(what) PROVE TrustInv'
  BY <1>1 DEF resolve, Throw
<1>2. CASE new_socket \/ AddressFails \/ AddressAnswers \/ NoAddressLeft \/ accept \/ port
  BY <1>2 DEF new_socket, AddressFails, AddressAnswers, NoAddressLeft, accept, port, Throw
<1>3. CASE SetTimeout
  BY <1>3 DEF SetTimeout, Throw, Disconnect
<1>4. CASE OpenSession
  BY <1>4 DEF OpenSession
<1>5. CASE ServerAuthCompleted
  BY <1>5 DEF ServerAuthCompleted, check_trust
<1>6. ASSUME NEW status, HandshakeFails(status) PROVE TrustInv'
  BY <1>6 DEF HandshakeFails
<1>7. CASE HandshakeDone
  BY <1>7 DEF HandshakeDone, Throw, Disconnect
<1>8. CASE OpenFailed
  BY <1>8 DEF OpenFailed, Throw, Disconnect
<1>9. ASSUME NEW m, tls_read(m) PROVE TrustInv'
  BY <1>9 DEF tls_read, Throw, Live
<1>10. CASE ReadSome \/ ReadEof
  <2>1. session = "live" /\ UNCHANGED <<anchors, checked, session>> /\ at' # "handshake"
    BY <1>10 DEF FdInv, ReadSome, ReadEof
  <2> QED
    BY <2>1
<1>11. ASSUME NEW status, ReadStops(status) PROVE TrustInv'
  BY <1>11 DEF ReadStops
<1>12. CASE ReadReturns
  <2>1. session = "live"
    BY <1>12 DEF FdInv, ReadReturns
  <2> QED
    BY <1>12, <2>1 DEF ReadReturns, ReturnData, ReturnEnd, ReturnError, Throw
<1>13. CASE set_timeout \/ tls_write \/ fd_write
  BY <1>13 DEF set_timeout, tls_write, fd_write, Throw
<1>14. ASSUME NEW m, fd_read(m) PROVE TrustInv'
  BY <1>14 DEF fd_read, Throw
<1>15. ASSUME NEW d \in owned, Close(d) PROVE TrustInv'
  BY <1>15 DEF Close, Throw, Disconnect
<1>16. CASE PeerSends \/ PeerCloses
  BY <1>16 DEF PeerSends, PeerCloses
<1>17. CASE UNCHANGED netVars
  BY <1>17 DEF netVars
<1> QED
  BY <1>1, <1>2, <1>3, <1>4, <1>5, <1>6, <1>7, <1>8, <1>9, <1>10, <1>11, <1>12, <1>13,
     <1>14, <1>15, <1>16, <1>17 DEF NetNext, NetProgress

\* A TLS session that reads or writes was checked: against the trust file's
\* certificates if connect was given one, by the library's own check otherwise.
THEOREM SessionsAreChecked == NetSpec => []TrustChecked
<1>1. NetInit => TrustInv
  BY DEF NetInit, TrustInv, Idle
<1>2. TrustInv => TrustChecked
  BY DEF TrustInv, TrustChecked, Live
<1> QED
  BY <1>1, <1>2, TrustStep, FdAlways, PTL DEF NetSpec

-----------------------------------------------------------------------------
(* The end of the stream.                                                    *)

\* The peer closed, everything it sent is read, and no part of a request is held.
Ended == peer = "closed" /\ wire = <<>> /\ Len(lib.got) = lib.held

\* A session ends only at a close, and clean_eof is set only by one.
EndInv ==
  /\ session = "ended" => st = "graceful" \/ Ended
  /\ session = "live" /\ at # "return" => ~conn.clean_eof
  /\ at = "return" /\ conn.clean_eof => st = "abort"
  /\ at = "return" /\ st = "abort" /\ (lib.plain # <<>> \/ conn.clean_eof) => Ended
  /\ lib.stage \in Dead => lib.plain = <<>>

\* No timeout, error or partial record makes a session end.
LEMMA EndStep == EndInv /\ ErrInv /\ Shapes /\ FdInv /\ [NetNext]_netVars => EndInv'
<1> SUFFICES ASSUME EndInv, ErrInv, Shapes, FdInv, [NetNext]_netVars PROVE EndInv'
  OBVIOUS
<1>0. /\ session # "none" => at \in {Idle, "SSLRead", "return"} /\ fd \in owned
      /\ at \in {"SSLRead", "return"} => session = "live"
      /\ session \in {"none", "live", "ended"}
      /\ at = "handshake" => conn = NoFlags
      /\ at = "SSLRead" => lib.plain = <<>>
      /\ Shapes
  BY DEF FdInv, ErrInv
<1> USE <1>0 DEF EndInv, Ended, Shapes, Idle, NoFlags, NoRecord,
        Dead,
        callVars, fdVars, errVars, tlsVars, peerVars, progVars
<1>1. ASSUME NEW what \in {"connect", "tls", "listen"}, resolve(what) PROVE EndInv'
  BY <1>1 DEF resolve, Throw
<1>2. CASE new_socket \/ AddressFails \/ AddressAnswers \/ NoAddressLeft \/ accept \/ port
  BY <1>2 DEF new_socket, AddressFails, AddressAnswers, NoAddressLeft, accept, port, Throw
<1>3. CASE SetTimeout
  BY <1>3 DEF SetTimeout, Throw, Disconnect
<1>4. CASE OpenSession
  BY <1>4 DEF OpenSession
<1>5. CASE ServerAuthCompleted
  BY <1>5 DEF ServerAuthCompleted, check_trust
<1>6. ASSUME NEW status, HandshakeFails(status) PROVE EndInv'
  BY <1>6 DEF HandshakeFails
<1>7. CASE HandshakeDone
  BY <1>7 DEF HandshakeDone, Throw, Disconnect
<1>8. CASE OpenFailed
  BY <1>8 DEF OpenFailed, Throw, Disconnect
<1>9. ASSUME NEW m, tls_read(m) PROVE EndInv'
  BY <1>9 DEF tls_read, Throw, Live
<1>10. CASE ReadSome
  <2>1. CASE UNCHANGED <<at, st, conn>> /\ lib'.plain = lib.plain
    BY <1>10, <2>1, ReadSomeEffect DEF ReadSome
  <2>2. CASE at' = "return" /\ st' # "abort" /\ UNCHANGED conn /\ lib'.stage = "header"
    BY <1>10, <2>2, ReadSomeEffect DEF ReadSome
  <2>3. CASE at' = "return" /\ st' = "abort" /\ lib'.stage = "header" /\ Ended'
    BY <1>10, <2>3, ReadSomeEffect DEF ReadSome
  <2> QED
    BY <1>10, <2>1, <2>2, <2>3, ReadSomeEffect
<1>11. CASE ReadEof
  <2>1. lib'.plain = <<>> /\ lib'.got = lib.got /\ lib'.held = lib.held
    BY <1>11 DEF ReadEof
  <2>2. conn'.clean_eof => Len(lib.got) = lib.held
    BY <1>11 DEF ReadEof, ConnFlags
  <2> QED
    BY <1>11, <2>1, <2>2 DEF ReadEof
<1>12. ASSUME NEW status \in {"block", "io"}, ReadStops(status) PROVE EndInv'
  BY <1>12 DEF ReadStops, Flags
<1>13. CASE ReadReturns
  <2>1. CASE ReturnError /\ lib.plain = <<>> /\ ~IsEnd
    <3>1. conn'.clean_eof = conn.clean_eof
      BY <2>1, FailedShape DEF ReturnError
    <3> QED
      BY <1>13, <2>1, <3>1 DEF ReadReturns, ReturnError, Throw, IsEnd
  <2>2. CASE ReturnData /\ lib.plain # <<>>
    BY <1>13, <2>2 DEF ReadReturns, ReturnData, Throw
  <2>3. CASE ReturnEnd /\ IsEnd
    BY <1>13, <2>3 DEF ReadReturns, ReturnEnd, IsEnd, Throw
  <2> QED
    BY <1>13, <2>1, <2>2, <2>3 DEF ReadReturns
<1>14. CASE set_timeout \/ fd_write
  BY <1>14 DEF set_timeout, fd_write, Throw
<1>15. CASE tls_write
  <2>1. conn'.clean_eof = conn.clean_eof
    BY <1>15, FlagsShape, FailedShape DEF tls_write
  <2> QED
    BY <1>15, <2>1 DEF tls_write, Throw
<1>16. ASSUME NEW m, fd_read(m) PROVE EndInv'
  BY <1>16 DEF fd_read, Throw
<1>17. ASSUME NEW d \in owned, Close(d) PROVE EndInv'
  BY <1>17 DEF Close, Throw, Disconnect
<1>18. CASE PeerSends \/ PeerCloses
  BY <1>18 DEF PeerSends, PeerCloses, Connected
<1>19. CASE UNCHANGED netVars
  BY <1>19 DEF netVars
<1> QED
  BY <1>1, <1>2, <1>3, <1>4, <1>5, <1>6, <1>7, <1>8, <1>9, <1>10, <1>11, <1>12, <1>13,
     <1>14, <1>15, <1>16, <1>17, <1>18, <1>19 DEF NetNext, NetProgress

\* A read reports the end of the stream only after a close notice, or after the
\* peer closed with everything it sent read: never for a wait that ran out or an
\* error.  (The second half of StreamInOrder.  Nothing is said of where in a record
\* the peer closed: EndBetweenRecords does not hold.)
THEOREM EndsNeedAClose == NetSpec => []EndNeedsClose
<1>1. NetInit => EndInv
  BY DEF NetInit, EndInv, NoFlags, NoRecord, Idle
<1>2. EndInv => EndNeedsClose
  BY DEF EndInv, EndNeedsClose, Ended
<1> QED
  BY <1>1, <1>2, EndStep, ErrAlways, ShapeAlways, FdAlways, PTL DEF NetSpec

-----------------------------------------------------------------------------
(* The order of the bytes.                                                   *)

Stages == Headers \cup {"header"}

\* The bytes of s are the first of Bytes.
First(s) == Len(s) <= Len(Bytes) /\ \A i \in 1..Len(s) : s[i] = Bytes[i]

\* `done` has been decrypted, `got` is what the library holds of a record's body,
\* `rest` has still to reach it.
InOrder(done, got, stage, rest) ==
  /\ done \in Seq(Units) /\ rest \in Seq(Units) /\ stage \in Stages \cup Dead
  /\ got = <<>> \/ \E b \in Units : IsByte(b) /\ got = <<b>> /\ stage \in {"h2"} \cup Dead
  /\ stage \notin Dead => Framed(rest, IF got = <<>> THEN stage ELSE "h1")
  /\ First(done \o got) /\ Counted(rest, Len(done \o got))

\* The parts of a stream that is not at its end.
LEMMA Split ==
  ASSUME NEW s \in Seq(Units), s # <<>>
  PROVE  /\ Head(s) = s[1] /\ Head(s) \in Units /\ Tail(s) \in Seq(Units)
         /\ Len(s) \in Nat \ {0} /\ Len(Tail(s)) = Len(s) - 1
         /\ \A i \in 1..(Len(s) - 1) : Tail(s)[i] = s[i + 1]
  OBVIOUS

\* The first unit of a framed stream is what is due, and the rest is framed.
LEMMA FramedTail ==
  ASSUME NEW s \in Seq(Units), s # <<>>, NEW d, Framed(s, d)
  PROVE  \E e \in Stages : Announced(Head(s), d, e) /\ Framed(Tail(s), e)
<1>1. PICK due \in [0..Len(s) -> Stages] :
         due[0] = d /\ \A i \in 1..Len(s) : Announced(s[i], due[i - 1], due[i])
  BY DEF Framed, Stages
<1>2. PICK L \in Nat \ {0} : L = Len(s)
  BY Split
<1>3. PICK t \in Seq(Units) : t = Tail(s)
  BY Split
<1>4. Len(t) = L - 1 /\ (\A i \in 1..(L - 1) : t[i] = s[i + 1]) /\ Head(s) = s[1]
  BY <1>2, <1>3, Split
<1>5. PICK f : f = [i \in 0..(L - 1) |-> due[i + 1]]
  OBVIOUS
<1>6. \A i \in 0..(L - 1) : i + 1 \in 0..L /\ f[i] = due[i + 1]
  BY <1>2, <1>5
<1>7. f \in [0..Len(t) -> Stages]
  BY <1>1, <1>2, <1>4, <1>5, <1>6
<1>8. f[0] = due[1] /\ due[1] \in Stages /\ Announced(Head(s), d, due[1])
  <2>1. 0 \in 0..(L - 1) /\ 1 \in 1..L /\ 1 \in 0..L /\ 1 - 1 = 0 /\ 0 + 1 = 1
    BY <1>2
  <2>2. Announced(s[1], due[0], due[1])
    BY <1>1, <1>2, <2>1
  <2> QED
    BY <1>1, <1>2, <1>4, <1>6, <2>1, <2>2
<1>9. ASSUME NEW i \in 1..Len(t) PROVE Announced(t[i], f[i - 1], f[i])
  <2>1. /\ i \in 1..(L - 1) /\ i + 1 \in 1..L /\ i - 1 \in 0..(L - 1) /\ i \in 0..(L - 1)
        /\ (i + 1) - 1 = i /\ (i - 1) + 1 = i
    BY <1>2, <1>4
  <2>2. Announced(s[i + 1], due[i], due[i + 1])
    BY <1>1, <1>2, <2>1
  <2>3. f[i - 1] = due[i] /\ f[i] = due[i + 1] /\ t[i] = s[i + 1]
    BY <1>4, <1>6, <2>1
  <2> QED
    BY <2>2, <2>3
<1>10. Framed(t, due[1])
  BY <1>7, <1>8, <1>9 DEF Framed, Stages
<1> QED
  BY <1>3, <1>8, <1>10

\* The first unit of a counted stream is the next byte, or no byte.
LEMMA CountedTail ==
  ASSUME NEW s \in Seq(Units), s # <<>>, NEW n, Counted(s, n)
  PROVE  /\ n \in 0..Len(Bytes)
         /\ IF IsByte(Head(s))
            THEN n + 1 \in 1..Len(Bytes) /\ Head(s) = Bytes[n + 1] /\ Counted(Tail(s), n + 1)
            ELSE Counted(Tail(s), n)
<1>1. PICK k \in [0..Len(s) -> 0..Len(Bytes)] :
         /\ k[0] = n
         /\ \A i \in 1..Len(s) :
              IF IsByte(s[i]) THEN k[i] = k[i - 1] + 1 /\ s[i] = Bytes[k[i]] ELSE k[i] = k[i - 1]
  BY DEF Counted
<1>2. PICK L \in Nat \ {0} : L = Len(s)
  BY Split
<1>3. PICK t \in Seq(Units) : t = Tail(s)
  BY Split
<1>4. Len(t) = L - 1 /\ (\A i \in 1..(L - 1) : t[i] = s[i + 1]) /\ Head(s) = s[1]
  BY <1>2, <1>3, Split
<1>5. PICK f : f = [i \in 0..(L - 1) |-> k[i + 1]]
  OBVIOUS
<1>6. \A i \in 0..(L - 1) : i + 1 \in 0..L /\ f[i] = k[i + 1]
  BY <1>2, <1>5
<1>7. f \in [0..Len(t) -> 0..Len(Bytes)]
  BY <1>1, <1>2, <1>4, <1>5, <1>6
<1>8. ASSUME NEW i \in 1..Len(t)
      PROVE  IF IsByte(t[i]) THEN f[i] = f[i - 1] + 1 /\ t[i] = Bytes[f[i]] ELSE f[i] = f[i - 1]
  <2>1. /\ i \in 1..(L - 1) /\ i + 1 \in 1..L /\ i - 1 \in 0..(L - 1) /\ i \in 0..(L - 1)
        /\ (i + 1) - 1 = i /\ (i - 1) + 1 = i
    BY <1>2, <1>4
  <2>2. IF IsByte(s[i + 1]) THEN k[i + 1] = k[i] + 1 /\ s[i + 1] = Bytes[k[i + 1]]
        ELSE k[i + 1] = k[i]
    BY <1>1, <1>2, <2>1
  <2>3. f[i - 1] = k[i] /\ f[i] = k[i + 1] /\ t[i] = s[i + 1]
    BY <1>4, <1>6, <2>1
  <2> QED
    BY <2>2, <2>3
<1>9. Counted(t, k[1])
  <2>1. f[0] = k[1]
    BY <1>2, <1>6
  <2> QED
    BY <1>7, <1>8, <2>1 DEF Counted
<1>10. k[0] \in 0..Len(Bytes) /\ k[1] \in 0..Len(Bytes)
  BY <1>1, <1>2
<1>11. IF IsByte(s[1]) THEN k[1] = n + 1 /\ s[1] = Bytes[k[1]] ELSE k[1] = n
  <2>1. 1 \in 1..L /\ 1 - 1 = 0
    BY <1>2
  <2> QED
    BY <1>1, <1>2, <2>1
<1>12. Len(Bytes) \in Nat
  BY NetConstants
<1> QED
  BY <1>1, <1>3, <1>4, <1>9, <1>10, <1>11, <1>12

\* A stream with one unit more.
LEMMA Longer ==
  ASSUME NEW s \in Seq(Units), NEW u \in Units
  PROVE  /\ s \o <<u>> \in Seq(Units) /\ Len(s \o <<u>>) = Len(s) + 1
         /\ (s \o <<u>>)[Len(s) + 1] = u /\ \A i \in 1..Len(s) : (s \o <<u>>)[i] = s[i]
  OBVIOUS

\* One byte more is the next of Bytes.
LEMMA OneMore ==
  ASSUME NEW s \in Seq(Units), First(s), NEW b \in Units, Len(s) + 1 \in 1..Len(Bytes),
         b = Bytes[Len(s) + 1]
  PROVE  s \o <<b>> \in Seq(Units) /\ First(s \o <<b>>) /\ Len(s \o <<b>>) = Len(s) + 1
<1>1. PICK n \in Nat : n = Len(s)
  OBVIOUS
<1>2. PICK t : t = s \o <<b>>
  OBVIOUS
<1>3. t \in Seq(Units) /\ Len(t) = n + 1 /\ t[n + 1] = b /\ \A i \in 1..n : t[i] = s[i]
  BY <1>1, <1>2, Longer
<1>4. n + 1 <= Len(Bytes)
  BY <1>1, NetConstants
<1>5. ASSUME NEW i \in 1..(n + 1) PROVE t[i] = Bytes[i]
  <2>1. i \in 1..n \/ i = n + 1
    BY <1>1
  <2> QED
    BY <1>1, <1>3, <2>1 DEF First
<1> QED
  BY <1>1, <1>2, <1>3, <1>4, <1>5 DEF First

\* What the library has in hand.
LEMMA InHand ==
  ASSUME NEW done, NEW got, NEW stage, NEW rest, InOrder(done, got, stage, rest)
  PROVE  /\ done \o got \in Seq(Units) /\ done \o <<>> = done
         /\ got # <<>> => stage \in {"h2"} \cup Dead /\ Len(got) = 1 /\ IsByte(got[1]) /\ got \in Seq(Units)
<1>1. done \in Seq(Units) /\ done \o <<>> = done
  BY DEF InOrder
<1>2. CASE got = <<>>
  BY <1>1, <1>2
<1>3. CASE got # <<>>
  <2>1. PICK b \in Units : IsByte(b) /\ got = <<b>> /\ stage \in {"h2"} \cup Dead
    BY <1>3 DEF InOrder
  <2> QED
    BY <1>1, <2>1
<1> QED
  BY <1>2, <1>3

\* A header announces what comes next.
LEMMA HeaderRead ==
  ASSUME NEW done, NEW got, NEW rest, InOrder(done, got, "header", rest), rest # <<>>
  PROVE  got = <<>> /\ Head(rest) \in Headers /\ InOrder(done, <<>>, Head(rest), Tail(rest))
<1>1. got = <<>>
  BY InHand DEF Dead
<1>2. PICK u : u = Head(rest)
  OBVIOUS
<1>3. PICK t : t = Tail(rest)
  OBVIOUS
<1>4. rest \in Seq(Units) /\ Framed(rest, "header") /\ Counted(rest, Len(done \o <<>>))
  BY <1>1 DEF InOrder, Dead
<1>5. PICK e \in Stages : Announced(u, "header", e) /\ Framed(t, e)
  BY <1>2, <1>3, <1>4, FramedTail
<1>6. u \in Headers /\ ~IsByte(u) /\ e = u
  BY <1>5 DEF Announced
<1>7. Counted(t, Len(done \o <<>>))
  BY <1>2, <1>3, <1>4, <1>6, CountedTail
<1>8. t \in Seq(Units)
  BY <1>3, <1>4, Split
<1>9. InOrder(done, <<>>, u, t)
  BY <1>1, <1>5, <1>6, <1>7, <1>8 DEF InOrder, Stages, Headers
<1> QED
  BY <1>1, <1>2, <1>3, <1>6, <1>9

\* The close notice carries no byte.
LEMMA NoticeRead ==
  ASSUME NEW done, NEW got, NEW rest, InOrder(done, got, "hb", rest), rest # <<>>
  PROVE  got = <<>> /\ InOrder(done, <<>>, "header", Tail(rest))
<1>1. got = <<>>
  BY InHand DEF Dead
<1>2. PICK u : u = Head(rest)
  OBVIOUS
<1>3. PICK t : t = Tail(rest)
  OBVIOUS
<1>4. rest \in Seq(Units) /\ Framed(rest, "hb") /\ Counted(rest, Len(done \o <<>>))
  BY <1>1 DEF InOrder, Dead
<1>5. PICK e \in Stages : Announced(u, "hb", e) /\ Framed(t, e)
  BY <1>2, <1>3, <1>4, FramedTail
<1>6. ~IsByte(u) /\ e = "header"
  BY <1>5 DEF Announced
<1>7. Counted(t, Len(done \o <<>>))
  BY <1>2, <1>3, <1>4, <1>6, CountedTail
<1>8. t \in Seq(Units)
  BY <1>3, <1>4, Split
<1>9. InOrder(done, <<>>, "header", t)
  BY <1>1, <1>5, <1>6, <1>7, <1>8 DEF InOrder, Stages
<1> QED
  BY <1>1, <1>3, <1>9

\* A byte of a record's body is the next one; it is kept until the record is whole.
LEMMA ByteRead ==
  ASSUME NEW done, NEW got, NEW stage \in {"h1", "h2"}, NEW rest,
         InOrder(done, got, stage, rest), rest # <<>>
  PROVE  IF stage = "h2" /\ got = <<>>
         THEN InOrder(done, <<Head(rest)>>, "h2", Tail(rest))
         ELSE InOrder(done \o (got \o <<Head(rest)>>), <<>>, "header", Tail(rest))
<1>1. PICK u : u = Head(rest)
  OBVIOUS
<1>2. PICK t : t = Tail(rest)
  OBVIOUS
<1>3. PICK h \in Seq(Units) : h = done \o got
  BY InHand
<1>4. PICK d : d = IF got = <<>> THEN stage ELSE "h1"
  OBVIOUS
<1>5. /\ rest \in Seq(Units) /\ Framed(rest, d) /\ Counted(rest, Len(h)) /\ First(h)
      /\ d \in {"h1", "h2"} /\ done \in Seq(Units)
  BY <1>3, <1>4 DEF InOrder, Dead
<1>6. PICK e \in Stages : Announced(u, d, e) /\ Framed(t, e)
  BY <1>1, <1>2, <1>5, FramedTail
<1>7. IsByte(u) /\ e = IF d = "h2" THEN "h1" ELSE "header"
  BY <1>5, <1>6 DEF Announced
<1>8. Len(h) + 1 \in 1..Len(Bytes) /\ u = Bytes[Len(h) + 1] /\ Counted(t, Len(h) + 1)
  BY <1>1, <1>2, <1>5, <1>7, CountedTail
<1>9. t \in Seq(Units) /\ u \in Units
  BY <1>1, <1>2, <1>5, Split
<1>10. PICK g : g = h \o <<u>>
  OBVIOUS
<1>11. g \in Seq(Units) /\ First(g) /\ Len(g) = Len(h) + 1
  BY <1>5, <1>8, <1>9, <1>10, OneMore
<1>12. CASE stage = "h2" /\ got = <<>>
  <2>1. h = done /\ g = done \o <<u>> /\ e = "h1"
    BY <1>3, <1>4, <1>5, <1>7, <1>10, <1>12
  <2>2. First(done \o <<u>>) /\ Counted(t, Len(done \o <<u>>)) /\ Framed(t, "h1")
    BY <1>6, <1>8, <1>11, <2>1
  <2>3. <<u>> # <<>>
    OBVIOUS
  <2>4. InOrder(done, <<u>>, "h2", t)
    BY <1>5, <1>7, <1>9, <2>2, <2>3 DEF InOrder, Stages, Headers
  <2> QED
    BY <1>1, <1>2, <1>12, <2>4
<1>13. CASE ~(stage = "h2" /\ got = <<>>)
  <2>1. e = "header"
    BY <1>4, <1>5, <1>7, <1>13
  <2>2. g = done \o (got \o <<u>>)
    <3>1. CASE got = <<>>
      BY <1>3, <1>5, <1>9, <1>10, <3>1
    <3>2. CASE got # <<>>
      <4>1. PICK b \in Units : got = <<b>>
        BY <3>2 DEF InOrder
      <4> QED
        BY <1>3, <1>5, <1>9, <1>10, <4>1
    <3> QED
      BY <3>1, <3>2
  <2>3. g \o <<>> = g
    BY <1>11
  <2>4. InOrder(g, <<>>, "header", t)
    BY <1>6, <1>8, <1>9, <1>11, <2>1, <2>3 DEF InOrder, Stages
  <2> QED
    BY <1>1, <1>2, <1>13, <2>2, <2>4
<1> QED
  BY <1>12, <1>13

\* A library that gives up leaves the order as it is.
LEMMA GivesUp ==
  ASSUME NEW done, NEW got, NEW stage, NEW rest, InOrder(done, got, stage, rest)
  PROVE  \A dead \in Dead : InOrder(done, got, dead, rest)
  BY DEF InOrder

\* A connection that is or will be a TLS session.
Secure == at \in {"arm", "open", "handshake", "failed"} \/ session # "none"

\* What has been decrypted, and what has still to reach the library, of the stream.
StreamTypes ==
  /\ delivered \in Seq(Units) /\ lib.plain \in Seq(Units)
  /\ wire \in Seq(Units) /\ outgoing \in Seq(Units)

\* From the connection's start to its end the bytes are in order: those decrypted,
\* those the library holds and those to come.
StreamInv ==
  /\ max \in Nat
  /\ fd = NoFd => wire = <<>> /\ delivered = <<>> /\ lib = NoRecord
  /\ at \in {"arm", "open", "handshake", "failed"} => delivered = <<>> /\ lib = NoRecord
  /\ Secure => StreamTypes /\ InOrder(delivered \o lib.plain, lib.got, lib.stage, wire \o outgoing)
  /\ at = "SSLRead" => lib.stage \notin Dead

\* Steps that leave the stream alone.
LEMMA StreamKept ==
  ASSUME StreamInv, UNCHANGED <<max, delivered, lib, wire, outgoing>>, fd' = NoFd => fd = NoFd,
         Secure' => Secure, at' = "SSLRead" => at = "SSLRead",
         at' \in {"arm", "open", "handshake", "failed"} => at \in {"arm", "open", "handshake", "failed"}
  PROVE  StreamInv'
  BY DEF StreamInv, StreamTypes

\* A connection that is gone leaves nothing.
LEMMA StreamGone ==
  ASSUME Disconnect, at' = Idle
  PROVE  StreamInv'
  BY DEF Disconnect, StreamInv, Secure, Idle, NoRecord

\* A new connection has its peer's stream before it.
LEMMA StreamNew ==
  ASSUME NEW s \in Streams
  PROVE  s \in Seq(Units) /\ InOrder(<<>> \o <<>>, <<>>, "header", <<>> \o s)
<1>1. s \in Seq(Units) /\ Framed(s, "header") /\ Counted(s, 0) /\ Bytes \in Seq(Units)
  BY NetConstants
<1>2. PICK z : z = <<>>
  OBVIOUS
<1>2a. z \in Seq(Units)
  BY <1>2
<1>3. z \o z = z /\ Len(z) = 0 /\ z \o s = s /\ 0 <= Len(Bytes)
  BY <1>1, <1>2, <1>2a
<1>4. First(z)
  BY <1>3 DEF First
<1>5. InOrder(z, z, "header", s)
  BY <1>1, <1>2, <1>2a, <1>3, <1>4 DEF InOrder, Stages
<1> QED
  BY <1>1, <1>2, <1>3, <1>5

\* A part taken and the rest are the whole.
LEMMA TakenAndRest ==
  ASSUME NEW s \in Seq(Units), NEW n \in Nat
  PROVE  /\ Taken(s, n) \in Seq(Units) /\ Rest(s, n) \in Seq(Units)
         /\ Taken(s, n) \o Rest(s, n) = s
<1>1. PICK L \in Nat : L = Len(s)
  OBVIOUS
<1>2. PICK c \in 0..L : c = IF n < L THEN n ELSE L
  BY <1>1
<1>3. PICK a : a = SubSeq(s, 1, c)
  OBVIOUS
<1>4. a \in Seq(Units) /\ Len(a) = c /\ \A i \in 1..c : a[i] = s[i]
  BY <1>1, <1>2, <1>3
<1>5. PICK b : b = SubSeq(s, n + 1, L)
  OBVIOUS
<1>6. b \in Seq(Units) /\ Len(b) = L - c /\ \A i \in 1..(L - c) : b[i] = s[c + i]
  <2>1. CASE n < L
    BY <1>1, <1>2, <1>5, <2>1
  <2>2. CASE ~(n < L)
    <3>1. b = <<>>
      BY <1>1, <1>5, <2>2
    <3>2. L - c = 0 /\ \A i \in 1..0 : FALSE
      BY <1>1, <1>2, <2>2
    <3> QED
      BY <3>1, <3>2
  <2> QED
    BY <2>1, <2>2
<1>7. PICK j : j = a \o b
  OBVIOUS
<1>8. j \in Seq(Units) /\ Len(j) = L
  BY <1>1, <1>2, <1>4, <1>6, <1>7
<1>9. ASSUME NEW i \in 1..L PROVE j[i] = s[i]
  <2>1. CASE i <= c
    BY <1>1, <1>2, <1>4, <1>6, <1>7, <2>1
  <2>2. CASE ~(i <= c)
    <3>1. i - c \in 1..(L - c) /\ c + (i - c) = i
      BY <1>1, <1>2, <2>2
    <3>2. j[i] = b[i - c]
      BY <1>1, <1>2, <1>4, <1>6, <1>7, <2>2
    <3> QED
      BY <1>6, <3>1, <3>2
  <2> QED
    BY <2>1, <2>2
<1>10. j = s
  BY <1>1, <1>8, <1>9
<1>11. Taken(s, n) = a /\ Rest(s, n) = b
  BY <1>1, <1>2, <1>3, <1>5 DEF Taken, Rest
<1> QED
  BY <1>4, <1>6, <1>7, <1>10, <1>11

\* Streams with the same units are the same.
LEMMA SameUnits ==
  ASSUME NEW s \in Seq(Units), NEW t \in Seq(Units), NEW n \in Nat, Len(s) = n, Len(t) = n,
         \A i \in 1..n : s[i] = t[i]
  PROVE  s = t
  OBVIOUS

\* One stream after another.
LEMMA Joined ==
  ASSUME NEW s \in Seq(Units), NEW t \in Seq(Units)
  PROVE  /\ s \o t \in Seq(Units) /\ Len(s \o t) = Len(s) + Len(t)
         /\ \A i \in 1..Len(s) : (s \o t)[i] = s[i]
         /\ \A i \in 1..Len(t) : (s \o t)[Len(s) + i] = t[i]
  OBVIOUS

Joins(j, s, t) ==
  /\ j \in Seq(Units) /\ Len(j) = Len(s) + Len(t)
  /\ (\A i \in 1..Len(s) : j[i] = s[i]) /\ (\A i \in 1..Len(t) : j[Len(s) + i] = t[i])

\* The same, of a stream with a name.
LEMMA JoinIs ==
  ASSUME NEW s \in Seq(Units), NEW t \in Seq(Units), NEW j, j = s \o t
  PROVE  Joins(j, s, t)
<1>1. /\ s \o t \in Seq(Units) /\ Len(s \o t) = Len(s) + Len(t)
      /\ \A i \in 1..Len(s) : (s \o t)[i] = s[i]
      /\ \A i \in 1..Len(t) : (s \o t)[Len(s) + i] = t[i]
  BY Joined
<1> QED
  BY <1>1 DEF Joins

\* The first unit, and the first two.
LEMMA FirstUnits ==
  ASSUME NEW s \in Seq(Units), s # <<>>
  PROVE  /\ SubSeq(s, 1, 1) = <<s[1]>>
         /\ Len(s) >= 2 => SubSeq(s, 1, 2) = <<s[1], s[2]>>
<1>1. PICK L \in Nat \ {0} : L = Len(s)
  OBVIOUS
<1>2. s[1] \in Units /\ <<s[1]>> \in Seq(Units) /\ Len(<<s[1]>>) = 1 /\ <<s[1]>>[1] = s[1]
  BY <1>1
<1>3. PICK a : a = SubSeq(s, 1, 1)
  OBVIOUS
<1>4. a \in Seq(Units) /\ Len(a) = 1 /\ a[1] = s[1]
  BY <1>1, <1>3
<1>5. \A i \in 1..1 : i = 1
  OBVIOUS
<1>6. a = <<s[1]>>
  BY <1>2, <1>4, <1>5, SameUnits
<1>7. ASSUME L >= 2 PROVE SubSeq(s, 1, 2) = <<s[1], s[2]>>
  <2>1. s[2] \in Units
    BY <1>1, <1>7
  <2>2. PICK c : c = <<s[1], s[2]>>
    OBVIOUS
  <2>3. c \in Seq(Units) /\ Len(c) = 2 /\ c[1] = s[1] /\ c[2] = s[2]
    BY <1>2, <2>1, <2>2
  <2>4. PICK b : b = SubSeq(s, 1, 2)
    OBVIOUS
  <2>5. b \in Seq(Units) /\ Len(b) = 2 /\ b[1] = s[1] /\ b[2] = s[2]
    BY <1>1, <1>7, <2>4
  <2>6. \A i \in 1..2 : i = 1 \/ i = 2
    OBVIOUS
  <2>7. b = c
    BY <2>3, <2>5, <2>6, SameUnits
  <2> QED
    BY <2>2, <2>4, <2>7
<1> QED
  BY <1>1, <1>3, <1>6, <1>7

\* The first unit of what is on the wire is the first of the stream.
LEMMA OffTheWire ==
  ASSUME NEW w \in Seq(Units), w # <<>>, NEW o \in Seq(Units)
  PROVE  /\ w \o o # <<>> /\ Head(w \o o) = Head(w) /\ Tail(w \o o) = Tail(w) \o o
         /\ Head(w) \in Units /\ Tail(w) \in Seq(Units) /\ w \o o \in Seq(Units)
<1>1. PICK L \in Nat \ {0} : L = Len(w)
  OBVIOUS
<1>2. PICK M \in Nat : M = Len(o)
  OBVIOUS
<1>3. PICK j : j = w \o o
  OBVIOUS
<1>4. j \in Seq(Units) /\ Len(j) = L + M
  BY <1>1, <1>2, <1>3
<1>5. (\A i \in 1..L : j[i] = w[i]) /\ (\A i \in 1..M : j[L + i] = o[i])
  BY <1>1, <1>2, <1>3
<1>6. PICK t : t = Tail(w)
  OBVIOUS
<1>7. t \in Seq(Units) /\ Len(t) = L - 1 /\ \A i \in 1..(L - 1) : t[i] = w[i + 1]
  BY <1>1, <1>6, Split
<1>8. PICK a : a = Tail(j)
  OBVIOUS
<1>8a. j # <<>>
  BY <1>1, <1>2, <1>4
<1>9. a \in Seq(Units) /\ Len(a) = (L + M) - 1 /\ \A i \in 1..((L + M) - 1) : a[i] = j[i + 1]
  BY <1>4, <1>8, <1>8a, Split
<1>10. PICK b : b = t \o o
  OBVIOUS
<1>11. b \in Seq(Units) /\ Len(b) = (L + M) - 1
  <2>1. b \in Seq(Units) /\ Len(b) = Len(t) + Len(o)
    BY <1>7, <1>10, Joined
  <2> QED
    BY <1>1, <1>2, <1>7, <2>1
<1>12. (\A i \in 1..(L - 1) : b[i] = t[i]) /\ (\A i \in 1..M : b[(L - 1) + i] = o[i])
  BY <1>2, <1>6, <1>7, <1>10
<1>13. ASSUME NEW i \in 1..((L + M) - 1) PROVE a[i] = b[i]
  <2>1. CASE i <= L - 1
    <3>1. i \in 1..(L - 1) /\ i + 1 \in 1..L
      BY <1>1, <1>2, <2>1
    <3> QED
      BY <1>5, <1>7, <1>9, <1>12, <3>1
  <2>2. CASE ~(i <= L - 1)
    <3>1. PICK k \in 1..M : i = (L - 1) + k /\ i + 1 = L + k
      <4>1. i - (L - 1) \in 1..M /\ i = (L - 1) + (i - (L - 1)) /\ i + 1 = L + (i - (L - 1))
        BY <1>1, <1>2, <2>2
      <4> QED
        BY <4>1
    <3>2. a[i] = j[i + 1]
      BY <1>9
    <3>3. j[i + 1] = o[k]
      BY <1>5, <3>1
    <3>4. b[i] = o[k]
      BY <1>12, <3>1
    <3> QED
      BY <3>2, <3>3, <3>4
  <2> QED
    BY <2>1, <2>2
<1>14. a = b
  <2>1. (L + M) - 1 \in Nat
    BY <1>1, <1>2
  <2> QED
    BY <1>9, <1>11, <1>13, <2>1, SameUnits
<1>15. j # <<>> /\ Head(j) = j[1] /\ j[1] = w[1] /\ Head(w) = w[1] /\ w[1] \in Units
  BY <1>1, <1>2, <1>4, <1>5
<1> QED
  BY <1>3, <1>4, <1>6, <1>8, <1>10, <1>14, <1>15

\* Streams of one unit and of two.
LEMMA OneAndTwo ==
  ASSUME NEW u \in Units, NEW v \in Units
  PROVE  /\ <<u>> \in Seq(Units) /\ Len(<<u>>) = 1 /\ <<u>> # <<>> /\ << >> \o <<u>> = <<u>>
         /\ <<u>> \o <<v>> = <<u, v>> /\ <<u, v>> \in Seq(Units) /\ Len(<<u, v>>) = 2
         /\ << >> \o <<u, v>> = <<u, v>>
<1>1. PICK a : a = <<u>>
  OBVIOUS
<1>2. PICK b : b = <<v>>
  OBVIOUS
<1>3. PICK c : c = <<u, v>>
  OBVIOUS
<1>4. a \in Seq(Units) /\ Len(a) = 1 /\ a[1] = u /\ a # <<>> /\ << >> \o a = a
  BY <1>1
<1>5. b \in Seq(Units) /\ Len(b) = 1 /\ b[1] = v
  BY <1>2
<1>6. c \in Seq(Units) /\ Len(c) = 2 /\ c[1] = u /\ c[2] = v
  BY <1>3
<1>7. << >> \o c = c
  BY <1>6
<1>8. PICK d : d = a \o b
  OBVIOUS
<1>9. d \in Seq(Units) /\ Len(d) = Len(a) + Len(b)
      /\ (\A i \in 1..Len(a) : d[i] = a[i]) /\ (\A i \in 1..Len(b) : d[Len(a) + i] = b[i])
  BY <1>4, <1>5, <1>8, Joined
<1>10. Len(d) = 2 /\ d[1] = u /\ d[2] = v
  BY <1>4, <1>5, <1>9
<1>11. \A i \in 1..2 : d[i] = c[i]
  <2>1. \A i \in 1..2 : i = 1 \/ i = 2
    OBVIOUS
  <2> QED
    BY <1>6, <1>10, <2>1
<1>12. d = c
  BY <1>6, <1>9, <1>10, <1>11, SameUnits
<1> QED
  BY <1>1, <1>2, <1>3, <1>4, <1>6, <1>7, <1>8, <1>12

\* One less is nothing.
LEMMA OneLeft ==
  ASSUME NEW n \in Nat, n - 1 = 0
  PROVE  n = 1
  OBVIOUS

\* One unit, or two, off the wire.
LEMMA TakenOff ==
  ASSUME NEW w \in Seq(Units), w # <<>>
  PROVE  /\ Taken(w, 1) = <<Head(w)>> /\ Rest(w, 1) = Tail(w)
         /\ Tail(w) = <<>> => Taken(w, 2) = <<Head(w)>>
         /\ Tail(w) # <<>> =>
              Taken(w, 2) = <<Head(w), Head(Tail(w))>> /\ Rest(w, 2) = Tail(Tail(w))
<1>1. PICK L \in Nat \ {0} : L = Len(w)
  OBVIOUS
<1>2. PICK t : t = Tail(w)
  OBVIOUS
<1>3. t \in Seq(Units) /\ Len(t) = L - 1 /\ (\A i \in 1..(L - 1) : t[i] = w[i + 1]) /\ Head(w) = w[1]
  BY <1>1, <1>2, Split
<1>4. SubSeq(w, 1, 1) = <<w[1]>>
  BY FirstUnits
<1>5. Taken(w, 1) = <<Head(w)>>
  BY <1>1, <1>3, <1>4 DEF Taken
<1>6. Rest(w, 1) = t
  <2>1. PICK b : b = SubSeq(w, 2, L)
    OBVIOUS
  <2>2. b \in Seq(Units) /\ Len(b) = L - 1 /\ \A i \in 1..(L - 1) : b[i] = w[i + 1]
    BY <1>1, <2>1
  <2>3. L - 1 \in Nat /\ \A i \in 1..(L - 1) : b[i] = t[i]
    BY <1>1, <1>3, <2>2
  <2>4. b = t
    BY <1>3, <2>2, <2>3, SameUnits
  <2> QED
    BY <1>1, <2>1, <2>4 DEF Rest
<1>7. t = <<>> => Taken(w, 2) = <<Head(w)>>
  <2> SUFFICES ASSUME t = <<>> PROVE Taken(w, 2) = <<Head(w)>>
    OBVIOUS
  <2>1. Len(t) = 0
    OBVIOUS
  <2>2. L = 1
    <3>1. L \in Nat /\ L - 1 = 0
      BY <1>3, <2>1
    <3> QED
      BY <3>1, OneLeft
  <2> QED
    BY <1>1, <1>3, <1>4, <2>2 DEF Taken
<1>8. ASSUME t # <<>> PROVE Taken(w, 2) = <<Head(w), Head(t)>> /\ Rest(w, 2) = Tail(t)
  <2>1. L >= 2
    BY <1>1, <1>3, <1>8
  <2>2. PICK a : a = Tail(t)
    OBVIOUS
  <2>3. a \in Seq(Units) /\ Len(a) = Len(t) - 1 /\ (\A i \in 1..(Len(t) - 1) : a[i] = t[i + 1]) /\ Head(t) = t[1]
    BY <1>3, <1>8, <2>2, Split
  <2>4. Len(t) - 1 = L - 2 /\ L - 2 \in Nat /\ t[1] = w[2]
    BY <1>1, <1>3, <2>1
  <2>5. SubSeq(w, 1, 2) = <<w[1], w[2]>>
    BY <1>1, <2>1, FirstUnits
  <2>6. Taken(w, 2) = SubSeq(w, 1, 2)
    BY <1>1, <2>1 DEF Taken
  <2>7. PICK b : b = SubSeq(w, 3, L)
    OBVIOUS
  <2>8. b \in Seq(Units) /\ Len(b) = L - 2 /\ \A i \in 1..(L - 2) : b[i] = w[i + 2]
    BY <1>1, <2>1, <2>7
  <2>9. \A i \in 1..(L - 2) : i + 1 \in 1..(L - 1) /\ (i + 1) + 1 = i + 2
    BY <1>1, <2>1
  <2>10. \A i \in 1..(L - 2) : a[i] = b[i]
    BY <1>3, <2>3, <2>4, <2>8, <2>9
  <2>11. a = b
    BY <2>3, <2>4, <2>8, <2>10, SameUnits
  <2>12. Rest(w, 2) = b
    BY <1>1, <2>7 DEF Rest
  <2> QED
    BY <1>3, <2>2, <2>3, <2>4, <2>5, <2>6, <2>11, <2>12
<1> QED
  BY <1>2, <1>5, <1>6, <1>7, <1>8

\* What `all` of a request, whole or not, makes of the stream.
ReadOutcome(done, stage, o, wanted, all, rest) ==
  /\ rest \in Seq(Units)
  /\ \/ /\ Len(all) = wanted /\ stage = "header"
        /\ all[1] \in Headers /\ InOrder(done, <<>>, all[1], rest \o o)
     \/ /\ Len(all) = wanted /\ stage \in {"h1", "h2"}
        /\ all \in Seq(Units) /\ InOrder(done \o all, <<>>, "header", rest \o o)
     \/ /\ Len(all) = wanted /\ stage = "hb"
        /\ InOrder(done, <<>>, "header", rest \o o)
     \/ Len(all) # wanted /\ InOrder(done, all, stage, rest \o o)

\* What read_cb has read, wherever it stopped, leaves the bytes in order.
LEMMA ReadInOrder ==
  ASSUME NEW done, NEW got, NEW stage \in Stages, NEW w \in Seq(Units), w # <<>>,
         NEW o \in Seq(Units), InOrder(done, got, stage, w \o o),
         NEW wanted, wanted = (IF stage = "h2" THEN 2 ELSE 1),
         NEW more, more = Taken(w, wanted - Len(got)),
         NEW all, all = got \o more, NEW rest, rest = Rest(w, Len(more))
  PROVE  ReadOutcome(done, stage, o, wanted, all, rest)
<1> USE DEF ReadOutcome
<1>1. PICK u \in Units : u = Head(w)
  BY Split
<1>2. PICK t \in Seq(Units) : t = Tail(w)
  BY Split
<1>3. w \o o # <<>> /\ Head(w \o o) = u /\ Tail(w \o o) = t \o o
  BY <1>1, <1>2, OffTheWire
<1>4. /\ Taken(w, 1) = <<u>> /\ Rest(w, 1) = t
      /\ t = <<>> => Taken(w, 2) = <<u>>
      /\ t # <<>> => Taken(w, 2) = <<u, Head(t)>> /\ Rest(w, 2) = Tail(t)
  BY <1>1, <1>2, TakenOff
<1>5. Len(<<>>) = 0 /\ Len(<<u>>) = 1 /\ <<u>>[1] = u /\ <<>> \o <<u>> = <<u>> /\ <<u>> \in Seq(Units)
  BY <1>1
<1>6. CASE stage = "header"
  <2>1. got = <<>> /\ u \in Headers /\ InOrder(done, <<>>, u, t \o o)
    BY <1>3, <1>6, HeaderRead
  <2>2. wanted - Len(got) = 1
    BY <1>5, <1>6, <2>1
  <2>3. more = <<u>> /\ all = <<u>> /\ rest = t
    BY <1>4, <1>5, <2>1, <2>2
  <2> QED
    BY <1>5, <1>6, <2>1, <2>3
<1>7. CASE stage = "hb"
  <2>1. got = <<>> /\ InOrder(done, <<>>, "header", t \o o)
    BY <1>3, <1>7, NoticeRead
  <2>2. wanted - Len(got) = 1
    BY <1>5, <1>7, <2>1
  <2>3. more = <<u>> /\ all = <<u>> /\ rest = t
    BY <1>4, <1>5, <2>1, <2>2
  <2> QED
    BY <1>5, <1>7, <2>1, <2>3
<1>8. CASE stage = "h1"
  <2>1. got = <<>>
    <3>1. got # <<>> => stage \in {"h2"} \cup Dead
      BY InHand
    <3>2. stage \notin {"h2"} \cup Dead
      BY <1>8 DEF Dead
    <3> QED
      BY <3>1, <3>2
  <2>2. InOrder(done \o (got \o <<u>>), <<>>, "header", t \o o)
    BY <1>3, <1>8, ByteRead
  <2>3. wanted - Len(got) = 1
    BY <1>5, <1>8, <2>1
  <2>4. more = <<u>> /\ all = <<u>> /\ rest = t
    BY <1>4, <1>5, <2>1, <2>3
  <2>5. got \o <<u>> = all
    BY <1>5, <2>1, <2>4
  <2>6. InOrder(done \o all, <<>>, "header", rest \o o)
    BY <2>2, <2>4, <2>5
  <2>7. all \in Seq(Units) /\ Len(all) = wanted /\ rest \in Seq(Units)
    <3>1. wanted = 1
      BY <1>8
    <3>2. all \in Seq(Units) /\ Len(all) = 1
      BY <1>5, <2>4
    <3> QED
      BY <1>2, <2>4, <3>1, <3>2
  <2> QED
    BY <1>8, <2>6, <2>7
<1>9. CASE stage = "h2" /\ got # <<>>
  <2>1. Len(got) = 1 /\ got \in Seq(Units)
    BY <1>9, InHand
  <2>2. InOrder(done \o (got \o <<u>>), <<>>, "header", t \o o)
    BY <1>3, <1>9, ByteRead
  <2>3. wanted - Len(got) = 1
    BY <1>9, <2>1
  <2>4. more = <<u>> /\ all = got \o <<u>> /\ rest = t
    BY <1>4, <1>5, <2>3
  <2>5. all \in Seq(Units) /\ Len(all) = 2
    BY <1>1, <2>1, <2>4, Longer
  <2> QED
    BY <1>2, <1>9, <2>2, <2>4, <2>5
<1>10. CASE stage = "h2" /\ got = <<>>
  <2>1. InOrder(done, <<u>>, "h2", t \o o)
    BY <1>3, <1>10, ByteRead
  <2>2. wanted = 2 /\ wanted - Len(got) = 2
    BY <1>5, <1>10
  <2>3. CASE t = <<>>
    <3>1. more = <<u>> /\ all = <<u>> /\ rest = t
      BY <1>4, <1>5, <1>10, <2>2, <2>3
    <3>2. Len(all) # wanted /\ rest \in Seq(Units)
      <4>1. Len(all) = 1
        BY <1>5, <3>1
      <4>2. Len(all) # 2
        BY <4>1
      <4>3. wanted = 2
        BY <2>2
      <4>4. rest \in Seq(Units)
        BY <1>2, <3>1
      <4> QED
        BY <4>2, <4>3, <4>4
    <3>3. InOrder(done, all, stage, rest \o o)
      BY <1>10, <2>1, <3>1
    <3> QED
      BY <3>2, <3>3
  <2>4. CASE t # <<>>
    <3>1. PICK v \in Units : v = Head(t)
      BY <2>4, Split
    <3>2. PICK z \in Seq(Units) : z = Tail(t)
      BY <2>4, Split
    <3>3. t \o o # <<>> /\ Head(t \o o) = v /\ Tail(t \o o) = z \o o
      BY <2>4, <3>1, <3>2, OffTheWire
    <3>4. <<u>> # <<>>
      BY <1>5
    <3>5. InOrder(done \o (<<u>> \o <<v>>), <<>>, "header", z \o o)
      BY <2>1, <3>3, <3>4, ByteRead
    <3>6. <<u>> \o <<v>> = <<u, v>> /\ <<u, v>> \in Seq(Units) /\ Len(<<u, v>>) = 2 /\ <<>> \o <<u, v>> = <<u, v>>
      BY OneAndTwo
    <3>7. more = <<u, v>>
      BY <1>4, <2>2, <2>4, <3>1
    <3>8. all = <<u, v>> /\ rest = z
      BY <1>4, <1>10, <2>4, <3>2, <3>6, <3>7
    <3>9. InOrder(done \o all, <<>>, "header", rest \o o)
      BY <3>5, <3>6, <3>8
    <3>10. all \in Seq(Units) /\ Len(all) = wanted /\ rest \in Seq(Units)
      BY <2>2, <3>2, <3>6, <3>8
    <3> QED
      BY <1>10, <3>9, <3>10
  <2> QED
    BY <2>3, <2>4
<1> QED
  BY <1>6, <1>7, <1>8, <1>9, <1>10 DEF Stages, Headers

\* What read_cb reads of the stream keeps it in order.
LEMMA ReadSomeInOrder ==
  ASSUME StreamInv, Shapes, ReadSome, session = "live", lib.plain = <<>>
  PROVE  /\ StreamTypes' /\ lib'.stage \notin Dead
         /\ InOrder(delivered' \o lib'.plain, lib'.got, lib'.stage, wire' \o outgoing')
<1>1. /\ at = "SSLRead" /\ wire # <<>> /\ UNCHANGED <<delivered, outgoing>>
      /\ StreamTypes /\ lib.stage \notin Dead
      /\ InOrder(delivered \o lib.plain, lib.got, lib.stage, wire \o outgoing)
  BY DEF ReadSome, StreamInv, Secure, progVars
<1>2. delivered \o <<>> = delivered
  BY <1>1 DEF StreamTypes
<1>3. InOrder(delivered, lib.got, lib.stage, wire \o outgoing)
  BY <1>1, <1>2
<1>4. PICK more : more = Taken(wire, Wanted - Len(lib.got))
  OBVIOUS
<1>5. PICK all : all = lib.got \o more
  OBVIOUS
<1>6. PICK rest : rest = Rest(wire, Len(more))
  OBVIOUS
<1>7. PICK wanted : wanted = Wanted
  OBVIOUS
<1>8. ReadOutcome(delivered, lib.stage, outgoing, wanted, all, rest)
  <2>1. lib.stage \in Stages
    BY <1>1, <1>3 DEF InOrder
  <2>2. wanted = IF lib.stage = "h2" THEN 2 ELSE 1
    BY <1>7 DEF Wanted
  <2>3. more = Taken(wire, wanted - Len(lib.got))
    BY <1>4, <1>7
  <2>4. wire \in Seq(Units) /\ outgoing \in Seq(Units)
    BY <1>1 DEF StreamTypes
  <2> QED
    BY <1>1, <1>3, <1>5, <1>6, <2>1, <2>2, <2>3, <2>4, ReadInOrder, Zenon
<1>9. /\ wire' = rest
      /\ \/ /\ Len(all) = wanted /\ lib.stage = "header"
            /\ lib' = [lib EXCEPT !.stage = all[1], !.got = <<>>, !.held = 0]
         \/ /\ Len(all) = wanted /\ lib.stage \in {"h1", "h2"}
            /\ lib' = [NoRecord EXCEPT !.plain = all]
         \/ Len(all) = wanted /\ lib.stage = "hb" /\ lib' = NoRecord
         \/ Len(all) # wanted /\ lib' = [lib EXCEPT !.got = all]
  BY <1>4, <1>5, <1>6, <1>7, Zenon DEF ReadSome
<1>10. delivered' = delivered /\ delivered \in Seq(Units) /\ outgoing' = outgoing /\ outgoing \in Seq(Units)
  BY <1>1 DEF StreamTypes
<1>11. <<>> \in Seq(Units)
  OBVIOUS
<1>12. CASE /\ Len(all) = wanted /\ lib.stage = "header"
            /\ lib' = [lib EXCEPT !.stage = all[1], !.got = <<>>, !.held = 0]
  <2>1. lib'.stage = all[1] /\ lib'.got = <<>> /\ lib'.plain = <<>>
    BY <1>12 DEF Shapes
  <2>2. all[1] \in Headers /\ InOrder(delivered, <<>>, all[1], rest \o outgoing)
    BY <1>8, <1>12 DEF ReadOutcome
  <2>3. lib'.stage \notin Dead
    BY <2>1, <2>2 DEF Headers, Dead
  <2>4. InOrder(delivered' \o lib'.plain, lib'.got, lib'.stage, wire' \o outgoing')
    BY <1>2, <1>9, <1>10, <2>1, <2>2
  <2> QED
    BY <1>8, <1>9, <1>10, <1>11, <2>1, <2>3, <2>4 DEF StreamTypes, ReadOutcome
<1>13. CASE Len(all) = wanted /\ lib.stage \in {"h1", "h2"} /\ lib' = [NoRecord EXCEPT !.plain = all]
  <2>1. lib'.stage = "header" /\ lib'.got = <<>> /\ lib'.plain = all
    BY <1>13 DEF NoRecord
  <2>2. all \in Seq(Units) /\ InOrder(delivered \o all, <<>>, "header", rest \o outgoing)
    BY <1>8, <1>13 DEF ReadOutcome
  <2>3. InOrder(delivered' \o lib'.plain, lib'.got, lib'.stage, wire' \o outgoing')
    BY <1>9, <1>10, <2>1, <2>2
  <2> QED
    BY <1>8, <1>9, <1>10, <2>1, <2>2, <2>3 DEF StreamTypes, ReadOutcome, Dead
<1>14. CASE Len(all) = wanted /\ lib.stage = "hb" /\ lib' = NoRecord
  <2>1. lib'.stage = "header" /\ lib'.got = <<>> /\ lib'.plain = <<>>
    BY <1>14 DEF NoRecord
  <2>2. InOrder(delivered, <<>>, "header", rest \o outgoing)
    BY <1>8, <1>14 DEF ReadOutcome
  <2>3. InOrder(delivered' \o lib'.plain, lib'.got, lib'.stage, wire' \o outgoing')
    BY <1>2, <1>9, <1>10, <2>1, <2>2
  <2> QED
    BY <1>8, <1>9, <1>10, <1>11, <2>1, <2>3 DEF StreamTypes, ReadOutcome, Dead
<1>15. CASE Len(all) # wanted /\ lib' = [lib EXCEPT !.got = all]
  <2>1. lib'.stage = lib.stage /\ lib'.got = all /\ lib'.plain = <<>>
    BY <1>15 DEF Shapes
  <2>2. InOrder(delivered, all, lib.stage, rest \o outgoing)
    BY <1>8, <1>15 DEF ReadOutcome
  <2>3. InOrder(delivered' \o lib'.plain, lib'.got, lib'.stage, wire' \o outgoing')
    BY <1>2, <1>9, <1>10, <2>1, <2>2
  <2> QED
    BY <1>1, <1>8, <1>9, <1>10, <1>11, <2>1, <2>3 DEF StreamTypes, ReadOutcome
<1> QED
  BY <1>9, <1>12, <1>13, <1>14, <1>15

\* Three streams in a row.
LEMMA Regrouped ==
  ASSUME NEW a \in Seq(Units), NEW b \in Seq(Units), NEW c \in Seq(Units)
  PROVE  (a \o b) \o c = a \o (b \o c)
<1>1. PICK l \in Nat : l = Len(a)
  OBVIOUS
<1>2. PICK m \in Nat : m = Len(b)
  OBVIOUS
<1>3. PICK n \in Nat : n = Len(c)
  OBVIOUS
<1>4. PICK ab : ab = a \o b
  OBVIOUS
<1>5. PICK bc : bc = b \o c
  OBVIOUS
<1>6. /\ ab \in Seq(Units) /\ Len(ab) = l + m
      /\ (\A i \in 1..l : ab[i] = a[i]) /\ (\A i \in 1..m : ab[l + i] = b[i])
  BY <1>1, <1>2, <1>4, Joined
<1>7. /\ bc \in Seq(Units) /\ Len(bc) = m + n
      /\ (\A i \in 1..m : bc[i] = b[i]) /\ (\A i \in 1..n : bc[m + i] = c[i])
  BY <1>2, <1>3, <1>5, Joined
<1>8. PICK x : x = ab \o c
  OBVIOUS
<1>9. PICK y : y = a \o bc
  OBVIOUS
<1>10. /\ x \in Seq(Units) /\ Len(x) = (l + m) + n
       /\ (\A i \in 1..(l + m) : x[i] = ab[i]) /\ (\A i \in 1..n : x[(l + m) + i] = c[i])
  <2>1. /\ x \in Seq(Units) /\ Len(x) = Len(ab) + Len(c)
        /\ (\A i \in 1..Len(ab) : x[i] = ab[i]) /\ (\A i \in 1..Len(c) : x[Len(ab) + i] = c[i])
    <3>1. Joins(x, ab, c)
      BY <1>6, <1>8, JoinIs, Zenon
    <3> QED
      BY <3>1 DEF Joins
  <2> QED
    BY <1>3, <1>6, <2>1
<1>11. /\ y \in Seq(Units) /\ Len(y) = l + (m + n)
       /\ (\A i \in 1..l : y[i] = a[i]) /\ (\A i \in 1..(m + n) : y[l + i] = bc[i])
  <2>1. /\ y \in Seq(Units) /\ Len(y) = Len(a) + Len(bc)
        /\ (\A i \in 1..Len(a) : y[i] = a[i]) /\ (\A i \in 1..Len(bc) : y[Len(a) + i] = bc[i])
    <3>1. Joins(y, a, bc)
      BY <1>7, <1>9, JoinIs, Zenon
    <3> QED
      BY <3>1 DEF Joins
  <2> QED
    BY <1>1, <1>7, <2>1
<1>12. ASSUME NEW i \in 1..(l + (m + n)) PROVE x[i] = y[i]
  <2>1. CASE i <= l
    <3>1. i \in 1..l /\ i \in 1..(l + m)
      BY <1>1, <1>2, <1>3, <2>1
    <3> QED
      BY <1>6, <1>10, <1>11, <3>1
  <2>2. CASE l < i /\ i <= l + m
    <3>1. PICK k \in 1..m : i = l + k
      <4>1. i - l \in 1..m /\ i = l + (i - l)
        BY <1>1, <1>2, <1>3, <2>2
      <4> QED
        BY <4>1
    <3>2. k \in 1..(m + n) /\ i \in 1..(l + m)
      BY <1>1, <1>2, <1>3, <2>2, <3>1
    <3>3. x[i] = b[k]
      BY <1>6, <1>10, <3>1, <3>2
    <3>4. y[i] = b[k]
      BY <1>7, <1>11, <3>1, <3>2
    <3> QED
      BY <3>3, <3>4
  <2>3. CASE l + m < i
    <3>1. PICK k \in 1..n : i = (l + m) + k /\ i = l + (m + k)
      <4>1. i - (l + m) \in 1..n /\ i = (l + m) + (i - (l + m)) /\ i = l + (m + (i - (l + m)))
        BY <1>1, <1>2, <1>3, <2>3
      <4> QED
        BY <4>1
    <3>2. m + k \in 1..(m + n)
      BY <1>2, <1>3, <3>1
    <3>3. x[i] = c[k]
      BY <1>10, <3>1
    <3>4. y[i] = c[k]
      BY <1>7, <1>11, <3>1, <3>2
    <3> QED
      BY <3>3, <3>4
  <2> QED
    BY <1>1, <1>2, <1>3, <2>1, <2>2, <2>3
<1>13. l + (m + n) \in Nat /\ (l + m) + n = l + (m + n)
  BY <1>1, <1>2, <1>3
<1>14. x = y
  <2>1. PICK N \in Nat : N = l + (m + n)
    BY <1>13
  <2>2. Len(x) = N /\ Len(y) = N /\ x \in Seq(Units) /\ y \in Seq(Units)
    BY <1>10, <1>11, <1>13, <2>1
  <2>3. \A i \in 1..N : x[i] = y[i]
    BY <1>12, <2>1
  <2> QED
    BY <2>2, <2>3, SameUnits
<1> QED
  BY <1>4, <1>5, <1>8, <1>9, <1>14

Assoc(a, b, c) == (a \o b) \o c = a \o (b \o c)

\* The same, in one word.
LEMMA Associates ==
  ASSUME NEW a \in Seq(Units), NEW b \in Seq(Units), NEW c \in Seq(Units)
  PROVE  Assoc(a, b, c)
  BY Regrouped DEF Assoc

\* The bytes a read returns stay where they are in the stream.
LEMMA ReturnedInOrder ==
  ASSUME StreamInv, Shapes, ReturnData, session = "live"
  PROVE  /\ delivered' \in Seq(Units) /\ lib'.plain \in Seq(Units)
         /\ delivered' \o lib'.plain = delivered \o lib.plain
         /\ lib'.got = lib.got /\ lib'.stage = lib.stage
<1>1. PICK p : p = lib.plain
  OBVIOUS
<1>2. p \in Seq(Units) /\ delivered \in Seq(Units) /\ max \in Nat
  BY <1>1 DEF StreamInv, StreamTypes, Secure
<1>3. PICK a : a = Taken(p, max)
  OBVIOUS
<1>4. PICK b : b = Rest(p, max)
  OBVIOUS
<1>5. a \in Seq(Units) /\ b \in Seq(Units) /\ a \o b = p
  BY <1>2, <1>3, <1>4, TakenAndRest
<1>6. delivered' = delivered \o a /\ lib' = [lib EXCEPT !.plain = b]
  BY <1>1, <1>3, <1>4 DEF ReturnData
<1>7. lib'.plain = b /\ lib'.got = lib.got /\ lib'.stage = lib.stage
  BY <1>6 DEF Shapes
<1>8. delivered \o a \in Seq(Units) /\ (delivered \o a) \o b = delivered \o (a \o b)
  <2>1. PICK d : d = delivered
    OBVIOUS
  <2>2. d \in Seq(Units) /\ a \in Seq(Units) /\ b \in Seq(Units)
    BY <1>2, <1>5, <2>1
  <2>3. Assoc(d, a, b)
    BY <2>2, Associates, Zenon
  <2>4. d \o a \in Seq(Units)
    BY <2>2, Joined
  <2> QED
    BY <2>1, <2>3, <2>4 DEF Assoc
<1> QED
  BY <1>1, <1>5, <1>6, <1>7, <1>8

\* A unit that the peer sends moves from what is to come to the wire.
LEMMA SentInOrder ==
  ASSUME NEW w \in Seq(Units), NEW o \in Seq(Units), o # <<>>
  PROVE  /\ Append(w, Head(o)) \in Seq(Units) /\ Tail(o) \in Seq(Units)
         /\ Append(w, Head(o)) \o Tail(o) = w \o o
<1>1. PICK h \in Units : h = Head(o)
  BY Split
<1>2. PICK t \in Seq(Units) : t = Tail(o)
  BY Split
<1>3. <<h>> \in Seq(Units) /\ Append(w, h) = w \o <<h>> /\ w \o <<h>> \in Seq(Units)
  BY <1>1
<1>4. <<h>> \o t = o
  <2>1. PICK L \in Nat \ {0} : L = Len(o)
    BY Split
  <2>2. t \in Seq(Units) /\ Len(t) = L - 1 /\ (\A i \in 1..(L - 1) : t[i] = o[i + 1]) /\ h = o[1]
    BY <1>1, <1>2, <2>1, Split
  <2>3. PICK s : s = <<h>>
    OBVIOUS
  <2>4. s \in Seq(Units) /\ Len(s) = 1 /\ s[1] = h
    BY <1>1, <2>3
  <2>5. PICK j : j = s \o t
    OBVIOUS
  <2>6. /\ j \in Seq(Units) /\ Len(j) = Len(s) + Len(t)
        /\ (\A i \in 1..Len(s) : j[i] = s[i]) /\ (\A i \in 1..Len(t) : j[Len(s) + i] = t[i])
    <3>1. Joins(j, s, t)
      BY <2>2, <2>4, <2>5, JoinIs, Zenon
    <3> QED
      BY <3>1 DEF Joins
  <2>7. Len(j) = L
    BY <2>2, <2>4, <2>6
  <2>8. ASSUME NEW i \in 1..L PROVE j[i] = o[i]
    <3>1. CASE i = 1
      BY <2>2, <2>4, <2>6, <3>1
    <3>2. CASE i # 1
      <4>1. i - 1 \in 1..(L - 1) /\ 1 + (i - 1) = i /\ (i - 1) + 1 = i
        BY <3>2
      <4>2. \A k \in 1..(L - 1) : j[1 + k] = t[k]
        BY <2>2, <2>4, <2>6
      <4>3. j[1 + (i - 1)] = t[i - 1] /\ t[i - 1] = o[(i - 1) + 1]
        BY <2>2, <4>1, <4>2
      <4> QED
        BY <4>1, <4>3
    <3> QED
      BY <3>1, <3>2
  <2>9. L \in Nat
    OBVIOUS
  <2>10. j = o
    BY <2>1, <2>6, <2>7, <2>8, <2>9, SameUnits
  <2> QED
    BY <2>3, <2>5, <2>10
<1>5. (w \o <<h>>) \o t = w \o (<<h>> \o t)
  BY <1>3, Regrouped
<1> QED
  BY <1>1, <1>2, <1>3, <1>4, <1>5

\* The initial state.
LEMMA StreamInit == NetInit => StreamInv
  BY DEF NetInit, StreamInv, Secure, NoFd, Idle

\* Every step keeps the stream in order.
LEMMA StreamStep == StreamInv /\ ErrInv /\ Shapes /\ FdInv /\ [NetNext]_netVars => StreamInv'
<1> SUFFICES ASSUME StreamInv, ErrInv, Shapes, FdInv, [NetNext]_netVars PROVE StreamInv'
  OBVIOUS
<1>0. /\ session # "none" => at \in {Idle, "SSLRead", "return"} /\ fd \in owned
      /\ at \in {"SSLRead", "return"} => session = "live"
      /\ at \in {"try", "opened"} => fd = NoFd
      /\ at = "SSLRead" => lib.plain = <<>>
      /\ NoFd \notin owned
  BY NetConstants DEF FdInv, FdsAccounted, ErrInv, NoFd
<1> USE <1>0 DEF Idle, callVars, fdVars, errVars, tlsVars, peerVars, progVars
<1>1. ASSUME NEW what \in {"connect", "tls", "listen"}, resolve(what) PROVE StreamInv'
  BY <1>1, StreamKept DEF resolve, Throw, Secure
<1>2. CASE new_socket \/ AddressFails \/ NoAddressLeft \/ accept \/ port
  BY <1>2, StreamKept DEF new_socket, AddressFails, NoAddressLeft, accept, port, Throw, Secure
<1>3. CASE AddressAnswers
  <2>1. max' \in Nat /\ at' # "SSLRead" /\ session' = "none"
    BY <1>3 DEF AddressAnswers, StreamInv
  <2>2. /\ wire = <<>> /\ delivered = <<>> /\ lib = NoRecord
        /\ UNCHANGED <<wire, delivered, lib>>
    BY <1>3 DEF AddressAnswers, StreamInv
  <2>3. CASE at' = Idle
    BY <2>1, <2>2, <2>3 DEF StreamInv, Secure
  <2>4. CASE at' = "arm" /\ outgoing' \in Streams
    <3>1. outgoing' \in Seq(Units) /\ InOrder(<<>> \o <<>>, <<>>, "header", <<>> \o outgoing')
      BY <2>4, StreamNew
    <3>2. lib'.plain = <<>> /\ lib'.got = <<>> /\ lib'.stage = "header"
      BY <2>2 DEF NoRecord
    <3>3. InOrder(delivered' \o lib'.plain, lib'.got, lib'.stage, wire' \o outgoing')
      BY <2>2, <3>1, <3>2
    <3>4. StreamTypes'
      <4>1. <<>> \in Seq(Units)
        OBVIOUS
      <4> QED
        BY <2>2, <3>1, <3>2, <4>1 DEF StreamTypes
    <3> QED
      BY <2>1, <2>2, <3>3, <3>4 DEF StreamInv
  <2> QED
    BY <1>3, <2>3, <2>4 DEF AddressAnswers
<1>4. CASE SetTimeout
  <2>1. CASE Disconnect /\ at' = Idle
    BY <2>1, StreamGone
  <2>2. CASE at' = "open" /\ UNCHANGED <<fd, lib, max, peerVars, progVars>>
    BY <1>4, <2>2, StreamKept DEF SetTimeout, Secure
  <2> QED
    BY <1>4, <2>1, <2>2 DEF SetTimeout, Throw
<1>5. CASE OpenSession
  <2>1. lib = NoRecord /\ lib' = NoRecord
    BY <1>5 DEF OpenSession, StreamInv
  <2> QED
    BY <1>5, <2>1, StreamKept DEF OpenSession, Secure
<1>6. CASE ServerAuthCompleted
  BY <1>6, StreamKept DEF ServerAuthCompleted, check_trust, Secure
<1>7. ASSUME NEW status, HandshakeFails(status) PROVE StreamInv'
  BY <1>7, StreamKept DEF HandshakeFails, Secure
<1>8. CASE HandshakeDone
  <2>1. CASE Disconnect /\ at' = Idle
    BY <2>1, StreamGone
  <2>2. CASE at' = Idle /\ UNCHANGED <<fd, lib, max, peerVars, progVars>>
    BY <1>8, <2>2, StreamKept DEF HandshakeDone, Secure
  <2> QED
    BY <1>8, <2>1, <2>2 DEF HandshakeDone, Throw
<1>9. CASE OpenFailed
  BY <1>9, StreamGone DEF OpenFailed, Throw
<1>10. CASE set_timeout \/ tls_write \/ fd_write
  BY <1>10, StreamKept DEF set_timeout, tls_write, fd_write, Throw, Secure
<1>11. ASSUME NEW m \in Maxes, tls_read(m) PROVE StreamInv'
  <2>1. max' \in Nat
    BY <1>11, NetConstants DEF tls_read, StreamInv
  <2>2. /\ UNCHANGED <<fd, delivered, lib, wire, outgoing, session>>
        /\ at' \in {Idle, "SSLRead", "return"} /\ at = Idle
        /\ at' = "SSLRead" => lib.stage \notin Dead
    BY <1>11 DEF tls_read, Throw
  <2>3. Secure' => Secure
    BY <2>2 DEF Secure
  <2> QED
    BY <2>1, <2>2, <2>3 DEF StreamInv, StreamTypes
<1>12. CASE ReadSome
  <2>1. at = "SSLRead" /\ UNCHANGED <<fd, session, max>> /\ at' \in {"SSLRead", "return"}
    BY <1>12, ReadSomeEffect DEF ReadSome
  <2>2. /\ StreamTypes' /\ lib'.stage \notin Dead
        /\ InOrder(delivered' \o lib'.plain, lib'.got, lib'.stage, wire' \o outgoing')
    BY <1>12, <2>1, ReadSomeInOrder
  <2>3. fd' # NoFd /\ max' \in Nat
    BY <2>1 DEF StreamInv
  <2> QED
    BY <2>1, <2>2, <2>3 DEF StreamInv
<1>13. ASSUME lib'.plain = lib.plain, lib'.got = lib.got, lib'.stage \in {lib.stage} \cup Dead,
              at = "SSLRead", at' = "return",
              UNCHANGED <<fd, session, max, delivered, wire, outgoing>>
       PROVE  StreamInv'
  <2>1. /\ StreamTypes /\ max \in Nat /\ fd # NoFd
        /\ InOrder(delivered \o lib.plain, lib.got, lib.stage, wire \o outgoing)
    BY <1>13 DEF StreamInv, Secure
  <2>2. \A dead \in Dead : InOrder(delivered \o lib.plain, lib.got, dead, wire \o outgoing)
    BY <2>1, GivesUp
  <2>3. InOrder(delivered' \o lib'.plain, lib'.got, lib'.stage, wire' \o outgoing')
    BY <1>13, <2>1, <2>2
  <2>4. StreamTypes'
    BY <1>13, <2>1 DEF StreamTypes
  <2> QED
    BY <1>13, <2>1, <2>3, <2>4 DEF StreamInv
<1>14. CASE ReadEof
  <2>1. lib'.plain = lib.plain /\ lib'.got = lib.got /\ lib'.stage \in Dead
    BY <1>14 DEF ReadEof, Shapes, Dead
  <2> QED
    BY <1>13, <1>14, <2>1 DEF ReadEof
<1>15. ASSUME NEW status, ReadStops(status) PROVE StreamInv'
  <2>1. lib'.plain = lib.plain /\ lib'.got = lib.got /\ lib'.stage \in {lib.stage} \cup Dead
    BY <1>15 DEF ReadStops, Shapes, Dead
  <2> QED
    BY <1>13, <1>15, <2>1 DEF ReadStops
<1>16. CASE ReadReturns
  <2>1. /\ at = "return" /\ session = "live" /\ max' = 0 /\ UNCHANGED <<fd, wire, outgoing>>
        /\ ReturnData \/ ReturnEnd \/ ReturnError
    BY <1>16 DEF ReadReturns
  <2>2. /\ StreamTypes /\ fd # NoFd
        /\ InOrder(delivered \o lib.plain, lib.got, lib.stage, wire \o outgoing)
    BY <2>1 DEF StreamInv, Secure
  <2>3. at' = Idle
    BY <2>1 DEF ReturnData, ReturnEnd, ReturnError, Throw
  <2>4. CASE ReturnData
    <3>1. /\ delivered' \in Seq(Units) /\ lib'.plain \in Seq(Units)
          /\ delivered' \o lib'.plain = delivered \o lib.plain
          /\ lib'.got = lib.got /\ lib'.stage = lib.stage
      BY <2>1, <2>4, ReturnedInOrder
    <3>2. InOrder(delivered' \o lib'.plain, lib'.got, lib'.stage, wire' \o outgoing')
      BY <2>1, <2>2, <3>1
    <3>3. StreamTypes'
      BY <2>1, <2>2, <3>1 DEF StreamTypes
    <3> QED
      BY <2>1, <2>2, <2>3, <3>2, <3>3 DEF StreamInv
  <2>5. CASE ReturnEnd \/ ReturnError
    <3>1. UNCHANGED <<delivered, lib>>
      BY <2>5 DEF ReturnEnd, ReturnError
    <3> QED
      BY <2>1, <2>2, <2>3, <3>1 DEF StreamInv, StreamTypes
  <2> QED
    BY <2>1, <2>4, <2>5
<1>17. ASSUME NEW m, fd_read(m) PROVE StreamInv'
  <2>1. /\ at' = Idle /\ session' = "none" /\ fd' # NoFd /\ UNCHANGED max
    BY <1>17 DEF fd_read, Throw
  <2> QED
    BY <2>1 DEF StreamInv, Secure
<1>18. ASSUME NEW d \in owned, Close(d) PROVE StreamInv'
  <2>1. CASE d = fd
    BY <1>18, <2>1, StreamGone DEF Close, Throw
  <2>2. CASE d # fd
    BY <1>18, <2>2, StreamKept DEF Close, Throw, Secure
  <2> QED
    BY <2>1, <2>2
<1>19. CASE PeerCloses
  BY <1>19, StreamKept DEF PeerCloses, Secure
<1>20. CASE PeerSends
  <2>1. /\ fd # NoFd /\ outgoing # <<>> /\ wire' = Append(wire, Head(outgoing)) /\ outgoing' = Tail(outgoing)
        /\ UNCHANGED <<at, fd, session, max, lib, delivered>>
    BY <1>20 DEF PeerSends, Connected
  <2>2. CASE Secure
    <3>1. /\ StreamTypes
          /\ InOrder(delivered \o lib.plain, lib.got, lib.stage, wire \o outgoing)
      BY <2>2 DEF StreamInv
    <3>2. wire' \in Seq(Units) /\ outgoing' \in Seq(Units) /\ wire' \o outgoing' = wire \o outgoing
      BY <2>1, <3>1, SentInOrder DEF StreamTypes
    <3>3. InOrder(delivered' \o lib'.plain, lib'.got, lib'.stage, wire' \o outgoing')
      BY <2>1, <3>1, <3>2
    <3>4. StreamTypes'
      BY <2>1, <3>1, <3>2 DEF StreamTypes
    <3> QED
      BY <2>1, <3>3, <3>4 DEF StreamInv
  <2>3. CASE ~Secure
    BY <2>1, <2>3 DEF StreamInv, Secure
  <2> QED
    BY <2>2, <2>3
<1>21. CASE UNCHANGED netVars
  BY <1>21, StreamKept DEF netVars, Secure
<1> QED
  BY <1>1, <1>2, <1>3, <1>4, <1>5, <1>6, <1>7, <1>8, <1>9, <1>10, <1>11, <1>12,
     <1>14, <1>15, <1>16, <1>17, <1>18, <1>19, <1>20, <1>21 DEF NetNext, NetProgress

\* The invariant behind the theorem.
LEMMA StreamAlways == NetSpec => []StreamInv
  BY FdAlways, ShapeAlways, ErrAlways, StreamInit, StreamStep, PTL DEF NetSpec

-----------------------------------------------------------------------------
(* The data bytes of a part of the stream.                                   *)

\* x, and the unit u if it is a data byte.
Keep(x, u) == IF IsByte(u) THEN Append(x, u) ELSE x

\* The data bytes of the first 0 to m units.
Keeps(f, s, m) == f = [i \in 0..m |-> IF i = 0 THEN <<>> ELSE Keep(f[i - 1], s[i])]

\* There are such sequences.
LEMMA KeepsExist ==
  ASSUME NEW s, NEW n \in Nat
  PROVE  \E f : Keeps(f, s, n)
<1> DEFINE Bad == {m \in Nat : ~ \E f : Keeps(f, s, m)}
<1>1. SUFFICES ASSUME Bad # {} PROVE FALSE
  OBVIOUS
<1>2. PICK m \in Bad : \A k \in Bad : m <= k
  <2>1. Bad \subseteq Nat
    OBVIOUS
  <2> HIDE DEF Bad
  <2> QED
    BY <1>1, <2>1, LeastMember
<1>3. m # 0
  <2>1. PICK g : g = [i \in 0..0 |-> <<>>]
    OBVIOUS
  <2>2. \A i \in 0..0 : i = 0
    OBVIOUS
  <2>3. Keeps(g, s, 0)
    BY <2>1, <2>2 DEF Keeps
  <2> QED
    BY <2>3
<1>4. m \in Nat /\ m - 1 \in Nat /\ ~(m <= m - 1)
  BY <1>3
<1>5. m - 1 \notin Bad
  <2> HIDE DEF Bad
  <2> QED
    BY <1>2, <1>4
<1>6. PICK g : Keeps(g, s, m - 1)
  BY <1>4, <1>5
<1>7. PICK h : h = [i \in 0..m |-> IF i = m THEN Keep(g[m - 1], s[m]) ELSE g[i]]
  OBVIOUS
<1>8. ASSUME NEW i \in 0..m PROVE h[i] = IF i = 0 THEN <<>> ELSE Keep(h[i - 1], s[i])
  <2>1. CASE i = m
    <3>1. h[m] = Keep(g[m - 1], s[m]) /\ h[m - 1] = g[m - 1]
      BY <1>4, <1>7
    <3> QED
      BY <1>3, <2>1, <3>1
  <2>2. CASE i # m
    <3>1. i \in 0..(m - 1) /\ h[i] = g[i]
      BY <1>4, <1>7, <2>2
    <3>2. g[i] = IF i = 0 THEN <<>> ELSE Keep(g[i - 1], s[i])
      BY <1>6, <3>1 DEF Keeps
    <3>3. i # 0 => h[i - 1] = g[i - 1]
      BY <1>4, <1>7, <3>1
    <3> QED
      BY <3>1, <3>2, <3>3
  <2> QED
    BY <2>1, <2>2
<1>9. Keeps(h, s, m)
  BY <1>7, <1>8 DEF Keeps
<1> QED
  BY <1>9

\* Payload is built one unit at a time.
LEMMA PayloadStep ==
  ASSUME NEW s \in Seq(Units)
  PROVE  \E c : /\ c[0] = <<>> /\ Payload(s) = c[Len(s)]
                /\ \A i \in 1..Len(s) : c[i] = Keep(c[i - 1], s[i])
<1>1. PICK L \in Nat : L = Len(s)
  OBVIOUS
<1>2. PICK c : c = CHOOSE f : f = [i \in 0..L |-> IF i = 0 THEN <<>> ELSE Keep(f[i - 1], s[i])]
  OBVIOUS
<1>3. c = [i \in 0..L |-> IF i = 0 THEN <<>> ELSE Keep(c[i - 1], s[i])]
  BY <1>2, KeepsExist DEF Keeps
<1>4. Payload(s) = c[L]
  BY <1>1, <1>2 DEF Payload, Keep
<1>5. c[0] = <<>>
  BY <1>3
<1>6. \A k \in 1..L : c[k] = Keep(c[k - 1], s[k])
  BY <1>3
<1> QED
  BY <1>1, <1>4, <1>5, <1>6

\* A stream with one unit appended.
LEMMA Appended ==
  ASSUME NEW s \in Seq(Units), NEW u \in Units
  PROVE  /\ Append(s, u) \in Seq(Units) /\ Len(Append(s, u)) = Len(s) + 1
         /\ Append(s, u)[Len(s) + 1] = u /\ \A i \in 1..Len(s) : Append(s, u)[i] = s[i]
  OBVIOUS

\* x is made of the bytes after the first n, and k of Bytes have come by its end.
Following(x, n, k) ==
  /\ x \in Seq(Units) /\ k = n + Len(x) /\ k <= Len(Bytes)
  /\ \A j \in 1..Len(x) : x[j] = Bytes[n + j]

\* One unit more of a counted stream.
LEMMA KeepFollows ==
  ASSUME NEW x, NEW u \in Units, NEW n \in Nat, NEW k, NEW l \in 0..Len(Bytes), Following(x, n, k),
         IF IsByte(u) THEN l = k + 1 /\ u = Bytes[l] ELSE l = k
  PROVE  Following(Keep(x, u), n, l)
<1>1. CASE ~IsByte(u)
  BY <1>1 DEF Keep
<1>2. CASE IsByte(u)
  <2>1. PICK m \in Nat : m = Len(x)
    BY DEF Following
  <2>2. PICK y : y = Append(x, u)
    OBVIOUS
  <2>3. x \in Seq(Units) /\ k = n + m /\ \A j \in 1..m : x[j] = Bytes[n + j]
    BY <2>1 DEF Following
  <2>4. y \in Seq(Units) /\ Len(y) = m + 1 /\ y[m + 1] = u /\ \A i \in 1..m : y[i] = x[i]
    BY <2>1, <2>2, <2>3, Appended
  <2>5. l = n + (m + 1) /\ u = Bytes[n + (m + 1)]
    BY <1>2, <2>1, <2>3
  <2>6. l <= Len(Bytes)
    BY NetConstants
  <2>7. ASSUME NEW j \in 1..(m + 1) PROVE y[j] = Bytes[n + j]
    <3>1. j \in 1..m \/ j = m + 1
      BY <2>1
    <3> QED
      BY <2>3, <2>4, <2>5, <3>1
  <2>8. Following(y, n, l)
    BY <2>4, <2>5, <2>6, <2>7 DEF Following
  <2> QED
    BY <1>2, <2>2, <2>8 DEF Keep
<1> QED
  BY <1>1, <1>2

\* The data bytes of the first part of a counted stream are the next of Bytes, and
\* the second part goes on from there.
LEMMA CountedPayload ==
  ASSUME NEW s \in Seq(Units), NEW t \in Seq(Units), NEW n, Counted(s \o t, n)
  PROVE  \E k \in Nat : Following(Payload(s), n, k) /\ Counted(t, k)
<1>1. PICK L \in Nat : L = Len(s)
  OBVIOUS
<1>2. PICK M \in Nat : M = Len(t)
  OBVIOUS
<1>3. PICK B \in Nat : B = Len(Bytes)
  BY NetConstants
<1>4. PICK j : j = s \o t
  OBVIOUS
<1>5. /\ Len(j) = L + M /\ (\A i \in 1..L : j[i] = s[i]) /\ (\A i \in 1..M : j[L + i] = t[i])
  BY <1>1, <1>2, <1>4, Joined
<1>6. PICK k \in [0..(L + M) -> 0..B] :
         /\ k[0] = n
         /\ \A i \in 1..(L + M) :
              IF IsByte(j[i]) THEN k[i] = k[i - 1] + 1 /\ j[i] = Bytes[k[i]] ELSE k[i] = k[i - 1]
  BY <1>3, <1>4, <1>5 DEF Counted
<1>7. PICK c : /\ c[0] = <<>> /\ Payload(s) = c[L]
               /\ \A i \in 1..L : c[i] = Keep(c[i - 1], s[i])
  BY <1>1, PayloadStep
<1>8. n \in 0..B /\ \A i \in 0..(L + M) : k[i] \in 0..B
  <2>1. 0 \in 0..(L + M)
    BY <1>1, <1>2
  <2> QED
    BY <1>6, <2>1
<1> DEFINE Bad == {m \in 0..L : ~Following(c[m], n, k[m])}
<1>9. Bad = {}
  <2>1. SUFFICES ASSUME Bad # {} PROVE FALSE
    OBVIOUS
  <2>2. PICK m \in Bad : \A e \in Bad : m <= e
    <3>1. Bad \subseteq Nat
      BY <1>1
    <3> HIDE DEF Bad
    <3> QED
      BY <2>1, <3>1, LeastMember
  <2>3. m # 0
    <3>1. PICK z : z = <<>>
      OBVIOUS
    <3>2. z \in Seq(Units) /\ Len(z) = 0
      BY <3>1
    <3>3. n = n + 0 /\ n <= B /\ \A i \in 1..0 : FALSE
      BY <1>3, <1>8
    <3>4. Following(z, n, n)
      BY <1>3, <3>2, <3>3 DEF Following
    <3>5. Following(c[0], n, k[0])
      BY <1>6, <1>7, <3>1, <3>4
    <3> QED
      BY <3>5
  <2>4. m \in 1..L /\ m - 1 \in 0..L /\ ~(m <= m - 1) /\ m \in 1..(L + M) /\ m \in 0..(L + M) /\ m - 1 \in 0..(L + M)
    BY <1>1, <1>2, <2>3
  <2>5. m - 1 \notin Bad
    <3> HIDE DEF Bad
    <3> QED
      BY <2>2, <2>4
  <2>6. Following(c[m - 1], n, k[m - 1])
    BY <2>4, <2>5
  <2>7. j[m] = s[m] /\ s[m] \in Units /\ c[m] = Keep(c[m - 1], s[m])
    BY <1>1, <1>5, <1>7, <2>4
  <2>8. IF IsByte(s[m]) THEN k[m] = k[m - 1] + 1 /\ s[m] = Bytes[k[m]] ELSE k[m] = k[m - 1]
    BY <1>6, <2>4, <2>7
  <2>9. n \in Nat /\ k[m] \in 0..Len(Bytes)
    BY <1>3, <1>8, <2>4
  <2>10. Following(c[m], n, k[m])
    BY <2>6, <2>7, <2>8, <2>9, KeepFollows
  <2> QED
    BY <2>10
<1>10. Following(Payload(s), n, k[L])
  <2>1. L \in 0..L
    BY <1>1
  <2> QED
    BY <1>7, <1>9, <2>1
<1>11. PICK f : f = [i \in 0..M |-> k[L + i]]
  OBVIOUS
<1>12. \A i \in 0..M : L + i \in 0..(L + M) /\ f[i] = k[L + i]
  BY <1>1, <1>2, <1>11
<1>13. f \in [0..M -> 0..B] /\ f[0] = k[L] /\ k[L] \in Nat
  BY <1>1, <1>2, <1>3, <1>8, <1>11, <1>12
<1>14. ASSUME NEW i \in 1..M
       PROVE  IF IsByte(t[i]) THEN f[i] = f[i - 1] + 1 /\ t[i] = Bytes[f[i]] ELSE f[i] = f[i - 1]
  <2>1. /\ i \in 0..M /\ i - 1 \in 0..M /\ L + i \in 1..(L + M) /\ (L + i) - 1 = L + (i - 1)
    BY <1>1, <1>2
  <2>2. IF IsByte(j[L + i]) THEN k[L + i] = k[(L + i) - 1] + 1 /\ j[L + i] = Bytes[k[L + i]]
        ELSE k[L + i] = k[(L + i) - 1]
    BY <1>6, <2>1
  <2>3. f[i] = k[L + i] /\ f[i - 1] = k[(L + i) - 1] /\ j[L + i] = t[i]
    BY <1>5, <1>12, <2>1
  <2> QED
    BY <2>2, <2>3
<1>15. Counted(t, k[L])
  BY <1>2, <1>3, <1>13, <1>14 DEF Counted
<1> QED
  BY <1>10, <1>13, <1>15

\* The first of Bytes, and those that follow them.
LEMMA FirstAndFollowing ==
  ASSUME NEW a \in Seq(Units), First(a), NEW x, NEW k, Following(x, Len(a), k)
  PROVE  a \o x \in Seq(Units) /\ First(a \o x) /\ Len(a \o x) = k
<1>1. PICK l \in Nat : l = Len(a)
  OBVIOUS
<1>2. x \in Seq(Units)
  BY DEF Following
<1>3. PICK m \in Nat : m = Len(x)
  BY <1>2
<1>4. k = l + m /\ k <= Len(Bytes) /\ \A j \in 1..m : x[j] = Bytes[l + j]
  BY <1>1, <1>3 DEF Following
<1>5. PICK y : y = a \o x
  OBVIOUS
<1>6. /\ y \in Seq(Units) /\ Len(y) = l + m
      /\ (\A i \in 1..l : y[i] = a[i]) /\ (\A i \in 1..m : y[l + i] = x[i])
  BY <1>1, <1>2, <1>3, <1>5, Joined
<1>7. ASSUME NEW i \in 1..(l + m) PROVE y[i] = Bytes[i]
  <2>1. CASE i <= l
    <3>1. i \in 1..l
      BY <1>1, <1>3, <2>1
    <3> QED
      BY <1>1, <1>6, <3>1 DEF First
  <2>2. CASE ~(i <= l)
    <3>1. PICK j \in 1..m : i = l + j
      <4>1. i - l \in 1..m /\ i = l + (i - l)
        BY <1>1, <1>3, <2>2
      <4> QED
        BY <4>1
    <3> QED
      BY <1>4, <1>6, <3>1
  <2> QED
    BY <2>1, <2>2
<1> QED
  BY <1>4, <1>5, <1>6, <1>7 DEF First

\* What the library holds of a body is data.
LEMMA PayloadInHand ==
  ASSUME NEW done, NEW got, NEW stage, NEW rest, InOrder(done, got, stage, rest)
  PROVE  Payload(got) = got
<1>1. CASE got = <<>>
  <2>1. got \in Seq(Units) /\ Len(got) = 0
    BY <1>1
  <2> QED
    BY <1>1, <2>1, PayloadStep
<1>2. CASE got # <<>>
  <2>1. PICK b \in Units : IsByte(b) /\ got = <<b>>
    BY <1>2 DEF InOrder
  <2>2. got \in Seq(Units) /\ Len(got) = 1 /\ got[1] = b
    BY <2>1
  <2>3. PICK c : /\ c[0] = <<>> /\ Payload(got) = c[Len(got)]
                 /\ \A i \in 1..Len(got) : c[i] = Keep(c[i - 1], got[i])
    BY <2>2, PayloadStep
  <2>4. 1 \in 1..Len(got) /\ 1 - 1 = 0
    BY <2>2
  <2>5. c[1] = Keep(<<>>, b)
    BY <2>2, <2>3, <2>4
  <2>6. Keep(<<>>, b) = <<b>>
    BY <2>1 DEF Keep
  <2> QED
    BY <2>1, <2>2, <2>3, <2>5, <2>6
<1> QED
  BY <1>1, <1>2

\* What is delivered, decrypted, held and on its way, one after the other.
LEMMA OrderIsFirst ==
  ASSUME NEW d \in Seq(Units), NEW p \in Seq(Units), NEW g, NEW stage, NEW w \in Seq(Units),
         NEW o \in Seq(Units), InOrder(d \o p, g, stage, w \o o)
  PROVE  /\ d \o p \o Payload(g) \o Payload(w) \o Payload(o) \in Seq(Units)
         /\ First(d \o p \o Payload(g) \o Payload(w) \o Payload(o))
<1>1. PICK a : a = (d \o p) \o g
  OBVIOUS
<1>2. a \in Seq(Units) /\ First(a) /\ Counted(w \o o, Len(a)) /\ Payload(g) = g
  BY <1>1, InHand, PayloadInHand DEF InOrder
<1>3. PICK k \in Nat : Following(Payload(w), Len(a), k) /\ Counted(o, k)
  BY <1>2, CountedPayload
<1>4. PICK b : b = a \o Payload(w)
  OBVIOUS
<1>5. b \in Seq(Units) /\ First(b) /\ Len(b) = k
  BY <1>2, <1>3, <1>4, FirstAndFollowing
<1>6. Counted(o \o <<>>, Len(b)) /\ <<>> \in Seq(Units)
  BY <1>3, <1>5
<1>7. PICK l \in Nat : Following(Payload(o), Len(b), l)
  BY <1>6, CountedPayload
<1>8. b \o Payload(o) \in Seq(Units) /\ First(b \o Payload(o))
  BY <1>5, <1>7, FirstAndFollowing
<1> QED
  BY <1>1, <1>2, <1>4, <1>8

\* What the program reads of a TLS connection is what the peer sent: each byte once
\* and in order, over any splitting of records into reads of the descriptor and any
\* sequence of reads of any sizes, with waits that run out anywhere in between, and
\* an end is reported only after the peer has closed or sent its notice.  (Not that
\* every byte is read before it, nor that it falls between records: AllDelivered and
\* EndBetweenRecords do not hold.)
THEOREM StreamStaysInOrder == NetSpec => []StreamInOrder
<1>1. StreamInv /\ FdInv => BytesInOrder
  <2> SUFFICES ASSUME StreamInv, FdInv, Live \/ at = "return"
               PROVE  \A i \in DOMAIN (delivered \o lib.plain \o Payload(lib.got) \o Payload(wire) \o Payload(outgoing)) :
                        (delivered \o lib.plain \o Payload(lib.got) \o Payload(wire) \o Payload(outgoing))[i] = Bytes[i]
    BY DEF BytesInOrder
  <2>1. Secure
    BY DEF FdInv, Live, Secure
  <2>2. /\ StreamTypes
        /\ InOrder(delivered \o lib.plain, lib.got, lib.stage, wire \o outgoing)
    BY <2>1 DEF StreamInv
  <2>3. PICK b : b = delivered \o lib.plain \o Payload(lib.got) \o Payload(wire) \o Payload(outgoing)
    OBVIOUS
  <2>4. b \in Seq(Units) /\ First(b)
    BY <2>2, <2>3, OrderIsFirst DEF StreamTypes
  <2>5. \A i \in DOMAIN b : b[i] = Bytes[i]
    BY <2>4 DEF First
  <2> QED
    BY <2>3, <2>5
<1>2. NetSpec => []BytesInOrder
  BY <1>1, StreamAlways, FdAlways, PTL
<1>3. BytesInOrder /\ EndNeedsClose => StreamInOrder
  BY DEF StreamInOrder
<1> QED
  BY <1>2, <1>3, EndsNeedAClose, PTL

=============================================================================
