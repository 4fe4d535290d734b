----------------------------- MODULE Transports -----------------------------
(***************************************************************************)
(* The transports a client may be built on.  The transport is a template   *)
(* parameter of the client, so a program uses one of them: Init chooses    *)
(* which, and the others' variables stay Absent.  The components do not    *)
(* share state; the modules' variables of the same name are one variable   *)
(* here.                                                                   *)
(***************************************************************************)
EXTENDS Integers

CONSTANTS
  Objects,             (* socket objects: the first one and those moved to *)
  MaxFd,               (* descriptors the process may have *)
  Lens,                (* sizes of the span passed to read_some *)
  TcpBytes, TlsBytes,  (* bytes the peer may have sent ahead (bounds) *)
  AsioBytes            (* bytes the server sends (bound) *)

ASSUME TransportsAssumption ==
  /\ {MaxFd, TcpBytes, TlsBytes, AsioBytes} \subseteq Nat
  /\ Lens \subseteq Nat \ {0}

VARIABLES
  which,                                                     (* the transport *)
  obj, fd, connected, table, link, avail, fin, room,         (* TcpSocket *)
  pc, call, expired, res, stale,
  ssl, verify, tcp, heap, ex, tls, cert, notify, errq, failed, (* OpenSslSocket *)
  closed, sent, net, bio, taken, got, saw                    (* AsioSocket *)

notTcp == <<ssl, verify, tcp, heap, ex, tls, cert, notify, errq, failed, closed, sent, net,
            bio, taken, got, saw>>
notTls == <<fd, connected, table, link, fin, stale, closed, sent, net, bio, taken, got, saw>>
notAsio == <<obj, connected, table, link, avail, room, pc, expired, stale, ssl, verify, tcp,
             heap, ex, cert, notify, errq, failed>>
vars == <<which, obj, fd, connected, table, link, avail, fin, room, pc, call, expired, res,
          stale, notTcp>>

Tcp == INSTANCE TcpSocket WITH MaxBytes <- TcpBytes, Reuse <- FALSE
Tls == INSTANCE OpenSslSocket WITH MaxBytes <- TlsBytes, PreConnected <- FALSE
Asio == INSTANCE AsioSocket WITH MaxBytes <- AsioBytes, Polls <- FALSE

Absent == "-"

InitTcp ==
  /\ which = "tcp" /\ Tcp!Init
  /\ ssl = Absent /\ verify = Absent /\ tcp = Absent /\ heap = Absent /\ ex = Absent
  /\ tls = Absent /\ cert = Absent /\ notify = Absent /\ errq = Absent /\ failed = Absent
  /\ closed = Absent /\ sent = Absent /\ net = Absent /\ bio = Absent /\ taken = Absent
  /\ got = Absent /\ saw = Absent

InitTls ==
  /\ which = "tls" /\ Tls!Init
  /\ fd = Absent /\ connected = Absent /\ table = Absent /\ link = Absent /\ fin = Absent
  /\ stale = Absent /\ closed = Absent /\ sent = Absent /\ net = Absent /\ bio = Absent
  /\ taken = Absent /\ got = Absent /\ saw = Absent

InitAsio ==
  /\ which = "asio" /\ Asio!Init
  /\ obj = Absent /\ connected = Absent /\ table = Absent /\ link = Absent /\ avail = Absent
  /\ room = Absent /\ pc = Absent /\ expired = Absent /\ stale = Absent /\ ssl = Absent
  /\ verify = Absent /\ tcp = Absent /\ heap = Absent /\ ex = Absent /\ cert = Absent
  /\ notify = Absent /\ errq = Absent /\ failed = Absent

Init == InitTcp \/ InitTls \/ InitAsio

AsTcp == which = "tcp" /\ UNCHANGED <<which, notTcp>>
AsTls == which = "tls" /\ UNCHANGED <<which, notTls>>
AsAsio == which = "asio" /\ UNCHANGED <<which, notAsio>>

Next == (AsTcp /\ Tcp!Next) \/ (AsTls /\ Tls!Next) \/ (AsAsio /\ Asio!Next)

(* A system call, an OpenSSL call or a handler of Asio that can proceed does so,
   and the clock runs; nothing is assumed of the user and of the peer. *)
Spec ==
  /\ Init /\ [][Next]_vars
  /\ WF_vars(AsTcp /\ Tcp!Step) /\ WF_vars(AsTcp /\ Tcp!Expire)
  /\ WF_vars(AsTls /\ Tls!Step) /\ WF_vars(AsTls /\ Tls!Expire)
  /\ \A c \in Asio!Coroutines :
       WF_vars(AsAsio /\ Asio!Step(c)) /\ WF_vars(AsAsio /\ Asio!Expire(c))

-----------------------------------------------------------------------------

(* A descriptor that TcpSocket::init opened belongs to exactly one object, and an
   object holds no other; the SSL structure of an OpenSslSocket has one living
   owner, to which OpenSSL's later callbacks lead.  Through moves, failed inits
   and destruction. *)
OneOwner ==
  /\ which = "tcp" => Tcp!OneOwner
  /\ which = "tls" => Tls!CallbacksReachOwner

(* A TcpSocket that says it is connected has a connected socket, also when connect
   was retried after a timeout or a refusal; OpenSslSocket::connect with
   verification succeeds only for a server with a trusted certificate for this
   host, however the handshake loop was left. *)
ConnectedIsReal ==
  /\ which = "tcp" => Tcp!ConnectedIsReal
  /\ which = "tls" => Tls!VerifiedIsVerified

(* What a call reports has happened to this connection: the end of the stream only
   when every byte before it has been read, an SSL error only when the connection
   is broken and not for errors others left in OpenSSL's queue, a timeout of
   AsioSocket only when the call's own timer has expired. *)
ReportsAreTrue ==
  [][/\ which = "tcp" => Tcp!EndOfStreamIsReal
     /\ which = "tls" => Tls!SslErrorIsOwn
     /\ which = "asio" => Asio!TimeoutIsReal]_vars

(* AsioSocket: whatever timer, peer and a close() of the other coroutine do
   while a read is pending, no byte is lost unless the read has failed. *)
NothingLostSilently == which = "asio" => Asio!NothingLostSilently

(* Every call of every transport returns, though the server is silent, signals
   and records arrive for ever, or another coroutine closes the socket. *)
CallsReturn ==
  /\ (which = "tcp" /\ ~Tcp!Returned) ~> (which = "tcp" /\ Tcp!Returned)
  /\ (which = "tls" /\ ~Tls!Returned) ~> (which = "tls" /\ Tls!Returned)
  /\ \A c \in Asio!Coroutines :
       (which = "asio" /\ ~Asio!Returned(c)) ~> (which = "asio" /\ Asio!Returned(c))
=============================================================================
