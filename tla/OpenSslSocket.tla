---------------------------- MODULE OpenSslSocket ----------------------------
(***************************************************************************)
(* transport/builtin/OpenSslSocket.hpp: the SSL structure in the hands of  *)
(* OpenSslSocket objects, and the loops that repeat an OpenSSL call until  *)
(* it has succeeded, failed or run out of time.                            *)
(*                                                                         *)
(* OpenSSL is modelled by what its calls report: success, the wish to      *)
(* read or write first, an interrupted, failed or ended connection, a      *)
(* protocol error.  The thread's error queue may hold errors of other      *)
(* users of OpenSSL at any time, which SSL_get_error takes for its own.    *)
(* The TCP socket below is modelled in TcpSocket; here it connects once,   *)
(* is shut down and closed.                                                *)
(*                                                                         *)
(* After an error of read_some, write_some or wait_readable the user shuts *)
(* down failing the connection, or closes.                                 *)
(***************************************************************************)
EXTENDS Integers

CONSTANTS
  Objects,       (* OpenSslSocket objects: the first one and those moved to *)
  MaxBytes,      (* decrypted bytes the peer may have sent ahead (bound) *)
  PreConnected   (* whether the TcpSocket passed in is connected already *)

VARIABLES
  obj,      (* each object: unborn, live, moved from, dead *)
  ssl,      (* ssl_: "null", "half" after an init that failed, "set" *)
  verify,   (* verify_ *)
  tcp,      (* the TcpSocket: fresh, up, shut, closed *)
  heap,     (* an SSL structure is allocated *)
  ex,       (* its application data: the object the callbacks use *)
  tls,      (* its connection: handshake under way, with the server's
               certificate received, done, broken *)
  cert,     (* the server's certificate: presented, for this host, trusted *)
  avail,    (* application bytes that SSL_read can return *)
  notify,   (* close_notify: sent by us, received from the peer *)
  room,     (* the TCP socket takes bytes *)
  errq,     (* the thread's OpenSSL error queue is not empty *)
  pc, call, expired, res, (* the call in progress and the last result *)
  failed    (* a call failed, the user has to close *)

vars == <<obj, ssl, verify, tcp, heap, ex, tls, cert, avail, notify, room, errq,
          pc, call, expired, res, failed>>
objectVars == <<obj, ssl, heap, ex>>
peerVars == <<cert, verify>>
NoCall == [on |-> "nobody", name |-> "none", want |-> "none"]

Init ==
  /\ \E o \in Objects : /\ obj = [p \in Objects |-> IF p = o THEN "live" ELSE "unborn"]
                        /\ ex = o
  /\ ssl = [o \in Objects |-> "null"] /\ heap = FALSE
  /\ verify \in BOOLEAN
  /\ cert \in [presented : BOOLEAN, host : BOOLEAN, chain : BOOLEAN]
  /\ tcp = IF PreConnected THEN "up" ELSE "fresh"
  /\ tls = "none" /\ avail = 0 /\ room = TRUE /\ errq = FALSE
  /\ notify = [sent |-> FALSE, got |-> FALSE]
  /\ pc = "idle" /\ call = NoCall /\ expired = FALSE /\ res = "none" /\ failed = FALSE

(* A call returns r; an error of an I/O call obliges the user to close. *)
Return(r) ==
  /\ pc' = "idle" /\ call' = NoCall /\ expired' = FALSE
  /\ res' = r
  /\ failed' = (failed \/ (call.name \in {"connect", "wait", "read", "write"}
                           /\ r \notin {"ok", "readable", "no", "connected"}))

Result(r) == res' = r /\ UNCHANGED <<pc, call, expired, failed>>

Begin(o, name, label) ==
  /\ pc' = label
  /\ call' = [on |-> o, name |-> name, want |-> "none"]
  /\ expired' = FALSE
  /\ res' = "none"
  /\ UNCHANGED failed

Live(o) == pc = "idle" /\ obj[o] = "live"

-----------------------------------------------------------------------------
(* construction, init, move, close, destruction *)

(* SSL_new, application data, SSL_set_fd, verification, host name: what
   fails after SSL_new leaves ssl_ set. *)
init(o) ==
  /\ Live(o)
  /\ \/ ssl[o] # "null" /\ Result("already initialized") /\ UNCHANGED <<ssl, heap, ex, tls, notify>>
     \/ ssl[o] = "null" /\ Result("error") /\ UNCHANGED <<ssl, heap, ex, tls, notify>>
     \/ /\ ssl[o] = "null" /\ tcp # "closed"
        /\ heap' = TRUE /\ ex' = o
        /\ tls' = "handshake" /\ notify' = [sent |-> FALSE, got |-> FALSE]
        /\ \/ ssl' = [ssl EXCEPT ![o] = "set"] /\ Result("ok")
           \/ ssl' = [ssl EXCEPT ![o] = "half"] /\ Result("error")
  /\ UNCHANGED <<obj, peerVars, tcp, avail, room, errq>>

(* set_verify_peer(value), which init() calls with verify_ *)
set_verify_peer(o, value) ==
  /\ Live(o)
  /\ \/ ssl[o] = "null" /\ Result("not initialized") /\ UNCHANGED verify
     \/ ssl[o] # "null" /\ Result("ok") /\ verify' = value
  /\ UNCHANGED <<objectVars, cert, tcp, tls, avail, notify, room, errq>>

(* Mutant: the application data still points to the object moved from. *)
set_ssl_ex_dataMutant(o, p) == ex

(* set_ssl_ex_data() of the object moved to, if there is an SSL structure *)
set_ssl_ex_data(o, p) == IF ssl[o] # "null" THEN p ELSE ex

move(o, p) ==
  /\ Live(o) /\ obj[p] = "unborn"
  /\ obj' = [obj EXCEPT ![o] = "moved", ![p] = "live"]
  /\ ssl' = [ssl EXCEPT ![p] = ssl[o], ![o] = "null"]
  /\ ex' = set_ssl_ex_data(o, p)
  /\ UNCHANGED <<heap, peerVars, tcp, tls, avail, notify, room, errq, pc, call, expired,
                 res, failed>>

(* SSL_free and close() of the TCP socket, whose error is ignored *)
Release(o) ==
  /\ ssl' = [ssl EXCEPT ![o] = "null"]
  /\ heap' = (heap /\ ssl[o] = "null")
  /\ tls' = IF ssl[o] = "null" THEN tls ELSE "none"
  /\ tcp' = "closed"
  /\ avail' = 0

close(o) ==
  /\ Live(o)
  /\ Release(o)
  /\ Result("ok")
  /\ UNCHANGED <<obj, ex, peerVars, notify, room, errq>>

(* ~OpenSslSocket, then the destructor of its TcpSocket; an object that was
   moved from holds neither *)
destroy(o) ==
  /\ pc = "idle" /\ obj[o] \in {"live", "moved"}
  /\ obj' = [obj EXCEPT ![o] = "dead"]
  /\ \/ obj[o] = "live" /\ Release(o)
     \/ obj[o] = "moved" /\ UNCHANGED <<ssl, heap, tls, tcp, avail>>
  /\ UNCHANGED <<ex, peerVars, notify, room, errq, pc, call, expired, res, failed>>

-----------------------------------------------------------------------------
(* the calls with a loop, up to it *)

(* connect(): the TCP connection first; a TcpSocket that is connected
   refuses *)
connect(o) ==
  /\ Live(o) /\ tcp # "closed" /\ ssl[o] # "half"
  /\ \/ ssl[o] = "null" /\ Result("not initialized") /\ UNCHANGED tcp
     \/ ssl[o] = "set" /\ tcp = "up" /\ Result("already established") /\ UNCHANGED tcp
     \/ ssl[o] = "set" /\ tcp = "fresh" /\ Result("error") /\ UNCHANGED tcp
     \/ ssl[o] = "set" /\ tcp = "fresh" /\ tcp' = "up" /\ Begin(o, "connect", "ssl")
  /\ UNCHANGED <<objectVars, peerVars, tls, avail, notify, room, errq>>

Established(o) == Live(o) /\ ssl[o] = "set" /\ tcp = "up" /\ tls \notin {"none", "broken"}

read_write(o, name) ==
  /\ name \in {"wait", "read", "write"}
  /\ Established(o) /\ ~failed /\ ~notify.sent
  /\ Begin(o, name, "ssl")
  /\ UNCHANGED <<objectVars, peerVars, tcp, tls, avail, notify, room, errq>>

(* socket_.shutdown(false): an error is ignored, and the TCP socket then stays as
   it was *)
TcpShutdown == IF tcp = "up" THEN {"up", "shut"} ELSE {tcp}

(* shutdown(fail_connection): nothing if the connection is failed, or else the
   TLS layer first, which ends at once without a usable SSL structure, then the
   TCP socket *)
shutdown(o) ==
  /\ Live(o)
  /\ \/ Result("ok") /\ UNCHANGED tcp
     \/ Established(o) /\ ~failed /\ Begin(o, "shutdown", "ssl") /\ UNCHANGED tcp
     \/ ~Established(o) /\ Result("ok") /\ tcp' \in TcpShutdown
     \/ ~Established(o) /\ ssl[o] # "null" /\ Result("error") /\ UNCHANGED tcp
  /\ UNCHANGED <<objectVars, peerVars, tls, avail, notify, room, errq>>

-----------------------------------------------------------------------------
(* one iteration of a loop *)

(* The verify callback refuses a chain that is not trusted. *)
ssl_verify_callback == verify => cert.chain

(* What the OpenSSL call of the loop can answer, in the state it meets and
   with what it changes.  The handshake goes on inside every call. *)
SslCall(answer) ==
  CASE answer = "done" ->
         /\ tls' = "done" /\ UNCHANGED avail
         /\ \/ call.name = "connect" /\ ssl_verify_callback /\ notify' = notify
            \/ call.name = "wait" /\ tls = "done" /\ avail > 0 /\ notify' = notify
            \/ call.name = "write" /\ tls = "done" /\ room /\ notify' = notify
            \/ call.name = "shutdown" /\ notify.got /\ notify' = [notify EXCEPT !.sent = TRUE]
    [] answer = "bytes" ->
         /\ call.name = "read" /\ tls = "done" /\ avail > 0
         /\ avail' \in 0..(avail - 1) /\ UNCHANGED <<tls, notify>>
    [] answer \in {"want_read", "want_write"} ->
         /\ \/ call.name \in {"wait", "read"} => avail = 0 /\ ~notify.got
            \/ tls # "done"
         /\ \/ UNCHANGED tls
            \/ tls = "handshake" /\ ssl_verify_callback /\ cert.presented /\ tls' = "cert"
            \/ tls # "done" /\ call.name # "connect" /\ ssl_verify_callback /\ tls' = "done"
         /\ UNCHANGED <<avail, notify>>
    [] answer = "half" ->  (* our close_notify is out, the peer's is not in *)
         /\ call.name = "shutdown" /\ ~notify.sent /\ ~notify.got
         /\ notify' = [notify EXCEPT !.sent = TRUE]
         /\ UNCHANGED <<tls, avail>>
    [] answer = "zero" ->
         /\ call.name # "shutdown" /\ notify.got /\ avail = 0
         /\ UNCHANGED <<tls, avail, notify>>
    [] answer = "eintr" -> UNCHANGED <<tls, avail, notify>>
    [] answer = "syscall" -> tls' = "broken" /\ UNCHANGED <<avail, notify>>
    [] answer = "ssl" -> tls' = "broken" /\ UNCHANGED <<avail, notify>>

Answers == {"done", "bytes", "want_read", "want_write", "half", "zero", "eintr",
            "syscall", "ssl"}

(* Mutant: the error queue is not cleared before the call. *)
ReportedMutant(answer) == IF errq /\ answer \notin {"done", "bytes", "half"} THEN "ssl" ELSE answer

(* ERR_clear_error() before the call: SSL_get_error reports its answer. *)
Reported(answer) == answer

Retry(label, want) ==
  /\ pc' = label
  /\ call' = [call EXCEPT !.want = want]
  /\ UNCHANGED <<expired, res, failed>>

(* How the end of the stream and a failed system call are reported: read_some
   takes every 0 for a transport error, wait_readable tells an abrupt end apart. *)
Ended(name, answer) ==
  CASE answer = "zero" /\ name # "read" -> {"closed"}
    [] answer = "syscall" /\ name = "wait" -> {"closed", "error"}
    [] OTHER -> {"error"}

(* The call and the branches on its result, which the loops of connect,
   wait_readable, read_some and write_some have in common.  Errors are
   drained from the queue when they are reported, except by the end of the
   stream. *)
ssl_step(name, Done) ==
  /\ pc = "ssl" /\ call.name = name
  /\ \E answer \in Answers :
       /\ SslCall(answer)
       /\ CASE Reported(answer) \in {"done", "bytes"} -> Done
            [] Reported(answer) \in {"want_read", "want_write"} ->
                 Retry("select", Reported(answer))
            [] Reported(answer) = "eintr" -> Retry("check", "none")
            [] Reported(answer) \in {"zero", "syscall"} ->
                 \E r \in Ended(name, Reported(answer)) : Return(r)
            [] Reported(answer) = "ssl" -> Return("ssl error")
  /\ errq' = FALSE
  /\ UNCHANGED <<objectVars, peerVars, tcp, room>>

connect_step == ssl_step("connect", Retry("verify", "none"))
wait_readable == ssl_step("wait", Return("readable"))
read_some == ssl_step("read", Return("ok"))
write_some == ssl_step("write", Return("ok"))

(* The loop of shutdown(): it repeats while SSL_shutdown waits for the
   peer's close_notify; an error leaves the TCP socket as it is. *)
shutdown_step ==
  /\ pc = "ssl" /\ call.name = "shutdown"
  /\ \E answer \in Answers \ {"zero", "bytes"} :
       /\ SslCall(answer)
       /\ CASE answer = "done" -> tcp' \in TcpShutdown /\ Return("ok")
            [] answer \in {"half", "eintr"} -> tcp' = tcp /\ Retry("check", "none")
            [] answer \in {"want_read", "want_write"} -> tcp' = tcp /\ Retry("select", answer)
            [] answer \in {"syscall", "ssl"} -> tcp' = tcp /\ Return("error")
  /\ errq' = FALSE
  /\ UNCHANGED <<objectVars, peerVars, room>>

(* ssl_select: ready, out of time, failed; a signal repeats it unless the
   time is up *)
ssl_select ==
  /\ pc = "select"
  /\ \/ Retry("check", "none")
     \/ expired /\ Return(IF call.name = "wait" THEN "no" ELSE "timeout")
     \/ Return("error")
  /\ UNCHANGED <<objectVars, peerVars, tcp, tls, avail, notify, room, errq>>

(* while (!timeout.is_expired()): connect goes on to the certificate, read
   and write time out, shutdown goes on to the TCP socket *)
loop_check ==
  /\ pc = "check"
  /\ \/ ~expired /\ Retry("ssl", "none") /\ UNCHANGED tcp
     \/ expired /\ call.name = "connect" /\ Retry("verify", "none") /\ UNCHANGED tcp
     \/ expired /\ call.name = "wait" /\ Return("no") /\ UNCHANGED tcp
     \/ expired /\ call.name \in {"read", "write"} /\ Return("timeout") /\ UNCHANGED tcp
     \/ expired /\ call.name = "shutdown" /\ Return("ok") /\ tcp' \in TcpShutdown
  /\ UNCHANGED <<objectVars, peerVars, tls, avail, notify, room, errq>>

(* SSL_get_peer_certificate returns the certificate as soon as it has
   arrived. *)
Certificate == tls \in {"cert", "done"} /\ cert.presented

(* Mutant: a server without a certificate passes. *)
CertificateOkMutant == Certificate => cert.host /\ cert.chain

(* presented, for this host, and the verification of its chain succeeded *)
CertificateOk == Certificate /\ cert.host /\ cert.chain

connect_verify ==
  /\ pc = "verify"
  /\ Return(IF ~verify \/ CertificateOk THEN "connected" ELSE "certificate")
  /\ UNCHANGED <<objectVars, peerVars, tcp, tls, avail, notify, room, errq>>

-----------------------------------------------------------------------------

(* The peer sends data or close_notify, and takes data. *)
Peer ==
  /\ tls = "done" /\ tcp = "up"
  /\ \/ ~notify.got /\ avail < MaxBytes /\ avail' = avail + 1 /\ UNCHANGED <<notify, room>>
     \/ ~notify.got /\ notify' = [notify EXCEPT !.got = TRUE] /\ UNCHANGED <<avail, room>>
     \/ room' = ~room /\ UNCHANGED <<avail, notify>>
  /\ UNCHANGED <<objectVars, peerVars, tcp, tls, errq, pc, call, expired, res, failed>>

(* Another user of OpenSSL in this thread leaves errors behind. *)
OtherErrors ==
  /\ pc = "idle" /\ ~errq /\ errq' = TRUE
  /\ UNCHANGED <<objectVars, peerVars, tcp, tls, avail, notify, room, pc, call, expired,
                 res, failed>>

Expire ==
  /\ pc # "idle" /\ ~expired /\ expired' = TRUE
  /\ UNCHANGED <<objectVars, peerVars, tcp, tls, avail, notify, room, errq, pc, call, res,
                 failed>>

User ==
  \E o \in Objects :
    \/ \E value \in BOOLEAN : set_verify_peer(o, value)
    \/ init(o) \/ connect(o) \/ shutdown(o) \/ close(o) \/ destroy(o)
    \/ \E name \in {"wait", "read", "write"} : read_write(o, name)
    \/ \E p \in Objects : move(o, p)

Step ==
  \/ connect_step \/ wait_readable \/ read_some \/ write_some \/ shutdown_step
  \/ ssl_select \/ loop_check \/ connect_verify

Next == User \/ Step \/ Peer \/ OtherErrors \/ Expire

Spec == Init /\ [][Next]_vars

(* Every OpenSSL call and every select returns, and the clock runs. *)
FairSpec == Spec /\ WF_vars(Step) /\ WF_vars(Expire)

-----------------------------------------------------------------------------

(* An SSL structure belongs to exactly one object that is alive, through
   failed inits, moves and destruction, and the callbacks of OpenSSL, which
   run in later calls, get that object. *)
CallbacksReachOwner ==
  heap => \E o \in Objects : /\ \A p \in Objects : ssl[p] # "null" <=> p = o
                             /\ obj[o] = "live" /\ ex = o

(* A connect() with verification succeeds only for a server that has
   presented a certificate for this host with a trusted chain, however the
   handshake loop was left. *)
VerifiedIsVerified ==
  res = "connected" /\ verify => cert.presented /\ cert.host /\ cert.chain

(* An SSL error is reported only when this connection has failed: errors
   that others left in the thread's queue do not end it. *)
SslErrorIsOwn == res' = "ssl error" /\ pc = "ssl" => tls' = "broken"

(* The call in progress has returned. *)
Returned == pc = "idle"

(* connect() performs the "SSL handshake": when it has reported success the
   handshake is done. *)
ConnectedMeansHandshaken == res = "connected" /\ pc = "idle" => tls \notin {"handshake", "cert"}

(* "It is assumed that the socket is already connected to a remote host":
   a connected TcpSocket is no error. *)
ConnectedSocketIsTaken == res # "already established"
=============================================================================
