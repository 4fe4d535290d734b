------------------------------- MODULE Coroio -------------------------------
(***************************************************************************)
(* The parts of the coroio library that CoroioSocket is built on: the      *)
(* event loop with one of its three pollers (a template parameter), the    *)
(* resolver and the TLS socket.  Init chooses the part, the variables of   *)
(* the others stay Absent.  Each of the modules contains what the part     *)
(* needs of the others: the resolver and the TLS socket the poller's       *)
(* handles and resumptions.                                                *)
(***************************************************************************)
EXTENDS Integers, Sequences

CONSTANTS
  MaxData, MaxChanges, (* CoroioLoop's bounds *)
  Clients, Requests,   (* who asks the resolver, and for what *)
  XidMod,              (* number of transaction ids *)
  Main,                (* the coroutine that uses the TLS socket *)
  BufSize,             (* DoIO's buffer *)
  Hello, Finished, Record, (* bytes of what OpenSSL makes *)
  MaxBytes, MaxRecords (* CoroioSsl's bounds *)

ASSUME CoroioAssumption ==
  /\ {MaxData, MaxChanges} \subseteq Nat
  /\ XidMod \in Nat \ {0, 1} /\ XidMod % 2 = 1
  /\ "none" \notin Requests
  /\ {BufSize, Hello, Finished, Record, MaxBytes, MaxRecords} \subseteq Nat \ {0}

VARIABLES
  which,                                                  (* the part *)
  changes, in, reg, idx, ready, pc, waiting, failed, fd,  (* CoroioLoop *)
  avail, room, hup, stray,
  queue, timeouts, waitingAddrs, results, inflight, xid,  (* CoroioResolver *)
  sender, suspended, receiver, resuming, left, asks, queries,
  hs, rwstate, wbio, rbio, made, wire, net, served,       (* CoroioSsl *)
  connected, task, run, rh, wh

notLoop == <<queue, timeouts, waitingAddrs, results, inflight, xid, sender,
             suspended, receiver, resuming, left, asks, queries, hs, rwstate, wbio,
             rbio, made, wire, net, served, connected, task, run, rh, wh>>
notResolver == <<changes, in, reg, idx, ready, pc, waiting, failed, fd, avail, room,
                 hup, stray, hs, rwstate, wbio, rbio, made, wire, net, served,
                 connected, task, run, rh, wh>>
notSsl == <<changes, in, reg, idx, ready, pc, waiting, failed, fd, avail, hup, stray,
            queue, timeouts, waitingAddrs, results, inflight, xid, sender, suspended,
            receiver, resuming, left, asks, queries>>
vars == <<which, changes, in, reg, idx, ready, pc, waiting, failed, fd, avail, room,
          hup, stray, queue, timeouts, waitingAddrs, results, inflight, xid, sender,
          suspended, receiver, resuming, left, asks, queries, hs, rwstate, wbio,
          rbio, made, wire, net, served, connected, task, run, rh, wh>>

(* The pollers, with one socket or two.  Each is used as far as it keeps what its
   caller needs: epoll loses a coroutine of a socket that is used in both
   directions, poll one of several readers, and it resumes too many coroutines
   when a peer ends its connection. *)
Select == INSTANCE CoroioLoop WITH Backend <- "select", Readers <- {1}, Writers <- {1},
                                   Closes <- TRUE, Hangups <- TRUE
Select2 == INSTANCE CoroioLoop WITH Backend <- "select", Readers <- {1, 2}, Writers <- {1},
                                    Closes <- TRUE, Hangups <- FALSE
Epoll == INSTANCE CoroioLoop WITH Backend <- "epoll", Readers <- {1}, Writers <- {2},
                                  Closes <- TRUE, Hangups <- TRUE
Poll == INSTANCE CoroioLoop WITH Backend <- "poll", Readers <- {1}, Writers <- {1},
                                 Closes <- TRUE, Hangups <- FALSE
Resolver == INSTANCE CoroioResolver
Ssl == INSTANCE CoroioSsl WITH Readers <- {Main}, Writers <- {Main}

Absent == "-"

InitLoop ==
  /\ \/ which = "select" /\ Select!Init
     \/ which = "select2" /\ Select2!Init
     \/ which = "epoll" /\ Epoll!Init
     \/ which = "poll" /\ Poll!Init
  /\ queue = Absent /\ timeouts = Absent /\ waitingAddrs = Absent /\ results = Absent /\ inflight = Absent
  /\ xid = Absent /\ sender = Absent /\ suspended = Absent /\ receiver = Absent /\ resuming = Absent
  /\ left = Absent /\ asks = Absent /\ queries = Absent /\ hs = Absent /\ rwstate = Absent
  /\ wbio = Absent /\ rbio = Absent /\ made = Absent /\ wire = Absent /\ net = Absent
  /\ served = Absent /\ connected = Absent /\ task = Absent /\ run = Absent /\ rh = Absent
  /\ wh = Absent

InitResolver ==
  /\ which = "resolver" /\ Resolver!Init
  /\ changes = Absent /\ in = Absent /\ reg = Absent /\ idx = Absent /\ ready = Absent
  /\ pc = Absent /\ waiting = Absent /\ failed = Absent /\ fd = Absent /\ avail = Absent
  /\ room = Absent /\ hup = Absent /\ stray = Absent /\ hs = Absent /\ rwstate = Absent
  /\ wbio = Absent /\ rbio = Absent /\ made = Absent /\ wire = Absent /\ net = Absent
  /\ served = Absent /\ connected = Absent /\ task = Absent /\ run = Absent /\ rh = Absent
  /\ wh = Absent

InitSsl ==
  /\ which = "ssl" /\ Ssl!Init
  /\ changes = Absent /\ in = Absent /\ reg = Absent /\ idx = Absent /\ ready = Absent
  /\ pc = Absent /\ waiting = Absent /\ failed = Absent /\ fd = Absent /\ avail = Absent
  /\ hup = Absent /\ stray = Absent /\ queue = Absent /\ timeouts = Absent /\ waitingAddrs = Absent
  /\ results = Absent /\ inflight = Absent /\ xid = Absent /\ sender = Absent /\ suspended = Absent
  /\ receiver = Absent /\ resuming = Absent /\ left = Absent /\ asks = Absent /\ queries = Absent

Init == InitLoop \/ InitResolver \/ InitSsl

AsLoop(backend) == which = backend /\ UNCHANGED <<which, notLoop>>
AsResolver == which = "resolver" /\ UNCHANGED <<which, notResolver>>
AsSsl == which = "ssl" /\ UNCHANGED <<which, notSsl>>

Next ==
  \/ AsLoop("select") /\ Select!Next
  \/ AsLoop("select2") /\ Select2!Next
  \/ AsLoop("epoll") /\ Epoll!Next
  \/ AsLoop("poll") /\ Poll!Next
  \/ AsResolver /\ Resolver!Next
  \/ AsSsl /\ Ssl!Next

(* The event loop goes on, resumes what is ready, and time passes.  A TLS server
   answers the hello and takes bytes; nothing else is assumed of coroutines,
   peers and the network. *)
Spec ==
  /\ Init /\ [][Next]_vars
  /\ WF_vars(AsLoop("select") /\ Select!Loop)
  /\ WF_vars(AsLoop("select2") /\ Select2!Loop)
  /\ WF_vars(AsLoop("epoll") /\ Epoll!Loop)
  /\ WF_vars(AsLoop("poll") /\ Poll!Loop)
  /\ WF_vars(AsResolver /\ Resolver!Resume) /\ WF_vars(AsResolver /\ Resolver!SenderTask)
  /\ WF_vars(AsResolver /\ Resolver!TimePasses)
  /\ WF_vars(AsResolver /\ Resolver!TimeoutsTask)
  /\ WF_vars(AsResolver /\ Resolver!TimeoutsStep)
  /\ WF_vars(AsSsl /\ Ssl!Step(Main)) /\ WF_vars(AsSsl /\ Ssl!Wake)
  /\ WF_vars(AsSsl /\ Ssl!Drain) /\ WF_vars(AsSsl /\ Ssl!Server /\ served < 2)

-----------------------------------------------------------------------------

Looping == which \in {"select", "select2", "epoll", "poll"}

(* The pollers: a coroutine is resumed only by an event it waits for, also when
   the coroutines of both directions run in between. *)
NoStrayResume == Looping => Select!NoStrayResume

(* The pollers: a suspended coroutine is about to be resumed, or its wait has
   still to be applied, or the kernel has been asked for its event.  TResolver:
   every client that waits is in the list of its request once or about to be
   resumed, and that request has a deadline ahead. *)
NoWaiterForgotten ==
  /\ which = "select" => Select!NoWaiterForgotten
  /\ which = "select2" => Select2!NoWaiterForgotten
  /\ which = "epoll" => Epoll!NoWaiterForgotten
  /\ which = "poll" => Poll!NoWaiterForgotten
  /\ which = "resolver" => Resolver!WaitersAreKnown

(* TResolver: whoever is about to be resumed finds addresses of its own request
   or an exception, though answers are late, come twice or overtake each
   other. *)
AnswerIsForRequest == which = "resolver" => Resolver!AnswerIsForRequest

(* Nobody sleeps on what it should have sent: TSslSocket waits for the server only
   when all that OpenSSL made is sent; TResolver's sender does not sleep while
   requests wait, and no call resumes it inside its write. *)
NothingHeldBack ==
  /\ which = "ssl" => Ssl!FlushedBeforeWait
  /\ which = "resolver" => Resolver!SenderInStep

(* TSslSocket: the server gets the bytes in the order OpenSSL made them. *)
WireInOrder == which = "ssl" => Ssl!WireInOrder

(* What can end does: a reader whose data has come is resumed and takes it, unless a
   signal has made Poll() throw; every
   Resolve() returns, even if no datagram arrives or a task has ended with an
   exception; TSslSocket's Connect() returns, and a write when the server takes
   the bytes, whatever it sends. *)
CallsReturn ==
  /\ \A f \in {1, 2} : (Looping /\ Select!Overdue(f))
                           ~> (Looping /\ (\/ ~Select!Overdue(f) \/ fd[f] # "open"
                                           \/ pc = "interrupted"))
  /\ \A c \in Clients : (which = "resolver" /\ ~Resolver!Returned(c))
                          ~> (which = "resolver" /\ Resolver!Returned(c))
  /\ <>(which = "ssl" => Ssl!ConnectReturned)
  /\ (which = "ssl" /\ Ssl!Writing(Main)) ~> (which = "ssl" /\ Ssl!Returned(Main))
=============================================================================
