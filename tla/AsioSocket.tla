----------------------------- MODULE AsioSocket -----------------------------
(***************************************************************************)
(* AsioSocket.hpp: the transport of the awaitable client over Asio, plain  *)
(* or TLS, used by two coroutines of one executor as the client does: the  *)
(* reader reads, the writer writes, and either may close.                  *)
(*                                                                         *)
(* co_await (op || timer) is a parallel group: both are started, the first *)
(* whose handler runs decides the index and cancels the other one, and the *)
(* coroutine resumes when both handlers have run.  Cancelling a pending    *)
(* operation makes its handler run with operation_aborted; one that has    *)
(* completed keeps its result.                                             *)
(***************************************************************************)
EXTENDS Naturals, FiniteSets

CONSTANTS
  MaxBytes,   (* bytes the server sends *)
  Polls       (* TRUE: the reader waits with can_read() and reads only then *)

Coroutines == {"reader", "writer"}

VARIABLES
  tls,        (* SocketType is asio::ssl::stream *)
  fd,         (* the descriptor: open or closed *)
  fin,        (* the TCP connection was shut down before that *)
  closed,     (* the client's closed_ *)
  sent,       (* bytes the server has sent, and whether it has ended its stream *)
  net, bio,   (* bytes in the kernel, and in the TLS engine's own buffer *)
  taken, got, (* bytes that reads have taken, and those returned to the reader *)
  call,       (* what each coroutine is doing *)
  res,        (* how its last read or write ended, and whether close() threw *)
  saw         (* what can_read() has told the reader *)

vars == <<tls, fd, fin, closed, sent, net, bio, taken, got, call, res, saw>>

(* op, tm: the operation and the timer wait; ec, n: the operation's result;
   won: whose handler ran first; expired: the call's Timeout has run out *)
Idle == [pc |-> "idle", op |-> "none", ec |-> "none", n |-> 0, tm |-> "none",
         won |-> "none", expired |-> FALSE]

Init ==
  /\ tls \in BOOLEAN
  /\ fd = "open" /\ fin = FALSE /\ closed = FALSE
  /\ sent = [n |-> 0, eof |-> FALSE] /\ net = 0 /\ bio = 0
  /\ taken = 0 /\ got = 0
  /\ call = [c \in Coroutines |-> Idle]
  /\ res = [c \in Coroutines |-> "none"]
  /\ saw = "none"

-----------------------------------------------------------------------------
(* Asio *)

Aborted(k) == [k EXCEPT !.op = "queued", !.ec = "aborted"]

(* socket.cancel(): operations that wait for the descriptor are aborted.  A
   composed one (async_write, and a TLS read to which bytes have come) may be
   between two of its parts and then goes on. *)
Composed(k) == k.pc \in {"write", "closeframe"} \/ (tls /\ net > 0)
Cancelled(calls, others) ==
  {f \in [Coroutines -> UNION {{calls[c], Aborted(calls[c])} : c \in Coroutines}] :
     \A c \in Coroutines :
       \/ f[c] = Aborted(calls[c]) /\ c \in others /\ calls[c].op = "pending"
       \/ f[c] = calls[c] /\ (c \notin others \/ calls[c].op # "pending" \/ Composed(calls[c]))}

(* socket.close() aborts them all. *)
Closed(calls) == [c \in Coroutines |-> IF calls[c].op = "pending" THEN Aborted(calls[c])
                                       ELSE calls[c]]

(* Mutant: one timer for both directions. *)
TimerMutant(pc) == IF pc \in {"read", "write", "closeframe"} THEN "read_timer_" ELSE pc

(* which timer a call waits for *)
Timer(pc) == CASE pc = "read" -> "read_timer_"
               [] pc \in {"write", "closeframe"} -> "write_timer_"
               [] OTHER -> pc

(* timer.expires_after(timeout.remaining()) cancels the waits on that timer. *)
Rearmed(calls, c, pc) ==
  [d \in Coroutines |->
     IF d # c /\ calls[d].tm = "armed" /\ Timer(calls[d].pc) = Timer(pc)
     THEN [calls[d] EXCEPT !.tm = "queued"] ELSE calls[d]]

(* co_await (op || timer); an operation on a closed socket fails at once. *)
Group(calls, c, k) ==
  [Rearmed(calls, c, k.pc) EXCEPT
     ![c] = [k EXCEPT !.op = IF fd = "closed" THEN "queued" ELSE "pending",
                      !.ec = IF fd = "closed" THEN "error" ELSE "none",
                      !.n = 0, !.tm = "armed", !.won = "none"]]

(* The operation of c completes: with bytes for a read, or with an error. *)
Complete(c) ==
  LET k == call[c]
      Done(ec, n) == call' = [call EXCEPT ![c].op = "queued", ![c].ec = ec, ![c].n = n]
  IN
  /\ k.op = "pending"
  /\ \/ /\ k.pc = "read" /\ net + bio > 0
        /\ \E n \in 1..(net + bio) :
             /\ tls \/ n <= net
             /\ taken' = taken + n
             /\ net' = IF tls THEN 0 ELSE net - n
             /\ bio' = IF tls THEN net + bio - n ELSE 0
             /\ Done("none", n)
     \/ /\ k.pc = "read" /\ sent.eof /\ net + bio = 0
        /\ Done("eof", 0) /\ UNCHANGED <<taken, net, bio>>
     \/ /\ k.pc \in {"write", "closeframe"}
        /\ \E ec \in {"none", "error"} : Done(ec, 0)
        /\ UNCHANGED <<taken, net, bio>>
     \/ /\ k.pc = "sslshut" /\ sent.eof
        /\ \E ec \in {"none", "eof", "error"} : Done(ec, 0)
        /\ UNCHANGED <<taken, net, bio>>
  /\ UNCHANGED <<tls, fd, fin, closed, sent, got, res, saw>>

Expire(c) ==
  /\ call[c].pc # "idle" /\ ~call[c].expired
  /\ call' = [call EXCEPT ![c].expired = TRUE]
  /\ UNCHANGED <<tls, fd, fin, closed, sent, net, bio, taken, got, res, saw>>

Fire(c) ==
  /\ call[c].tm = "armed" /\ call[c].expired
  /\ call' = [call EXCEPT ![c].tm = "queued"]
  /\ UNCHANGED <<tls, fd, fin, closed, sent, net, bio, taken, got, res, saw>>

(* The first handler of a group cancels the other operation. *)
FirstHandler(c) ==
  /\ call[c].won = "none"
  /\ \/ /\ call[c].op = "queued"
        /\ call' = [call EXCEPT ![c].op = "done", ![c].won = "op",
                                ![c].tm = IF @ = "armed" THEN "queued" ELSE @]
     \/ /\ call[c].tm = "queued"
        /\ call' = [call EXCEPT
             ![c] = [IF @.op = "pending" THEN Aborted(@) ELSE @
                       EXCEPT !.tm = "done", !.won = "timer"]]
  /\ UNCHANGED <<tls, fd, fin, closed, sent, net, bio, taken, got, res, saw>>

(* With the handler of the other one, the coroutine resumes. *)
Resumes(c) ==
  /\ call[c].won # "none"
  /\ call[c].op \in {"queued", "done"} /\ call[c].tm \in {"queued", "done"}

-----------------------------------------------------------------------------
(* The server *)

ServerSends ==
  /\ ~sent.eof
  /\ \/ /\ sent.n < MaxBytes /\ net' = net + 1
        /\ sent' = [sent EXCEPT !.n = @ + 1]
     \/ sent' = [sent EXCEPT !.eof = TRUE] /\ net' = net
  /\ UNCHANGED <<tls, fd, fin, closed, bio, taken, got, call, res, saw>>

-----------------------------------------------------------------------------
(* The client's calls *)

MayCall == ~closed /\ \A c \in Coroutines : res[c] \in {"none", "ok"}

(* can_read(): available() of a plain socket; SSL_peek of a TLS one, whose
   engine sees only what earlier reads have put into it.  Neither sees the
   end of the stream. *)
Readable == IF tls THEN bio > 0 ELSE net > 0
can_read ==
  /\ call["reader"].pc = "idle" /\ MayCall
  /\ saw' = IF Readable THEN "yes" ELSE "no"
  /\ UNCHANGED <<tls, fd, fin, closed, sent, net, bio, taken, got, call, res>>

read_some ==
  /\ call["reader"].pc = "idle" /\ MayCall
  /\ Polls => saw = "yes"
  /\ saw' = "none"
  /\ call' = Group(call, "reader", [Idle EXCEPT !.pc = "read"])
  /\ UNCHANGED <<tls, fd, fin, closed, sent, net, bio, taken, got, res>>

NobodyWrites == \A c \in Coroutines : call[c].pc \notin {"write", "closeframe"}

write_some ==
  /\ call["writer"].pc = "idle" /\ MayCall /\ NobodyWrites
  /\ call' = Group(call, "writer", [Idle EXCEPT !.pc = "write"])
  /\ UNCHANGED <<tls, fd, fin, closed, sent, net, bio, taken, got, res, saw>>

(* Mutant: a cancelled operation counts as one that would block. *)
OutcomeMutant(k) == CASE k.won = "timer" -> "timeout"
                      [] k.won # "timer" /\ k.ec \in {"error", "eof"} -> "error"
                      [] OTHER -> "ok"

(* the outcome analysis of read_some and write_some *)
Outcome(k) == CASE k.won = "timer" -> "timeout"
                [] k.won # "timer" /\ k.ec = "aborted" -> "cancelled"
                [] k.won # "timer" /\ k.ec \in {"error", "eof"} -> "error"
                [] OTHER -> "ok"

(* A read that has succeeded may be a part of what read_exact wants: it goes
   on with the next read_some, and does not look at closed_. *)
read_some_end ==
  LET k == call["reader"] r == Outcome(k) IN
  /\ k.pc = "read" /\ Resumes("reader")
  /\ res' = [res EXCEPT !["reader"] = r]
  /\ got' = IF r = "ok" THEN got + k.n ELSE got
  /\ \/ call' = [call EXCEPT !["reader"] = Idle]
     \/ r = "ok" /\ call' = Group(call, "reader", k)
  /\ UNCHANGED <<tls, fd, fin, closed, sent, net, bio, taken, saw>>

write_some_end ==
  LET k == call["writer"] IN
  /\ k.pc = "write" /\ Resumes("writer")
  /\ res' = [res EXCEPT !["writer"] = Outcome(k)]
  /\ call' = [call EXCEPT !["writer"] = Idle]
  /\ UNCHANGED <<tls, fd, fin, closed, sent, net, bio, taken, got, saw>>

-----------------------------------------------------------------------------
(* close() of the client: the close frame, shutdown(), close() *)

Others(c) == Coroutines \ {c}

(* The TCP shutdown or not, then close(), with no wait between them *)
close_socket(c, calls, shut) ==
  /\ fin' = shut
  /\ fd' = "closed"
  /\ call' = [Closed(calls) EXCEPT ![c] = Idle]
  /\ UNCHANGED res

(* shutdown(fail_connection): cancel() throws on a socket that is not open;
   what follows is the SSL shutdown, or the TCP shutdown, or close() alone. *)
shutdown(c, fail) ==
  /\ closed' = TRUE
  /\ \/ /\ fd = "closed"
        /\ res' = [res EXCEPT ![c] = "threw"]
        /\ call' = [call EXCEPT ![c] = Idle]
        /\ UNCHANGED <<fd, fin>>
     \/ /\ fd # "closed"
        /\ \E calls \in Cancelled(call, Others(c)) :
             IF tls /\ ~fail
             THEN /\ call' = Group(calls, c, [call[c] EXCEPT !.pc = "sslshut"])
                  /\ UNCHANGED <<fd, fin, res>>
             ELSE close_socket(c, calls, ~fail)

close(c) ==
  /\ call[c].pc = "idle" /\ ~closed
  /\ \/ shutdown(c, TRUE) /\ UNCHANGED <<tls, sent, net, bio, taken, got, saw>>
     \/ /\ MayCall /\ NobodyWrites
        /\ call' = Group(call, c, [Idle EXCEPT !.pc = "closeframe"])
        /\ UNCHANGED <<tls, fd, fin, closed, sent, net, bio, taken, got, res, saw>>

(* The close frame is out, or the connection is failed. *)
close_frame_end(c) ==
  /\ call[c].pc = "closeframe" /\ Resumes(c)
  /\ shutdown(c, Outcome(call[c]) # "ok")
  /\ UNCHANGED <<tls, sent, net, bio, taken, got, saw>>

(* After the SSL shutdown an error other than eof, the aborted operation of
   a timeout among them, skips the TCP shutdown; the client then closes. *)
ssl_shutdown_end(c) ==
  /\ call[c].pc = "sslshut" /\ Resumes(c)
  /\ close_socket(c, call, call[c].ec \in {"none", "eof"})
  /\ UNCHANGED <<tls, closed, sent, net, bio, taken, got, saw>>

-----------------------------------------------------------------------------

Step(c) ==
  \/ Complete(c) \/ Fire(c) \/ FirstHandler(c)
  \/ c = "reader" /\ read_some_end
  \/ c = "writer" /\ write_some_end
  \/ close_frame_end(c) \/ ssl_shutdown_end(c)

Next ==
  \/ ServerSends \/ can_read \/ read_some \/ write_some
  \/ \E c \in Coroutines : close(c) \/ Expire(c) \/ Step(c)

(* The executor runs what is ready, time passes, and a user who polls does
   so again and again. *)
Spec ==
  /\ Init /\ [][Next]_vars
  /\ \A c \in Coroutines : WF_vars(Step(c)) /\ WF_vars(Expire(c))
  /\ WF_vars(can_read)

-----------------------------------------------------------------------------

(* Whatever the timer, the peer and a close() of the other coroutine do while
   a read is pending, the reader misses no byte unless its call has failed,
   and a read that succeeds returns something. *)
NothingLostSilently ==
  /\ res["reader"] \in {"none", "ok"} /\ call["reader"].pc # "read" => got = taken
  /\ call["reader"].pc = "read" /\ Resumes("reader") /\ Outcome(call["reader"]) = "ok"
       => call["reader"].n > 0

(* A call reports a timeout only when its own timeout has expired: the timer
   of one direction is not disturbed by a call of the other. *)
TimeoutIsReal ==
  \A c \in Coroutines : Resumes(c) /\ call[c].won = "timer" => call[c].expired

(* The call of coroutine c has returned. *)
Returned(c) == call[c].pc = "idle"

(* shutdown() is "Safe to call multiple times": the client's close() of one
   coroutine may call it after that of the other one has closed the socket,
   and it does not throw. *)
ShutdownIsSafe == \A c \in Coroutines : res[c] # "threw"

(* shutdown() is there "to ensure all ASIO operations are cancelled before
   closing the socket": none is pending when close() follows the graceful
   shutdown of a TLS stream. *)
NothingPendingAtClose ==
  [][\A c \in Coroutines :
       call[c].pc = "sslshut" /\ fd # "closed" /\ fd' = "closed"
         => \A d \in Others(c) : call[d].op # "pending"]_vars

(* "check if timed out (ignore error)": an SSL shutdown that times out does
   not keep shutdown() from shutting the TCP connection down. *)
TimeoutIsIgnored ==
  [][\A c \in Coroutines :
       call[c].pc = "sslshut" /\ call[c].won = "timer" /\ fd # "closed" /\ fd' = "closed"
         /\ call'[c].pc = "idle" => fin']_vars

(* can_read() "checks for actual application data": data the server has sent
   on an open connection is seen sooner or later by a reader that polls. *)
DataIsSeen ==
  (net > 0 /\ ~closed /\ call["reader"].pc = "idle")
     ~> (saw # "no" \/ closed \/ res["writer"] \notin {"none", "ok"} \/ sent.eof)
=============================================================================
