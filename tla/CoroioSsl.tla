------------------------------ MODULE CoroioSsl ------------------------------
(***************************************************************************)
(* TSslSocket of coroio (ssl.hpp) as CoroioSocket uses it: OpenSSL works   *)
(* on two memory buffers, and DoIO() carries bytes between them and the    *)
(* socket.  Connect() performs the handshake; then coroutines read and     *)
(* write.  A coroutine runs until it waits for the socket.                 *)
(*                                                                         *)
(* The bytes OpenSSL puts into Wbio are numbered.                          *)
(***************************************************************************)
EXTENDS Naturals, SequencesExt

CONSTANTS
  Main,              (* the coroutine that calls Connect() *)
  Readers, Writers,  (* coroutines that read, and that write *)
  BufSize,           (* DoIO's buffer *)
  Hello, Finished, Record, (* bytes of what OpenSSL makes *)
  MaxBytes,          (* bound on the bytes sent *)
  MaxRecords         (* bound on the server's records *)

Coroutines == {Main} \cup Readers \cup Writers
None == "none"

VARIABLES
  hs,        (* OpenSSL's handshake: start, sent (the hello), done *)
  rwstate,   (* what its last call wants: "reading" or "nothing" *)
  wbio, rbio,(* the memory buffers: bytes, and the server's records *)
  made,      (* bytes made so far *)
  wire,      (* bytes the server has got *)
  net,       (* records of the server in the kernel *)
  room,      (* the socket takes bytes *)
  served,    (* records the server has sent *)
  connected, (* Connect() has returned *)
  task,      (* the coroutines *)
  run,       (* the one that runs *)
  rh, wh     (* the poller's handles for the socket *)

ssl == <<hs, rwstate, wbio, rbio, made>>
kernel == <<wire, net, room, served>>
handles == <<rh, wh>>
vars == <<ssl, kernel, connected, task, run, handles>>

(* pc: the call to make next; ret: where DoIO() returns to; buf: its buffer;
   left: records still to be written *)
Init ==
  /\ hs = "start" /\ rwstate = "nothing" /\ wbio = <<>> /\ rbio = <<>> /\ made = 0
  /\ wire = <<>> /\ net = <<>> /\ room = TRUE /\ served = 0
  /\ task = [c \in Coroutines |->
               [pc |-> IF c = Main THEN "SSL_do_handshake" ELSE "idle", ret |-> "idle",
                buf |-> <<>>, left |-> 0]]
  /\ connected = FALSE /\ run = Main /\ rh = None /\ wh = None

Goto(c, pc) == task' = [task EXCEPT ![c].pc = pc]
DoIOThen(c, ret) == task' = [task EXCEPT ![c].pc = "DoIO", ![c].ret = ret]

Emit(n) == wbio' = wbio \o [i \in 1..n |-> made + i] /\ made' = made + n

-----------------------------------------------------------------------------

(* DoHandshake(): the hello, the server's answer, the end.  Any of it fails. *)
DoHandshake(c) ==
  /\ run = c /\ task[c].pc = "SSL_do_handshake"
  /\ \/ /\ hs = "start" /\ hs' = "sent" /\ rwstate' = "reading"
        /\ Emit(Hello) /\ DoIOThen(c, "SSL_do_handshake") /\ UNCHANGED <<rbio, run>>
     \/ /\ hs = "sent" /\ ~Contains(rbio, "flight") /\ rwstate' = "reading"
        /\ DoIOThen(c, "SSL_do_handshake") /\ UNCHANGED <<hs, rbio, wbio, made, run>>
     \/ /\ hs = "sent" /\ Contains(rbio, "flight") /\ hs' = "done" /\ rwstate' = "nothing"
        /\ rbio' = <<>>
        /\ Emit(Finished) /\ DoIOThen(c, "idle") /\ UNCHANGED run
     \/ /\ rbio # <<>> /\ Goto(c, "failed") /\ run' = None
        /\ UNCHANGED ssl
  /\ UNCHANGED <<kernel, connected, handles>>

(* ReadSome(): a record may hold data, or only something for OpenSSL. *)
FirstData == {i \in DOMAIN rbio : rbio[i] = "data" /\ \A j \in 1..(i - 1) : rbio[j] # "data"}
ReadSome(c) ==
  /\ run = c /\ task[c].pc = "SSL_read"
  /\ \/ /\ FirstData = {} /\ rbio' = <<>> /\ rwstate' = "reading"
        /\ DoIOThen(c, "SSL_read") /\ UNCHANGED run
     \/ \E i \in FirstData :
          /\ rbio' = SubSeq(rbio, i + 1, Len(rbio)) /\ rwstate' = "nothing"
          /\ Goto(c, "idle") /\ run' = None
  /\ UNCHANGED <<hs, wbio, made, kernel, connected, handles>>

WriteSome(c) ==
  /\ run = c /\ task[c].pc = "SSL_write"
  /\ IF task[c].left = 0
     THEN Goto(c, "idle") /\ run' = None /\ UNCHANGED ssl
     ELSE /\ Emit(Record) /\ rwstate' = "nothing"
          /\ task' = [task EXCEPT ![c].left = @ - 1, ![c].pc = "DoIO", ![c].ret = "SSL_write"]
          /\ UNCHANGED <<hs, rbio, run>>
  /\ UNCHANGED <<kernel, connected, handles>>

-----------------------------------------------------------------------------

(* Mutant: only full buffers are sent. *)
FlushedMutant == Len(wbio) < BufSize

(* while (BIO_read(Wbio) > 0): nothing is left to send. *)
Flushed == wbio = <<>>

(* Mutant: once connected, DoIO() reads after a write, too. *)
WantReadMutant == rwstate = "reading" \/ connected

(* SSL_get_error(Ssl, n) == SSL_ERROR_WANT_READ *)
WantRead == rwstate = "reading"

(* DoIO() *)
DoIO(c) ==
  /\ run = c /\ task[c].pc = "DoIO"
  /\ \/ /\ ~Flushed
        /\ LET n == Min({BufSize, Len(wbio)}) IN
           /\ task' = [task EXCEPT ![c].pc = "send", ![c].buf = SubSeq(wbio, 1, n)]
           /\ wbio' = SubSeq(wbio, n + 1, Len(wbio))
        /\ UNCHANGED run
     \/ /\ Flushed /\ WantRead
        /\ Goto(c, "recv") /\ UNCHANGED <<wbio, run>>
     \/ /\ Flushed /\ ~WantRead
        /\ Goto(c, task[c].ret)
        /\ run' = IF task[c].ret = "idle" THEN None ELSE c
        /\ UNCHANGED wbio
  /\ connected' = (connected \/ task'[c].pc = "idle")
  /\ UNCHANGED <<hs, rwstate, rbio, made, kernel, handles>>

(* Mutant: what a partial send leaves over is dropped. *)
RestMutant(buf, n) == <<>>

Rest(buf, n) == SubSeq(buf, n + 1, Len(buf))

(* TByteWriter::Write over TSocket::WriteSome *)
Write(c) ==
  /\ run = c /\ task[c].pc = "send"
  /\ LET buf == task[c].buf IN
     \/ buf = <<>> /\ Goto(c, "DoIO") /\ UNCHANGED <<wire, room, run, wh>>
     \/ /\ buf # <<>> /\ room
        /\ \E n \in DOMAIN buf :
             /\ wire' = wire \o SubSeq(buf, 1, n)
             /\ task' = [task EXCEPT ![c].buf = Rest(buf, n)]
        /\ room' \in BOOLEAN /\ UNCHANGED <<run, wh>>
     \/ buf # <<>> /\ ~room /\ wh' = c /\ run' = None /\ UNCHANGED <<wire, room, task>>
  /\ UNCHANGED <<ssl, net, served, connected, rh>>

(* Socket.ReadSome and BIO_write(Rbio) *)
Read(c) ==
  /\ run = c /\ task[c].pc = "recv"
  /\ \/ /\ net # <<>>
        /\ \E n \in DOMAIN net :
             rbio' = rbio \o SubSeq(net, 1, n) /\ net' = SubSeq(net, n + 1, Len(net))
        /\ Goto(c, task[c].ret) /\ UNCHANGED <<run, rh>>
     \/ net = <<>> /\ rh' = c /\ run' = None /\ UNCHANGED <<rbio, net, task>>
  /\ UNCHANGED <<hs, rwstate, wbio, made, wire, room, served, connected, wh>>

(* The poller resumes the coroutine whose handle it has. *)
Wake ==
  /\ run = None
  /\ \/ rh # None /\ net # <<>> /\ run' = rh /\ rh' = None /\ UNCHANGED wh
     \/ wh # None /\ room /\ run' = wh /\ wh' = None /\ UNCHANGED rh
  /\ UNCHANGED <<ssl, kernel, connected, task>>

(* The next call of a coroutine, once Connect() has returned *)
Start(c) ==
  /\ run = None /\ connected /\ task[c].pc = "idle"
  /\ \/ c \in Readers /\ task' = [task EXCEPT ![c].pc = "SSL_read", ![c].ret = "SSL_read"]
     \/ /\ c \in Writers
        /\ \E n \in 1..2 : /\ made + n * Record <= MaxBytes
                           /\ task' = [task EXCEPT ![c].pc = "SSL_write", ![c].ret = "SSL_write",
                                                   ![c].left = n]
  /\ run' = c
  /\ UNCHANGED <<ssl, kernel, connected, handles>>

(* A call throws, and CoroioSocket reports an error: OpenSSL has found one, or the
   connection has ended, and the socket's read or write says so at once or when
   the poller has resumed the coroutine. *)
Fail(c) ==
  /\ run = c \/ (run = None /\ c \in {rh, wh})
  /\ \/ task[c].pc \in {"SSL_read", "recv"}
     \/ task[c].pc = "SSL_write" /\ task[c].left > 0
     \/ task[c].pc = "send" /\ task[c].buf # <<>>
  /\ Goto(c, "failed") /\ run' = None
  /\ rh' = (IF rh = c THEN None ELSE rh) /\ wh' = (IF wh = c THEN None ELSE wh)
  /\ UNCHANGED <<ssl, kernel, connected>>

-----------------------------------------------------------------------------
(* The server answers the hello, in two records, when it has all of it, then
   sends records when the handshake is complete. *)

Got(n) == Len(wire) >= n
Server ==
  /\ \/ served < 2 /\ Got(Hello)
     \/ served \in 2..(MaxRecords - 1) /\ Got(Hello + Finished)
  /\ served' = served + 1
  /\ \E kind \in CASE served = 0 -> {"part"} [] served = 1 -> {"flight"} [] OTHER -> {"data", "ticket"} :
       net' = Append(net, kind)
  /\ UNCHANGED <<ssl, wire, room, connected, task, run, handles>>

Drain ==
  /\ ~room /\ room' = TRUE
  /\ UNCHANGED <<ssl, wire, net, served, connected, task, run, handles>>

Step(c) == DoHandshake(c) \/ ReadSome(c) \/ WriteSome(c) \/ DoIO(c) \/ Write(c) \/ Read(c)

Next == Wake \/ Server \/ Drain \/ \E c \in Coroutines : Step(c) \/ Fail(c) \/ Start(c)

(* Coroutines and poller go on, the server answers the hello and takes bytes;
   it need not send anything after that. *)
Spec ==
  /\ Init /\ [][Next]_vars
  /\ \A c \in Coroutines : WF_vars(Step(c))
  /\ WF_vars(Wake) /\ WF_vars(Drain) /\ WF_vars(Server /\ served < 2)

-----------------------------------------------------------------------------

(* The server gets the bytes in the order in which OpenSSL made them. *)
WireInOrder == \A i \in DOMAIN wire : wire[i] = i

Waits(c) == run # c /\ task[c].pc = "recv"

(* Whoever waits for the server has sent everything the server may be waiting
   for (DoIO empties Wbio before it reads). *)
FlushedBeforeWait == \A c \in Coroutines : Waits(c) => Len(wire) = made

(* Connect() has returned *)
ConnectReturned == task[Main].pc \in {"idle", "failed"}

(* coroutine c is inside a write, and its call has returned, or thrown *)
Returned(c) == task[c].pc \in {"idle", "failed"}
Writing(c) == task[c].ret = "SSL_write" /\ ~Returned(c)

(* read_message "waits until a message is received": a reader is resumed when
   data has come, also when another coroutine writes at the same time. *)
DataWakesReader ==
  \A c \in Readers : Waits(c) /\ net # <<>> ~> (~Waits(c) \/ net = <<>>)
=============================================================================
