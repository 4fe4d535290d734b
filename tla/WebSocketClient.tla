--------------------------- MODULE WebSocketClient ---------------------------
(***************************************************************************)
(* WebSocketClient.hpp: one client object, the calls its user makes, the   *)
(* frames a server sends it, and a transport that may fail at every I/O.   *)
(*                                                                         *)
(* A step ends where the code calls the buffered socket, so that a failure *)
(* (error, peer gone, timeout) can hit each of these calls.  The server    *)
(* is unconstrained: every frame of Frame may arrive next, malformed ones  *)
(* included.  The user keeps the contract of the class comment: after an   *)
(* error or a close frame the next call is close(), after an error with    *)
(* the error's close_with_code.                                            *)
(*                                                                         *)
(* Payload bytes are numbered by their place in the message, 1, 2, 3, ..., *)
(* over all its frames; a byte that went through inflate carries the       *)
(* negative number and memory that was appended but not filled is 0.       *)
(***************************************************************************)
EXTENDS Integers, Sequences

CONSTANTS
  BufMax,      (* max_size() of the Buffer the user passes to read_message *)
  DecMax,      (* max_size() of the decompression buffer *)
  Sizes,       (* payload sizes the server uses *)
  MaxControl,  (* largest payload of a control frame, 125 in the code *)
  Faults,      (* which of the rare failures below happen *)
  UserClears   (* whether the user clears its Buffer after every read, as
                  the BufferClearGuard does *)

ASSUME SizesAssumption ==
  /\ BufMax \in Nat /\ DecMax \in Nat /\ MaxControl \in Nat
  /\ Sizes \subseteq Nat
  /\ Faults \subseteq {"handshake", "close"}
  /\ UserClears \in BOOLEAN

VARIABLES
  closed,    (* closed_ *)
  pmd,       (* permessage_deflate_ctx_ has a value *)
  rs,        (* read_state_ *)
  buf,       (* the user's message Buffer *)
  dec,       (* the decompression buffer of the deflate context *)
  sock,      (* the underlying socket: open, shut down or closed *)
  pc,        (* where the call in progress is, "idle" between calls *)
  frame,     (* frame whose header read_frame returned last *)
  wr,        (* frame being written: its opcode, rsv1, and whether it has a
                payload; fail_conn of close() *)
  expired,   (* timeout.is_expired() of the call in progress *)
  res,       (* what the last call returned, nothing while one is in progress *)
  must,      (* what the contract leaves the user: "free", or to call close
                with "any" code or with the code the error names *)
  hs,        (* handshake: not called, failed, done *)
  out,       (* history: what the server has got, whole frames ("whole"),
                half a frame ("torn"), a final close frame ("ended"), or
                bytes that follow one of the latter ("garbage") *)
  rfc,       (* history: the message the server is sending, as its frames
                define it *)
  due,       (* history: a whole message was received, not yet returned *)
  ahead      (* history: our deflate stream contains a message that the
                server has not received completely *)

vars == <<closed, pmd, rs, buf, dec, sock, pc, frame, wr, expired, res, must,
          hs, out, rfc, due, ahead>>

DataOps == {"text", "binary", "continuation"}
ControlOps == {"close", "ping", "pong"}

(* A frame header as read_frame decodes it.  Every opcode without a meaning
   is "reserved"; rsv23 is RSV2 or RSV3. *)
Frame == [op : DataOps \cup ControlOps \cup {"reserved"}, fin : BOOLEAN,
          rsv1 : BOOLEAN, rsv23 : BOOLEAN, masked : BOOLEAN, size : Sizes]
NoFrame == [op |-> "none", fin |-> FALSE, rsv1 |-> FALSE, rsv23 |-> FALSE,
            masked |-> FALSE, size |-> 0]

(* close_code, in the classes close() tells apart *)
Codes == {"normal", "not_set", "failing"}

Nothing == [kind |-> "none", type |-> "none", data |-> <<>>]
Ok == [kind |-> "ok", type |-> "none", data |-> <<>>]
Control(op) == [kind |-> "control", type |-> op, data |-> <<>>]
Received(type, data) == [kind |-> "message", type |-> type, data |-> data]
WSError(code) == [kind |-> "error", type |-> code, data |-> <<>>]

Reset == [is_first |-> TRUE, is_compressed |-> FALSE, op_code |-> "not_set"]
NoWrite == [op |-> "none", rsv1 |-> FALSE, body |-> FALSE, fail_conn |-> FALSE]

(* Bytes a+1 to a+n of a message; what inflate makes of bytes; bytes that
   were appended but never read. *)
Bytes(a, n) == [i \in 1..n |-> a + i]
Inflated(s) == [i \in 1..Len(s) |-> 0 - s[i]]
Junk(n) == [i \in 1..n |-> 0]

-----------------------------------------------------------------------------

Init ==
  /\ closed = TRUE /\ pmd = FALSE /\ rs = Reset
  /\ buf = <<>> /\ dec = <<>>
  /\ sock = "open" /\ hs = "new"
  /\ pc = "idle" /\ frame = NoFrame /\ wr = NoWrite /\ expired = FALSE
  /\ res = Nothing /\ must = "free"
  /\ out = "whole" /\ due = FALSE /\ ahead = FALSE
  /\ rfc = [open |-> FALSE, type |-> "none", z |-> FALSE, len |-> 0]

(* The call in progress returns r.  An error obliges the user to close with
   the code it carries, a close frame to close. *)
Return(r) ==
  /\ pc' = "idle"
  /\ res' = r
  /\ frame' = NoFrame
  /\ wr' = NoWrite
  /\ must' = IF r.kind = "error" THEN r.type
             ELSE IF r.kind = "control" /\ r.type = "close" THEN "any"
             ELSE must

(* A call that finds the client closed returns without doing anything. *)
Refuse ==
  /\ res' = WSError("not_set")
  /\ UNCHANGED <<closed, pmd, rs, buf, dec, sock, pc, frame, wr, expired, must,
                 hs, out, rfc, due, ahead>>

(* The user starts a call that runs with a timeout of its own. *)
Begin(label) ==
  /\ pc' = label
  /\ expired' = FALSE
  /\ res' = Nothing

(* Time passes during a call. *)
Expire ==
  /\ pc # "idle" /\ ~expired
  /\ expired' = TRUE
  /\ UNCHANGED <<closed, pmd, rs, buf, dec, sock, pc, frame, wr, res, must, hs,
                 out, rfc, due, ahead>>

-----------------------------------------------------------------------------
(* handshake *)

handshake ==
  /\ pc = "idle" /\ hs = "new" /\ closed
  /\ Begin("handshake")
  /\ UNCHANGED <<closed, pmd, rs, buf, dec, sock, frame, wr, must, hs, out, rfc, due,
                 ahead>>

(* Request written, response read and accepted, compression set up if the
   server agreed: only now is the client open. *)
handshake_done ==
  /\ pc = "handshake"
  /\ pmd' \in BOOLEAN
  /\ closed' = FALSE
  /\ hs' = "done"
  /\ Return(Ok)
  /\ UNCHANGED <<rs, buf, dec, sock, expired, out, rfc, due, ahead>>

(* Any of its steps fails; the deflate context may be there already. *)
handshake_failed ==
  /\ pc = "handshake" /\ "handshake" \in Faults
  /\ pmd' \in BOOLEAN
  /\ hs' = "failed"
  /\ Return(WSError("not_set"))
  /\ UNCHANGED <<closed, rs, buf, dec, sock, expired, out, rfc, due, ahead>>

-----------------------------------------------------------------------------
(* wait_message, read_message *)

wait_message ==
  /\ pc = "idle" /\ must = "free"
  /\ \/ closed /\ Refuse
     \/ /\ ~closed
        /\ Begin("wait")
        /\ UNCHANGED <<closed, pmd, rs, buf, dec, sock, frame, wr, must, hs, out,
                       rfc, due, ahead>>

(* readable, timeout (which is no error here), or failure *)
wait_message_done ==
  /\ pc = "wait"
  /\ \E r \in {Ok, Nothing, WSError("not_set")} : Return(r)
  /\ UNCHANGED <<closed, pmd, rs, buf, dec, sock, expired, hs, out, rfc, due, ahead>>

read_message ==
  /\ pc = "idle" /\ must = "free"
  /\ \/ closed /\ Refuse
     \/ /\ ~closed
        /\ Begin("loop")
        /\ buf' = IF UserClears THEN <<>> ELSE buf
        /\ UNCHANGED <<closed, pmd, rs, dec, sock, frame, wr, must, hs, out, rfc,
                       due, ahead>>

(* Mutant: reserved opcodes are let through. *)
BadHeaderMutant(f) == (~f.fin /\ f.op = "close") \/ f.masked

(* What read_frame and the check after it refuse: a fragmented close frame,
   a masked frame, a reserved opcode. *)
BadHeader(f) ==
  \/ ~f.fin /\ f.op = "close"
  \/ f.masked
  \/ f.op = "reserved"

(* Mutant: the loop does not look at the clock. *)
read_frameMutant ==
  /\ pc = "loop"
  /\ \/ \E f \in Frame :
          \/ BadHeader(f) /\ Return(WSError("failing"))
          \/ ~BadHeader(f) /\ frame' = f /\ pc' = "dispatch" /\ UNCHANGED <<wr, res, must>>
     \/ Return(WSError("not_set"))
  /\ UNCHANGED <<closed, pmd, rs, buf, dec, sock, expired, hs, out, rfc, due, ahead>>

(* while (!timeout.is_expired()): the header of the next frame, or the time
   is up, or the socket fails *)
read_frame ==
  /\ pc = "loop"
  /\ \/ expired /\ Return(WSError("not_set"))
     \/ /\ ~expired
        /\ \E f \in Frame :
             \/ BadHeader(f) /\ Return(WSError("failing"))
             \/ /\ ~BadHeader(f)
                /\ frame' = f
                /\ pc' = "dispatch"
                /\ UNCHANGED <<wr, res, must>>
     \/ ~expired /\ Return(WSError("not_set"))
  /\ UNCHANGED <<closed, pmd, rs, buf, dec, sock, expired, hs, out, rfc, due, ahead>>

(* handle_control_frame: what is wrong with the frame itself *)
BadControl ==
  \/ ~frame.fin
  \/ frame.rsv1 \/ frame.rsv23
  \/ frame.size > MaxControl
  \/ frame.op = "close" /\ frame.size = 1

(* A control frame is returned to the user at once, in the middle of a
   fragmented message too, unless its payload cannot be read or a close
   frame has an invalid code (1002) or reason (1007). *)
handle_control_frame ==
  /\ pc = "dispatch" /\ frame.op \in ControlOps
  /\ \/ BadControl /\ Return(WSError("failing"))
     \/ ~BadControl /\ Return(Control(frame.op))
     \/ ~BadControl /\ frame.size > 0 /\ Return(WSError("not_set"))
     \/ ~BadControl /\ frame.size > 0 /\ frame.op = "close" /\ Return(WSError("failing"))
  /\ UNCHANGED <<closed, pmd, rs, buf, dec, sock, expired, hs, out, rfc, due, ahead>>

(* buffer.clear() on the first frame of a message *)
Cleared == IF rs.is_first THEN <<>> ELSE buf

(* Mutant: what is buffered is not counted. *)
TooBigMutant == BufMax < frame.size

(* buffer.max_size() - buffer.size() < frame.payload_size *)
TooBig == BufMax - Len(Cleared) < frame.size

(* read_state_ once the header of a data frame has been looked at *)
ReadState ==
  IF rs.is_first
  THEN [is_first |-> FALSE, op_code |-> frame.op,
        is_compressed |-> rs.is_compressed \/ frame.rsv1]
  ELSE rs

(* Mutant: no continuation is insisted on. *)
BadDataMutant ==
  \/ rs.is_first /\ frame.rsv1 /\ ~pmd
  \/ frame.rsv23
  \/ ~rs.is_first /\ frame.rsv1

(* RSV1 without compression, RSV2 or RSV3, a first frame in the middle or a
   flag on a continuation, an opcode that is no data opcode *)
BadData ==
  \/ rs.is_first /\ frame.rsv1 /\ ~pmd
  \/ frame.rsv23
  \/ ~rs.is_first /\ (frame.op # "continuation" \/ frame.rsv1)
  \/ ReadState.op_code \notin DataOps

(* Mutant: the decompression buffer keeps the previous message. *)
DecClearedMutant == dec

(* decompress_buffer().clear() on the first frame of a compressed message *)
DecCleared == IF rs.is_first /\ frame.rsv1 /\ pmd THEN <<>> ELSE dec

(* A data frame up to its payload.  No error restores read_state_. *)
data_frame ==
  /\ pc = "dispatch" /\ frame.op \in DataOps
  /\ buf' = Cleared
  /\ \/ TooBig /\ Return(WSError("failing")) /\ UNCHANGED <<rs, dec>>
     \/ /\ ~TooBig
        /\ rs' = ReadState
        /\ dec' = DecCleared
        /\ \/ BadData /\ Return(WSError("failing"))
           \/ ~BadData /\ pc' = "payload" /\ UNCHANGED <<frame, wr, res, must>>
  /\ UNCHANGED <<closed, pmd, sock, expired, hs, out, rfc, due, ahead>>

(* What the frame is to the message the server is sending: RFC 6455 lets
   only a continuation frame extend a message. *)
Extends == rfc.open /\ frame.op = "continuation"
Payload == Bytes(IF Extends THEN rfc.len ELSE 0, frame.size)
Extended ==
  [open |-> ~frame.fin,
   type |-> IF Extends THEN rfc.type ELSE frame.op,
   z    |-> IF Extends THEN rfc.z ELSE frame.rsv1,
   len  |-> (IF Extends THEN rfc.len ELSE 0) + frame.size]

(* append to the buffer the payload belongs in, then read_exact into what
   was appended; the loop goes on unless the frame was the last one *)
read_payload ==
  /\ pc = "payload"
  /\ IF rs.is_compressed
     THEN /\ frame.size = 0 \/ Len(dec) + frame.size <= DecMax
          /\ dec' = dec \o Payload
          /\ buf' = buf
     ELSE /\ buf' = buf \o Payload
          /\ dec' = dec
  /\ rfc' = Extended
  /\ due' = (due \/ frame.fin)
  /\ frame' = NoFrame
  /\ pc' = IF frame.fin THEN "complete" ELSE "loop"
  /\ UNCHANGED <<closed, pmd, rs, sock, wr, expired, res, must, hs, out, ahead>>

(* append or read_exact fails; what was appended stays *)
read_payload_failed ==
  /\ pc = "payload" /\ frame.size > 0
  /\ IF rs.is_compressed
     THEN /\ dec' = IF Len(dec) + frame.size <= DecMax
                    THEN dec \o Junk(frame.size) ELSE dec
          /\ buf' = buf
     ELSE /\ buf' = buf \o Junk(frame.size)
          /\ dec' = dec
  /\ Return(WSError("not_set"))
  /\ UNCHANGED <<closed, pmd, rs, sock, expired, hs, out, rfc, due, ahead>>

(* The last frame is there, but the time is up: the message is dropped. *)
message_timeout ==
  /\ pc = "complete" /\ expired
  /\ Return(WSError("not_set"))
  /\ UNCHANGED <<closed, pmd, rs, buf, dec, sock, expired, hs, out, rfc, due, ahead>>

(* decompress(buffer) appends to the message buffer; on bad data or at a
   buffer limit it fails, and what it has appended so far stays *)
decompress ==
  /\ pc = "complete" /\ ~expired /\ rs.is_compressed
  /\ \/ /\ Len(buf) + Len(dec) <= BufMax
        /\ buf' = buf \o Inflated(dec)
        /\ pc' = "deliver"
        /\ UNCHANGED <<frame, wr, res, must>>
     \/ /\ \E n \in 0..(BufMax - Len(buf)) : buf' = buf \o Junk(n)
        /\ Return(WSError("not_set"))
  /\ UNCHANGED <<closed, pmd, rs, dec, sock, expired, hs, out, rfc, due, ahead>>

(* A text or binary message is returned and read_state_ reset; text must be
   valid UTF-8 (1007); any other opcode is an error. *)
deliver ==
  /\ \/ pc = "deliver"
     \/ pc = "complete" /\ ~expired /\ ~rs.is_compressed
  /\ \/ /\ rs.op_code \in {"text", "binary"}
        /\ Return(Received(rs.op_code, buf))
        /\ rs' = Reset
        /\ due' = FALSE
     \/ /\ rs.op_code # "binary"
        /\ Return(WSError("failing"))
        /\ UNCHANGED <<rs, due>>
  /\ UNCHANGED <<closed, pmd, buf, dec, sock, expired, hs, out, rfc, ahead>>

-----------------------------------------------------------------------------
(* send_message, send_pong_frame, write_frame *)

(* send_message(msg, options) with or without compression, a message with
   or without a payload *)
send_message ==
  /\ pc = "idle" /\ must = "free"
  /\ \/ closed /\ Refuse
     \/ /\ ~closed
        /\ \E op \in {"text", "binary"}, body, compress \in BOOLEAN :
             /\ wr' = [NoWrite EXCEPT !.op = op, !.body = body,
                                      !.rsv1 = pmd /\ compress]
             /\ Begin(IF pmd /\ compress THEN "compress" ELSE "header")
        /\ UNCHANGED <<closed, pmd, rs, buf, dec, sock, frame, must, hs, out, rfc,
                       due, ahead>>

(* Mutant: a message that cannot be compressed is sent as it is. *)
compressMutant ==
  /\ pc = "compress"
  /\ ahead' = TRUE
  /\ \E body, rsv1 \in BOOLEAN : wr' = [wr EXCEPT !.body = body, !.rsv1 = rsv1]
  /\ pc' = "header"
  /\ UNCHANGED <<closed, pmd, rs, buf, dec, sock, frame, expired, res, must, hs,
                 out, rfc, due>>

(* Mutant: compress into the buffer in which the reader collects a message. *)
compressBufferMutant ==
  /\ pc = "compress"
  /\ ahead' = TRUE /\ dec' = <<>>
  /\ \E body \in BOOLEAN : wr' = [wr EXCEPT !.body = body]
  /\ pc' = "header"
  /\ UNCHANGED <<closed, pmd, rs, buf, sock, frame, expired, res, must, hs, out, rfc,
                 due>>

(* compress(msg.data): the deflate state has taken the message in, also
   when the compression buffer then overflows *)
compress ==
  /\ pc = "compress"
  /\ ahead' = TRUE
  /\ \/ /\ \E body \in BOOLEAN : wr' = [wr EXCEPT !.body = body]
        /\ pc' = "header"
        /\ UNCHANGED <<frame, res, must>>
     \/ Return(WSError("not_set"))
  /\ UNCHANGED <<closed, pmd, rs, buf, dec, sock, expired, hs, out, rfc, due>>

send_pong_frame ==
  /\ pc = "idle" /\ must = "free"
  /\ \/ closed /\ Refuse
     \/ /\ ~closed
        /\ \E body \in BOOLEAN : wr' = [NoWrite EXCEPT !.op = "pong", !.body = body]
        /\ Begin("header")
        /\ UNCHANGED <<closed, pmd, rs, buf, dec, sock, frame, must, hs, out, rfc,
                       due, ahead>>

(* What the server has got after some more bytes of ours, which complete
   the frame or not. *)
Sent(complete) ==
  IF out \in {"ended", "garbage"} THEN "garbage"
  ELSE IF out = "torn" /\ pc = "header" THEN "garbage"
  ELSE IF ~complete THEN "torn"
  ELSE IF wr.op = "close" THEN "ended"
  ELSE "whole"

(* write_frame came to an end: send_message and send_pong_frame return its
   result, close() goes on in any case, failing the connection if the close
   frame could not be sent. *)
FrameWritten ==
  \/ /\ wr.op = "close"
     /\ pc' = "shutdown"
     /\ UNCHANGED <<frame, wr, res, must>>
  \/ /\ wr.op # "close"
     /\ Return(Ok)

(* Mutant: send_message and send_pong_frame ignore a failed write. *)
FrameFailedMutant ==
  \/ /\ wr.op = "close"
     /\ pc' = "shutdown"
     /\ wr' = [wr EXCEPT !.fail_conn = TRUE]
     /\ UNCHANGED <<frame, res, must>>
  \/ /\ wr.op # "close"
     /\ Return(Ok)

FrameFailed ==
  \/ /\ wr.op = "close"
     /\ pc' = "shutdown"
     /\ wr' = [wr EXCEPT !.fail_conn = TRUE]
     /\ UNCHANGED <<frame, res, must>>
  \/ /\ wr.op # "close"
     /\ Return(WSError("not_set"))

(* socket_.write(header) *)
write_header ==
  /\ pc = "header"
  /\ out' = Sent(~wr.body)
  /\ ahead' = (ahead /\ ~(wr.rsv1 /\ ~wr.body))
  /\ \/ wr.body /\ pc' = "body" /\ UNCHANGED <<frame, wr, res, must>>
     \/ ~wr.body /\ FrameWritten
  /\ UNCHANGED <<closed, pmd, rs, buf, dec, sock, expired, hs, rfc, due>>

(* socket_.write(payload), masked in place *)
write_body ==
  /\ pc = "body"
  /\ out' = Sent(TRUE)
  /\ ahead' = (ahead /\ ~wr.rsv1)
  /\ FrameWritten
  /\ UNCHANGED <<closed, pmd, rs, buf, dec, sock, expired, hs, rfc, due>>

(* write fails, after none or some of its bytes were accepted *)
write_failed ==
  /\ pc \in {"header", "body"}
  /\ out' \in {out, Sent(FALSE)}
  /\ FrameFailed
  /\ UNCHANGED <<closed, pmd, rs, buf, dec, sock, expired, hs, rfc, due, ahead>>

-----------------------------------------------------------------------------
(* close *)

(* Mutant: an error's close code does not fail the connection. *)
FailsConnectionMutant(code) == code = "not_set"

(* The codes for which close() fails the connection. *)
FailsConnection(code) == code \in {"not_set", "failing"}

(* Codes the contract lets the user close with. *)
MayCloseWith(code) == must \in {"free", "any"} \/ must = code

(* close(code): nothing on a closed client; otherwise the close frame, unless
   the connection is to be failed *)
close ==
  /\ pc = "idle"
  /\ \E code \in Codes :
       /\ MayCloseWith(code)
       /\ \/ /\ closed
             /\ res' = Ok
             /\ must' = "free"
             /\ UNCHANGED <<pc, expired, wr>>
          \/ /\ ~closed
             /\ Begin(IF FailsConnection(code) THEN "shutdown" ELSE "header")
             /\ wr' = [NoWrite EXCEPT !.op = "close", !.body = TRUE,
                                      !.fail_conn = FailsConnection(code)]
             /\ UNCHANGED must
  /\ UNCHANGED <<closed, pmd, rs, buf, dec, sock, frame, hs, out, rfc, due, ahead>>

(* Mutant: closed_ is set only after the socket was closed successfully, and
   the shutdown comes first. *)
shutdownMutant ==
  /\ pc = "shutdown"
  /\ sock' = "shut"
  /\ pc' = "sockclose"
  /\ UNCHANGED <<closed, pmd, rs, buf, dec, frame, wr, expired, res, must, hs, out,
                 rfc, due, ahead>>

(* closed_ = true, then shutdown() of the socket, whose errors are ignored *)
shutdown ==
  /\ pc = "shutdown"
  /\ closed' = TRUE
  /\ sock' = "shut"
  /\ pc' = "sockclose"
  /\ UNCHANGED <<pmd, rs, buf, dec, frame, wr, expired, res, must, hs, out, rfc, due,
                 ahead>>

(* close() of the socket, whose error is returned *)
socket_close ==
  /\ pc = "sockclose"
  /\ pc' = "idle" /\ frame' = NoFrame /\ wr' = NoWrite /\ must' = "free"
  /\ \/ sock' = "closed" /\ res' = Ok
     \/ "close" \in Faults /\ sock' = sock /\ res' = WSError("not_set")
  /\ UNCHANGED <<closed, pmd, rs, buf, dec, expired, hs, out, rfc, due, ahead>>

-----------------------------------------------------------------------------

Call ==
  \/ handshake \/ wait_message \/ read_message
  \/ send_message \/ send_pong_frame \/ close

Step ==
  \/ handshake_done \/ handshake_failed
  \/ wait_message_done
  \/ read_frame \/ handle_control_frame \/ data_frame
  \/ read_payload \/ read_payload_failed \/ message_timeout \/ decompress \/ deliver
  \/ compress \/ write_header \/ write_body \/ write_failed
  \/ shutdown \/ socket_close

Next == Call \/ Step \/ Expire

Spec == Init /\ [][Next]_vars

(* A call in progress goes on, because every socket operation it makes
   returns by its timeout, and the clock runs. *)
FairSpec == Spec /\ WF_vars(Step) /\ WF_vars(Expire)

-----------------------------------------------------------------------------

Labels == {"idle", "handshake", "wait", "loop", "dispatch", "payload", "complete",
           "deliver", "compress", "header", "body", "shutdown", "sockclose"}

ReadStates == [is_first : BOOLEAN, is_compressed : BOOLEAN,
               op_code : DataOps \cup {"not_set"}]
Writes == [op : {"none", "text", "binary", "pong", "close"}, rsv1 : BOOLEAN,
           body : BOOLEAN, fail_conn : BOOLEAN]
Results == [kind : {"none", "ok", "control", "message", "error"},
            type : DataOps \cup ControlOps \cup Codes \cup {"none"},
            data : Seq(Int)]
Messages == [open : BOOLEAN, type : DataOps \cup {"none"}, z : BOOLEAN, len : Nat]

TypeOK ==
  /\ closed \in BOOLEAN /\ pmd \in BOOLEAN
  /\ rs \in ReadStates
  /\ buf \in Seq(Int) /\ dec \in Seq(Int)
  /\ sock \in {"open", "shut", "closed"}
  /\ pc \in Labels
  /\ \/ frame = NoFrame
     \/ frame \in Frame /\ frame.op # "reserved" /\ ~frame.masked
  /\ wr \in Writes
  /\ expired \in BOOLEAN
  /\ res \in Results
  /\ must \in {"free", "any"} \cup Codes
  /\ hs \in {"new", "failed", "done"}
  /\ out \in {"whole", "torn", "ended", "garbage"}
  /\ rfc \in Messages
  /\ due \in BOOLEAN /\ ahead \in BOOLEAN

(* The payload of the message that the server's frames define. *)
MessageBytes == IF rfc.z THEN Inflated(Bytes(0, rfc.len)) ELSE Bytes(0, rfc.len)

(* A message that read_message returns is the one the server sent: the type
   of its first frame and the payloads of all its frames in order, inflated
   exactly if its first frame says so, whatever control frames came between
   its fragments and however many calls of read_message it took. *)
MessageIntegrity ==
  pc = "idle" /\ res.kind = "message" =>
    /\ ~rfc.open
    /\ res.type = rfc.type /\ rfc.type \in {"text", "binary"}
    /\ res.data = MessageBytes

(* As long as the user may go on, no message was received without being
   returned and the deflate streams are in step: the server has got every
   message that went into our deflate state. *)
NothingSkipped == pc = "idle" /\ must \in {"free", "any"} /\ ~closed => ~due /\ ~ahead

(* Between calls read_state_ and the buffers hold the fragments of the
   message in progress, and nothing when there is none. *)
ReadStateInStep ==
  pc = "idle" /\ must \in {"free", "any"} /\ ~closed =>
    /\ rs.is_first <=> ~rfc.open
    /\ rfc.open => /\ rs.op_code = rfc.type
                   /\ rs.is_compressed = rfc.z
                   /\ (IF rfc.z THEN dec ELSE buf) = Bytes(0, rfc.len)

(* The message buffers stay inside the limits their owner set. *)
BuffersBounded == Len(buf) <= BufMax /\ Len(dec) <= DecMax

(* What the server receives is a sequence of whole frames, of which only the
   last may be cut off, and nothing follows a close frame. *)
WireWellFormed == out # "garbage"

(* No socket operation after shutdown() of the socket. *)
NoUseAfterShutdown == pc \notin {"idle", "shutdown", "sockclose"} => sock = "open"

(* "If the client has to fail the connection, it immediately closes the
   connection without sending a CLOSE frame": after an error not one more
   byte is sent. *)
SilentFailure == [][(must \in Codes) => (out' = out)]_vars

(* Every call returns, even if the server goes on sending fragments. *)
CallsReturn == pc # "idle" ~> pc = "idle"

(* close() "closes the underlying socket connection": when it has reported
   success on a client whose handshake was tried, the socket is closed. *)
CloseReleasesSocket ==
  pc = "idle" /\ hs # "new" /\ closed /\ res = Ok => sock = "closed"

(* A BufferClearGuard "is useful for clearing a buffer on every iteration of
   a loop": clearing the Buffer between reads does not harm a message. *)
ClearingIsHarmless == MessageIntegrity
=============================================================================
