------------------------ MODULE WebSocketClientProofs ------------------------
(***************************************************************************)
(* The safety properties of WebSocketClient, for every limit, every set of *)
(* payload sizes and every choice of failures.                             *)
(*                                                                         *)
(* The inductive invariant has five parts.  Place says where a call can    *)
(* be when the client is open, closed or owes the user an error (Local is  *)
(* the part of it that survives when someone else closes the client); Wire *)
(* what the server has got at each of these places; Counted which messages *)
(* are on their way through the client; Limits what the buffers hold.      *)
(* Reading ties read_state_ and the buffers to the server's message at     *)
(* every place of read_message.                                            *)
(***************************************************************************)
EXTENDS WebSocketClient, SequenceTheorems, TLAPS

(* What the call in progress has to do with the client, whoever closes it. *)
Local ==
  /\ must # "normal"
  /\ must \in Codes => pc \in {"idle", "shutdown", "sockclose"}
  /\ ~closed => hs = "done"
  /\ hs = "new" => must = "free" /\ pc \in {"idle", "handshake"}
  /\ pc = "handshake" => hs = "new"
  /\ pc = "sockclose" => closed
  /\ pc = "dispatch" => frame.op \in DataOps \cup ControlOps
  /\ pc = "payload" => frame.op \in DataOps
  /\ pc = "compress" => wr.rsv1 /\ wr.op # "close"

Place ==
  /\ Local
  /\ ~closed \/ hs = "new" => sock = "open"
  /\ pc \notin {"idle", "handshake", "sockclose"} => ~closed

(* No error is pending and the client is open, or will be. *)
Sound == must \notin Codes /\ (~closed \/ hs = "new")

Wire ==
  /\ out # "garbage"
  /\ Sound /\ pc \notin {"body", "shutdown"} => out = "whole"
  /\ pc = "body" => out = "torn"

Counted ==
  Sound => /\ due => pc \in {"complete", "deliver"}
           /\ ahead => pc \in {"header", "body"} /\ wr.rsv1 /\ wr.op # "close"

Limits ==
  /\ BuffersBounded
  /\ pc = "payload" => Len(buf) + frame.size <= BufMax

(* read_state_ and the buffers have the first n bytes of a message of the
   given type, compressed or not. *)
Holds(type, z, n) ==
  /\ rs.op_code = type
  /\ rs.is_compressed = z
  /\ z => dec = Bytes(0, n) /\ buf = <<>>
  /\ ~z => buf = Bytes(0, n)

InStep ==
  /\ rs.is_first <=> ~rfc.open
  /\ rs.is_first => ~rs.is_compressed
  /\ rfc.open => Holds(rfc.type, rfc.z, rfc.len)

(* What was read is in order: no error is pending, and the client is open or
   a call that reads goes on after someone else closed it. *)
ReadPlaces == {"loop", "dispatch", "payload", "complete", "deliver"}
Readable == must \notin Codes /\ (~closed \/ hs = "new" \/ pc \in ReadPlaces)

Reading ==
  Readable =>
    /\ pc \notin {"payload", "complete", "deliver"} => InStep
    /\ pc = "payload" =>
         /\ ~rs.is_first
         /\ Holds(Extended.type, Extended.z, IF Extends THEN rfc.len ELSE 0)
    /\ pc = "complete" => ~rfc.open /\ Holds(rfc.type, rfc.z, rfc.len)
    /\ pc = "deliver" =>
         /\ ~rfc.open /\ rs.op_code = rfc.type
         /\ buf = MessageBytes

-----------------------------------------------------------------------------
(* Sequences of payload bytes. *)

LEMMA BytesType ==
  ASSUME NEW a \in Int, NEW n \in Nat
  PROVE  Bytes(a, n) \in Seq(Int) /\ Len(Bytes(a, n)) = n
BY DEF Bytes

LEMMA JunkType ==
  ASSUME NEW n \in Nat
  PROVE  Junk(n) \in Seq(Int) /\ Len(Junk(n)) = n
BY DEF Junk

LEMMA InflatedType ==
  ASSUME NEW s \in Seq(Int)
  PROVE  Inflated(s) \in Seq(Int) /\ Len(Inflated(s)) = Len(s)
BY DEF Inflated

LEMMA ConcatType ==
  ASSUME NEW s \in Seq(Int), NEW t \in Seq(Int)
  PROVE  s \o t \in Seq(Int) /\ Len(s \o t) = Len(s) + Len(t)
BY ConcatProperties

(* Consecutive bytes of a message make up the message. *)
LEMMA BytesConcat ==
  ASSUME NEW n \in Nat, NEW k \in Nat
  PROVE  Bytes(0, n) \o Bytes(n, k) = Bytes(0, n + k)
<1> DEFINE p == Bytes(0, n)
           q == Bytes(n, k)
           r == Bytes(0, n + k)
<1>1. /\ p \in Seq(Int) /\ Len(p) = n
      /\ q \in Seq(Int) /\ Len(q) = k
      /\ r \in Seq(Int) /\ Len(r) = n + k
  BY BytesType
<1>2. /\ \A i \in 1..n : p[i] = i
      /\ \A i \in 1..k : q[i] = n + i
      /\ \A i \in 1..(n + k) : r[i] = i
  BY DEF Bytes
<1> HIDE DEF p, q, r
<1>3. /\ p \o q \in Seq(Int) /\ Len(p \o q) = n + k
      /\ \A i \in 1..(n + k) : (p \o q)[i] = IF i <= n THEN p[i] ELSE q[i - n]
  BY <1>1, ConcatProperties
<1>4. ASSUME NEW i \in 1..(n + k)
      PROVE  (p \o q)[i] = r[i]
  BY <1>2, <1>3, SMTT(40)
<1>5. p \o q = r
  BY <1>1, <1>3, <1>4, SeqEqual
<1> QED
  BY <1>5 DEF p, q, r

(* The header of a frame that was accepted. *)
LEMMA FrameType ==
  ASSUME TypeOK
  PROVE  /\ frame.op \in DataOps \cup ControlOps \cup {"none"}
         /\ frame.fin \in BOOLEAN /\ frame.rsv1 \in BOOLEAN /\ frame.rsv23 \in BOOLEAN
         /\ frame.size \in Nat
<1>1. CASE frame = NoFrame
  BY <1>1 DEF NoFrame
<1>2. CASE frame \in Frame /\ frame.op # "reserved"
  BY <1>2, SizesAssumption DEF Frame
<1> QED
  BY <1>1, <1>2 DEF TypeOK

(* The types of the variables that Return sets. *)
Returned ==
  /\ pc' = "idle"
  /\ frame' = NoFrame
  /\ wr' = NoWrite /\ wr' \in Writes
  /\ res' \in Results
  /\ must' \in {"free", "any"} \cup Codes

LEMMA ReturnType ==
  ASSUME TypeOK, NEW r \in Results, r.kind = "error" => r.type \in Codes, Return(r)
  PROVE  Returned
BY DEF TypeOK, Return, Returned, Results, NoWrite, Writes

LEMMA ErrorType ==
  ASSUME TypeOK, NEW c \in Codes, Return(WSError(c))
  PROVE  Returned /\ must' = c /\ res' = WSError(c)
<1>1. WSError(c) \in Results /\ WSError(c).kind = "error" /\ WSError(c).type = c
  BY DEF WSError, Results
<1>2. Returned
  BY <1>1, ReturnType
<1> QED
  BY <1>1, <1>2 DEF Return

LEMMA OkType ==
  ASSUME TypeOK, Return(Ok) \/ Return(Nothing)
  PROVE  Returned /\ must' = must /\ res'.kind \in {"ok", "none"}
<1>1. /\ Ok \in Results /\ Ok.kind = "ok"
      /\ Nothing \in Results /\ Nothing.kind = "none"
  BY DEF Ok, Nothing, Results
<1>2. Returned
  BY <1>1, ReturnType
<1> QED
  BY <1>1, <1>2 DEF Return

LEMMA ControlType ==
  ASSUME TypeOK, NEW op \in ControlOps, Return(Control(op))
  PROVE  /\ Returned
         /\ must' = IF op = "close" THEN "any" ELSE must
         /\ res'.kind = "control"
<1>1. Control(op) \in Results /\ Control(op).kind = "control" /\ Control(op).type = op
  BY DEF Control, Results
<1>2. Returned
  BY <1>1, ReturnType
<1> QED
  BY <1>1, <1>2 DEF Return

LEMMA ReceivedType ==
  ASSUME TypeOK, NEW op \in {"text", "binary"}, Return(Received(op, buf))
  PROVE  Returned /\ must' = must /\ res' = Received(op, buf)
<1>1. /\ Received(op, buf) \in Results
      /\ Received(op, buf).kind = "message"
  BY DEF Received, Results, TypeOK, DataOps
<1>2. Returned
  BY <1>1, ReturnType
<1> QED
  BY <1>1, <1>2 DEF Return

-----------------------------------------------------------------------------
(* Type correctness. *)

LEMMA ConstantTypes ==
  /\ Ok \in Results /\ Nothing \in Results
  /\ WSError("not_set") \in Results
  /\ NoWrite \in Writes
  /\ Reset \in ReadStates
  /\ <<>> \in Seq(Int)
BY DEF Ok, Nothing, WSError, Results, Codes, NoWrite, Writes, Reset, ReadStates

LEMMA InitType == Init => TypeOK
<1>1. [open |-> FALSE, type |-> "none", z |-> FALSE, len |-> 0] \in Messages
  BY DEF Messages
<1> QED
  BY <1>1, ConstantTypes DEF Init, TypeOK, Labels

(* The message in progress and the payload of the frame just read. *)
LEMMA MessageType ==
  ASSUME TypeOK, frame.op \in DataOps
  PROVE  /\ Payload \in Seq(Int) /\ Len(Payload) = frame.size
         /\ Extended \in Messages
<1>1. frame.size \in Nat /\ frame.fin \in BOOLEAN /\ frame.rsv1 \in BOOLEAN
  BY FrameType
<1>2. rfc.len \in Nat /\ rfc.type \in DataOps \cup {"none"} /\ rfc.z \in BOOLEAN
  BY DEF TypeOK, Messages
<1>3. Payload \in Seq(Int) /\ Len(Payload) = frame.size
  <2> DEFINE a == IF Extends THEN rfc.len ELSE 0
  <2>1. a \in Int
    BY <1>2
  <2> HIDE DEF a
  <2>2. Bytes(a, frame.size) \in Seq(Int) /\ Len(Bytes(a, frame.size)) = frame.size
    BY <1>1, <2>1, BytesType
  <2> QED
    BY <2>2 DEF Payload, a
<1>4. Extended \in Messages
  BY <1>1, <1>2 DEF Extended, Messages
<1> QED
  BY <1>3, <1>4

(* A step of a call, on either side of a Return. *)
LEMMA TypeStep ==
  ASSUME TypeOK, Local, Next
  PROVE  TypeOK'
<1> USE DEF TypeOK
<1>1. CASE Expire
  BY <1>1 DEF Expire
<1>2. CASE handshake
  BY <1>2, ConstantTypes DEF handshake, Begin, Labels
<1>3. CASE handshake_done
  BY <1>3, OkType DEF handshake_done, Returned, Labels
<1>4. CASE handshake_failed
  BY <1>4, ErrorType DEF handshake_failed, Returned, Labels, Codes
<1>5. CASE wait_message
  BY <1>5, ConstantTypes DEF wait_message, Begin, Refuse, Labels
<1>6. CASE wait_message_done
  BY <1>6, OkType, ErrorType DEF wait_message_done, Returned, Labels, Codes
<1>7. CASE read_message
  BY <1>7, ConstantTypes DEF read_message, Begin, Refuse, Labels
<1>8. CASE read_frame
  BY <1>8, ErrorType DEF read_frame, BadHeader, Returned, Labels, Codes
<1>9. CASE handle_control_frame
  BY <1>9, ErrorType, ControlType DEF handle_control_frame, Returned, Labels, Codes
<1>10. CASE data_frame
  <2>1. /\ frame.op \in DataOps /\ frame.rsv1 \in BOOLEAN
        /\ rs.is_first \in BOOLEAN /\ rs.is_compressed \in BOOLEAN
        /\ rs.op_code \in DataOps \cup {"not_set"}
    BY <1>10, FrameType DEF data_frame, ReadStates
  <2>2. Cleared \in Seq(Int) /\ DecCleared \in Seq(Int)
    BY ConstantTypes DEF Cleared, DecCleared
  <2>3. ReadState \in ReadStates
    BY <2>1 DEF ReadState, ReadStates
  <2>4. Return(WSError("failing")) => Returned
    BY ErrorType DEF Codes
  <2> QED
    BY <1>10, <2>2, <2>3, <2>4 DEF data_frame, Returned, Labels
<1>11. CASE read_payload
  <2>1. /\ Payload \in Seq(Int) /\ Extended \in Messages /\ frame.fin \in BOOLEAN
    BY <1>11, MessageType, FrameType DEF read_payload, Local
  <2>2. buf \o Payload \in Seq(Int) /\ dec \o Payload \in Seq(Int)
    BY <2>1
  <2>3. buf' \in Seq(Int) /\ dec' \in Seq(Int)
    BY <1>11, <2>2 DEF read_payload
  <2>4. pc' \in Labels /\ due' \in BOOLEAN /\ rfc' \in Messages
    BY <1>11, <2>1 DEF read_payload, Labels
  <2> QED
    BY <1>11, <2>3, <2>4 DEF read_payload
<1>12. CASE read_payload_failed
  <2>1. Junk(frame.size) \in Seq(Int)
    BY FrameType, JunkType
  <2>2. buf \o Junk(frame.size) \in Seq(Int) /\ dec \o Junk(frame.size) \in Seq(Int)
    BY <2>1
  <2>3. buf' \in Seq(Int) /\ dec' \in Seq(Int)
    BY <1>12, <2>2 DEF read_payload_failed
  <2>4. Returned
    BY <1>12, ErrorType DEF read_payload_failed, Codes
  <2> QED
    BY <1>12, <2>3, <2>4 DEF read_payload_failed, Returned, Labels
<1>13. CASE message_timeout
  BY <1>13, ErrorType DEF message_timeout, Returned, Labels, Codes
<1>14. CASE decompress
  <2>1. buf \o Inflated(dec) \in Seq(Int)
    BY InflatedType
  <2>2. ASSUME NEW n \in 0..(BufMax - Len(buf)) PROVE buf \o Junk(n) \in Seq(Int)
    <3>1. n \in Nat
      BY SizesAssumption
    <3>2. Junk(n) \in Seq(Int)
      BY <3>1, JunkType
    <3> QED
      BY <3>2
  <2>3. buf' \in Seq(Int)
    BY <1>14, <2>1, <2>2 DEF decompress
  <2>4. Return(WSError("not_set")) => Returned
    BY ErrorType DEF Codes
  <2> QED
    BY <1>14, <2>3, <2>4 DEF decompress, Returned, Labels
<1>15. CASE deliver
  <2>1. rs' \in ReadStates /\ due' \in BOOLEAN
    BY <1>15, ConstantTypes DEF deliver
  <2>2. Returned
    BY <1>15, ErrorType, ReceivedType DEF deliver, Codes
  <2> QED
    BY <1>15, <2>1, <2>2 DEF deliver, Returned, Labels
<1>16. CASE send_message
  <2>1. ASSUME NEW op \in {"text", "binary"}, NEW body \in BOOLEAN, NEW z \in BOOLEAN
        PROVE  [NoWrite EXCEPT !.op = op, !.body = body, !.rsv1 = pmd /\ z] \in Writes
    BY DEF NoWrite, Writes
  <2>2. wr' \in Writes
    BY <1>16, <2>1 DEF send_message, Refuse
  <2>3. pc' \in Labels /\ expired' \in BOOLEAN /\ res' \in Results
    BY <1>16, ConstantTypes DEF send_message, Refuse, Begin, Labels
  <2> QED
    BY <1>16, <2>2, <2>3, ZenonT(60) DEF send_message, Refuse
<1>17. CASE compress
  BY <1>17, ErrorType DEF compress, Returned, Labels, Codes, Writes
<1>18. CASE send_pong_frame
  <2>1. ASSUME NEW body \in BOOLEAN
        PROVE  [NoWrite EXCEPT !.op = "pong", !.body = body] \in Writes
    BY DEF NoWrite, Writes
  <2>2. wr' \in Writes
    BY <1>18, <2>1 DEF send_pong_frame, Refuse
  <2>3. pc' \in Labels /\ expired' \in BOOLEAN /\ res' \in Results
    BY <1>18, ConstantTypes DEF send_pong_frame, Refuse, Begin, Labels
  <2> QED
    BY <1>18, <2>2, <2>3, ZenonT(60) DEF send_pong_frame, Refuse
<1>19. CASE write_header
  BY <1>19, OkType DEF write_header, FrameWritten, Sent, Returned, Labels
<1>20. CASE write_body
  BY <1>20, OkType DEF write_body, FrameWritten, Sent, Returned, Labels
<1>21. CASE write_failed
  <2>1. [wr EXCEPT !.fail_conn = TRUE] \in Writes
    BY DEF Writes
  <2>2. Return(WSError("not_set")) => Returned
    BY ErrorType DEF Codes
  <2>3. out' \in {"whole", "torn", "ended", "garbage"}
    BY <1>21 DEF write_failed, Sent
  <2> QED
    BY <1>21, <2>1, <2>2, <2>3 DEF write_failed, FrameFailed, Returned, Labels
<1>22. CASE close
  <2>1. ASSUME NEW code \in Codes
        PROVE  [NoWrite EXCEPT !.op = "close", !.body = TRUE,
                               !.fail_conn = FailsConnection(code)] \in Writes
    <3>1. FailsConnection(code) \in BOOLEAN
      BY DEF FailsConnection
    <3> QED
      BY <3>1 DEF NoWrite, Writes
  <2>2. wr' \in Writes
    BY <1>22, <2>1 DEF close
  <2>3. pc' \in Labels /\ expired' \in BOOLEAN
    BY <1>22 DEF close, Begin, Labels
  <2>4. res' \in Results /\ must' \in {"free", "any"} \cup Codes
    BY <1>22, ConstantTypes DEF close, Begin
  <2> QED
    BY <1>22, <2>2, <2>3, <2>4 DEF close
<1>23. CASE shutdown
  BY <1>23 DEF shutdown, Labels
<1>24. CASE socket_close
  BY <1>24, ConstantTypes DEF socket_close, Labels
<1> QED
  BY <1>1, <1>2, <1>3, <1>4, <1>5, <1>6, <1>7, <1>8, <1>9, <1>10, <1>11, <1>12, <1>13,
     <1>14, <1>15, <1>16, <1>17, <1>18, <1>19, <1>20, <1>21, <1>22, <1>23, <1>24
     DEF Next, Call, Step

-----------------------------------------------------------------------------
(* Where a call can be. *)

LEMMA LocalStep ==
  ASSUME TypeOK, Local, Next
  PROVE  Local'
<1> USE DEF Local, Codes
<1>1. CASE Expire
  BY <1>1 DEF Expire
<1>2. CASE handshake
  BY <1>2 DEF handshake, Begin
<1>3. CASE handshake_done
  BY <1>3, OkType DEF handshake_done, Returned
<1>4. CASE handshake_failed
  BY <1>4, ErrorType DEF handshake_failed, Returned
<1>5. CASE wait_message
  BY <1>5 DEF wait_message, Begin, Refuse
<1>6. CASE wait_message_done
  BY <1>6, OkType, ErrorType DEF wait_message_done, Returned
<1>7. CASE read_message
  BY <1>7 DEF read_message, Begin, Refuse
<1>8. CASE read_frame
  BY <1>8, ErrorType DEF read_frame, BadHeader, Returned, TypeOK, Frame, DataOps, ControlOps
<1>9. CASE handle_control_frame
  BY <1>9, ErrorType, ControlType DEF handle_control_frame, Returned
<1>10. CASE data_frame
  BY <1>10, ErrorType DEF data_frame, Returned
<1>11. CASE read_payload
  BY <1>11 DEF read_payload
<1>12. CASE read_payload_failed
  BY <1>12, ErrorType DEF read_payload_failed, Returned
<1>13. CASE message_timeout
  BY <1>13, ErrorType DEF message_timeout, Returned
<1>14. CASE decompress
  BY <1>14, ErrorType DEF decompress, Returned
<1>15. CASE deliver
  BY <1>15, ErrorType, ReceivedType DEF deliver, Returned
<1>16. CASE send_message
  <2>1. CASE closed
    BY <1>16, <2>1 DEF send_message, Refuse
  <2>2. CASE ~closed
    <3>1. PICK op \in {"text", "binary"}, body \in BOOLEAN, z \in BOOLEAN :
            /\ wr' = [NoWrite EXCEPT !.op = op, !.body = body, !.rsv1 = pmd /\ z]
            /\ pc' = IF pmd /\ z THEN "compress" ELSE "header"
      BY <1>16, <2>2 DEF send_message, Begin
    <3>2. pc' \in {"compress", "header"} /\ (pc' = "compress" => wr'.rsv1 /\ wr'.op # "close")
      BY <3>1 DEF NoWrite
    <3>3. must = "free" /\ UNCHANGED <<closed, sock, must, hs, frame>>
      BY <1>16, <2>2 DEF send_message
    <3> QED
      BY <2>2, <3>2, <3>3
  <2> QED
    BY <2>1, <2>2
<1>17. CASE compress
  BY <1>17, ErrorType DEF compress, Returned, Writes, TypeOK
<1>18. CASE send_pong_frame
  <2>1. CASE closed
    BY <1>18, <2>1 DEF send_pong_frame, Refuse
  <2>2. CASE ~closed
    <3>1. must = "free" /\ pc' = "header" /\ UNCHANGED <<closed, sock, must, hs, frame>>
      BY <1>18, <2>2 DEF send_pong_frame, Begin
    <3> QED
      BY <2>2, <3>1
  <2> QED
    BY <2>1, <2>2
<1>19. CASE write_header
  BY <1>19, OkType DEF write_header, FrameWritten, Returned
<1>20. CASE write_body
  BY <1>20, OkType DEF write_body, FrameWritten, Returned
<1>21. CASE write_failed
  BY <1>21, ErrorType DEF write_failed, FrameFailed, Returned
<1>22. CASE close
  BY <1>22 DEF close, Begin, FailsConnection, MayCloseWith, NoWrite
<1>23. CASE shutdown
  BY <1>23 DEF shutdown
<1>24. CASE socket_close
  BY <1>24 DEF socket_close
<1> QED
  BY <1>1, <1>2, <1>3, <1>4, <1>5, <1>6, <1>7, <1>8, <1>9, <1>10, <1>11, <1>12, <1>13,
     <1>14, <1>15, <1>16, <1>17, <1>18, <1>19, <1>20, <1>21, <1>22, <1>23, <1>24
     DEF Next, Call, Step

LEMMA PlaceStep ==
  ASSUME TypeOK, Place, Next
  PROVE  Place'
<1>1. Local'
  BY LocalStep DEF Place
<1>2. /\ ~closed' \/ hs' = "new" => sock' = "open"
      /\ pc' \notin {"idle", "handshake", "sockclose"} => ~closed'
  <2> USE DEF Place, Local
  <2>1. CASE /\ UNCHANGED <<closed, sock, hs>>
             /\ pc' \in {pc, "idle"} \/ pc \notin {"idle", "handshake", "sockclose"}
    BY <2>1
  <2>2. CASE ~closed /\ UNCHANGED <<closed, sock, hs>>
    BY <2>2
  <2>3. CASE handshake
    BY <2>3 DEF handshake, Begin
  <2>4. CASE handshake_done
    BY <2>4 DEF handshake_done, Return
  <2>5. CASE handshake_failed
    BY <2>5 DEF handshake_failed, Return
  <2>6. CASE shutdown
    BY <2>6 DEF shutdown
  <2>7. CASE socket_close
    BY <2>7 DEF socket_close
  <2>8. CASE wait_message \/ read_message \/ send_message \/ send_pong_frame \/ close
    BY <2>1, <2>2, <2>8
       DEF wait_message, read_message, send_message, send_pong_frame, close, Refuse
  <2>9. CASE \/ wait_message_done \/ read_frame \/ handle_control_frame \/ data_frame
             \/ read_payload \/ read_payload_failed \/ message_timeout \/ decompress
             \/ deliver \/ compress \/ write_header \/ write_body \/ write_failed
    BY <2>1, <2>9
       DEF wait_message_done, read_frame, handle_control_frame, data_frame, read_payload,
           read_payload_failed, message_timeout, decompress, deliver, compress,
           write_header, write_body, write_failed
  <2>10. CASE Expire
    BY <2>1, <2>10 DEF Expire
  <2> QED
    BY <2>3, <2>4, <2>5, <2>6, <2>7, <2>8, <2>9, <2>10 DEF Next, Call, Step
<1> QED
  BY <1>1, <1>2 DEF Place

-----------------------------------------------------------------------------
(* What the server has got. *)

LEMMA WireStep ==
  ASSUME TypeOK, Place, Wire, Next
  PROVE  Wire'
<1> USE DEF Place, Local, Wire, Sound, Codes
<1>1. CASE Expire
  BY <1>1 DEF Expire
<1>2. CASE handshake
  BY <1>2 DEF handshake, Begin
<1>3. CASE handshake_done
  BY <1>3, OkType DEF handshake_done, Returned
<1>4. CASE handshake_failed
  BY <1>4, ErrorType DEF handshake_failed, Returned
<1>5. CASE wait_message
  BY <1>5 DEF wait_message, Begin, Refuse
<1>6. CASE wait_message_done
  BY <1>6, OkType, ErrorType DEF wait_message_done, Returned
<1>7. CASE read_message
  BY <1>7 DEF read_message, Begin, Refuse
<1>8. CASE read_frame
  BY <1>8, ErrorType DEF read_frame, BadHeader, Returned
<1>9. CASE handle_control_frame
  BY <1>9, ErrorType, ControlType DEF handle_control_frame, Returned
<1>10. CASE data_frame
  BY <1>10, ErrorType DEF data_frame, Returned
<1>11. CASE read_payload
  BY <1>11 DEF read_payload
<1>12. CASE read_payload_failed
  BY <1>12, ErrorType DEF read_payload_failed, Returned
<1>13. CASE message_timeout
  BY <1>13, ErrorType DEF message_timeout, Returned
<1>14. CASE decompress
  BY <1>14, ErrorType DEF decompress, Returned
<1>15. CASE deliver
  BY <1>15, ErrorType, ReceivedType DEF deliver, Returned
<1>16. CASE send_message
  BY <1>16 DEF send_message, Begin, Refuse
<1>17. CASE compress
  BY <1>17, ErrorType DEF compress, Returned
<1>18. CASE send_pong_frame
  BY <1>18 DEF send_pong_frame, Begin, Refuse
<1>19. CASE write_header
  BY <1>19, OkType DEF write_header, FrameWritten, Returned, Sent
<1>20. CASE write_body
  BY <1>20, OkType DEF write_body, FrameWritten, Returned, Sent
<1>21. CASE write_failed
  BY <1>21, ErrorType DEF write_failed, FrameFailed, Returned, Sent
<1>22. CASE close
  BY <1>22 DEF close, Begin, FailsConnection, MayCloseWith
<1>23. CASE shutdown
  BY <1>23 DEF shutdown
<1>24. CASE socket_close
  BY <1>24 DEF socket_close
<1> QED
  BY <1>1, <1>2, <1>3, <1>4, <1>5, <1>6, <1>7, <1>8, <1>9, <1>10, <1>11, <1>12, <1>13,
     <1>14, <1>15, <1>16, <1>17, <1>18, <1>19, <1>20, <1>21, <1>22, <1>23, <1>24
     DEF Next, Call, Step

-----------------------------------------------------------------------------
(* Messages on their way through the client. *)

LEMMA CountedStep ==
  ASSUME TypeOK, Place, Counted, Next
  PROVE  Counted'
<1> USE DEF Place, Local, Counted, Sound, Codes
<1>1. CASE Expire
  BY <1>1 DEF Expire
<1>2. CASE handshake
  BY <1>2 DEF handshake, Begin
<1>3. CASE handshake_done
  BY <1>3, OkType DEF handshake_done, Returned
<1>4. CASE handshake_failed
  BY <1>4, ErrorType DEF handshake_failed, Returned
<1>5. CASE wait_message
  BY <1>5 DEF wait_message, Begin, Refuse
<1>6. CASE wait_message_done
  BY <1>6, OkType, ErrorType DEF wait_message_done, Returned
<1>7. CASE read_message
  BY <1>7 DEF read_message, Begin, Refuse
<1>8. CASE read_frame
  BY <1>8, ErrorType DEF read_frame, BadHeader, Returned
<1>9. CASE handle_control_frame
  BY <1>9, ErrorType, ControlType DEF handle_control_frame, Returned
<1>10. CASE data_frame
  BY <1>10, ErrorType DEF data_frame, Returned
<1>11. CASE read_payload
  BY <1>11, FrameType DEF read_payload, TypeOK
<1>12. CASE read_payload_failed
  BY <1>12, ErrorType DEF read_payload_failed, Returned
<1>13. CASE message_timeout
  BY <1>13, ErrorType DEF message_timeout, Returned
<1>14. CASE decompress
  BY <1>14, ErrorType DEF decompress, Returned
<1>15. CASE deliver
  BY <1>15, ErrorType, ReceivedType DEF deliver, Returned
<1>16. CASE send_message
  BY <1>16 DEF send_message, Begin, Refuse
<1>17. CASE compress
  BY <1>17, ErrorType DEF compress, Returned, Writes, TypeOK
<1>18. CASE send_pong_frame
  BY <1>18 DEF send_pong_frame, Begin, Refuse
<1>19. CASE write_header
  BY <1>19, OkType DEF write_header, FrameWritten, Returned
<1>20. CASE write_body
  BY <1>20, OkType DEF write_body, FrameWritten, Returned
<1>21. CASE write_failed
  BY <1>21, ErrorType DEF write_failed, FrameFailed, Returned
<1>22. CASE close
  BY <1>22 DEF close, Begin, FailsConnection, MayCloseWith
<1>23. CASE shutdown
  BY <1>23 DEF shutdown
<1>24. CASE socket_close
  BY <1>24 DEF socket_close
<1> QED
  BY <1>1, <1>2, <1>3, <1>4, <1>5, <1>6, <1>7, <1>8, <1>9, <1>10, <1>11, <1>12, <1>13,
     <1>14, <1>15, <1>16, <1>17, <1>18, <1>19, <1>20, <1>21, <1>22, <1>23, <1>24
     DEF Next, Call, Step

-----------------------------------------------------------------------------
(* What the buffers hold at most. *)

LEMMA LimitsKept ==
  ASSUME Limits, UNCHANGED <<buf, dec>>, pc' # "payload" \/ UNCHANGED <<pc, frame>>
  PROVE  Limits'
BY DEF Limits, BuffersBounded

LEMMA LimitsStep ==
  ASSUME TypeOK, Place, Limits, Next
  PROVE  Limits'
<1>1. CASE Expire
  BY <1>1, LimitsKept DEF Expire
<1>2. CASE handshake
  BY <1>2, LimitsKept DEF handshake, Begin
<1>3. CASE handshake_done
  BY <1>3, LimitsKept DEF handshake_done, Return
<1>4. CASE handshake_failed
  BY <1>4, LimitsKept DEF handshake_failed, Return
<1>5. CASE wait_message
  BY <1>5, LimitsKept DEF wait_message, Begin, Refuse
<1>6. CASE wait_message_done
  BY <1>6, LimitsKept DEF wait_message_done, Return
<1>7. CASE read_message
  <2>1. Len(<<>>) = 0 /\ BufMax \in Nat
    BY SizesAssumption
  <2> QED
    BY <1>7, <2>1 DEF read_message, Begin, Refuse, Limits, BuffersBounded
<1>8. CASE read_frame
  BY <1>8, LimitsKept DEF read_frame, Return
<1>9. CASE handle_control_frame
  BY <1>9, LimitsKept DEF handle_control_frame, Return
<1>10. CASE data_frame
  <2>1. /\ buf \in Seq(Int) /\ dec \in Seq(Int)
        /\ frame.size \in Nat /\ BufMax \in Nat /\ DecMax \in Nat
    BY FrameType, SizesAssumption DEF TypeOK
  <2>2. /\ Cleared \in Seq(Int) /\ Len(Cleared) <= BufMax
        /\ DecCleared \in Seq(Int) /\ Len(DecCleared) <= DecMax
    BY <2>1 DEF Cleared, DecCleared, Limits, BuffersBounded
  <2>3. Return(WSError("failing")) => pc' = "idle"
    BY DEF Return
  <2>4. Len(buf') <= BufMax /\ Len(dec') <= DecMax
    <3>1. buf' = Cleared /\ (dec' = dec \/ dec' = DecCleared)
      BY <1>10 DEF data_frame
    <3> QED
      BY <2>2, <3>1 DEF Limits, BuffersBounded
  <2>5. pc' = "payload" => Len(Cleared) + frame.size <= BufMax /\ frame' = frame
    BY <1>10, <2>1, <2>2, <2>3 DEF data_frame, TooBig
  <2> QED
    BY <1>10, <2>4, <2>5 DEF data_frame, Limits, BuffersBounded
<1>11. CASE read_payload
  <2>1. /\ buf \in Seq(Int) /\ dec \in Seq(Int)
        /\ frame.size \in Nat /\ BufMax \in Nat /\ DecMax \in Nat
    BY FrameType, SizesAssumption DEF TypeOK
  <2>2. Payload \in Seq(Int) /\ Len(Payload) = frame.size
    BY <1>11, MessageType DEF read_payload, Place, Local
  <2>3. /\ Len(buf \o Payload) = Len(buf) + frame.size
        /\ Len(dec \o Payload) = Len(dec) + frame.size
    BY <2>1, <2>2, ConcatType, ZenonT(60)
  <2>4. pc' # "payload"
    BY <1>11 DEF read_payload
  <2>5. Len(buf') <= BufMax /\ Len(dec') <= DecMax
    BY <1>11, <2>1, <2>3 DEF read_payload, Limits, BuffersBounded
  <2> QED
    BY <2>4, <2>5 DEF Limits, BuffersBounded
<1>12. CASE read_payload_failed
  <2>1. /\ buf \in Seq(Int) /\ dec \in Seq(Int)
        /\ frame.size \in Nat /\ BufMax \in Nat /\ DecMax \in Nat
    BY FrameType, SizesAssumption DEF TypeOK
  <2>2. Junk(frame.size) \in Seq(Int) /\ Len(Junk(frame.size)) = frame.size
    BY <2>1, JunkType
  <2>3. /\ Len(buf \o Junk(frame.size)) = Len(buf) + frame.size
        /\ Len(dec \o Junk(frame.size)) = Len(dec) + frame.size
    BY <2>1, <2>2, ConcatType, ZenonT(60)
  <2>4. pc' # "payload"
    BY <1>12 DEF read_payload_failed, Return
  <2>5. Len(buf') <= BufMax /\ Len(dec') <= DecMax
    BY <1>12, <2>1, <2>3 DEF read_payload_failed, Limits, BuffersBounded
  <2> QED
    BY <2>4, <2>5 DEF Limits, BuffersBounded
<1>13. CASE message_timeout
  BY <1>13, LimitsKept DEF message_timeout, Return
<1>14. CASE decompress
  <2>1. /\ buf \in Seq(Int) /\ dec \in Seq(Int)
        /\ frame.size \in Nat /\ BufMax \in Nat /\ DecMax \in Nat
    BY FrameType, SizesAssumption DEF TypeOK
  <2>2. Len(buf \o Inflated(dec)) = Len(buf) + Len(dec)
    BY <2>1, InflatedType, ConcatType, ZenonT(60)
  <2>3. ASSUME NEW n \in 0..(BufMax - Len(buf)) PROVE Len(buf \o Junk(n)) <= BufMax
    <3>1. n \in Nat /\ Len(buf) \in Nat /\ Len(buf) + n <= BufMax
      BY <2>1
    <3>2. Junk(n) \in Seq(Int) /\ Len(Junk(n)) = n
      BY <3>1, JunkType
    <3>3. Len(buf \o Junk(n)) = Len(buf) + n
      BY <2>1, <3>2, ConcatType, ZenonT(60)
    <3> QED
      BY <3>1, <3>3
  <2>4. pc' # "payload"
    BY <1>14 DEF decompress, Return
  <2>5. Len(buf') <= BufMax
    BY <1>14, <2>2, <2>3 DEF decompress, Limits, BuffersBounded
  <2> QED
    BY <1>14, <2>4, <2>5 DEF decompress, Limits, BuffersBounded
<1>15. CASE deliver
  BY <1>15, LimitsKept DEF deliver, Return
<1>16. CASE send_message
  BY <1>16, LimitsKept DEF send_message, Begin, Refuse
<1>17. CASE compress
  BY <1>17, LimitsKept DEF compress, Return
<1>18. CASE send_pong_frame
  BY <1>18, LimitsKept DEF send_pong_frame, Begin, Refuse
<1>19. CASE write_header
  BY <1>19, LimitsKept DEF write_header, FrameWritten, Return
<1>20. CASE write_body
  BY <1>20, LimitsKept DEF write_body, FrameWritten, Return
<1>21. CASE write_failed
  BY <1>21, LimitsKept DEF write_failed, FrameFailed, Return
<1>22. CASE close
  BY <1>22, LimitsKept DEF close, Begin
<1>23. CASE shutdown
  BY <1>23, LimitsKept DEF shutdown
<1>24. CASE socket_close
  BY <1>24, LimitsKept DEF socket_close
<1> QED
  BY <1>1, <1>2, <1>3, <1>4, <1>5, <1>6, <1>7, <1>8, <1>9, <1>10, <1>11, <1>12, <1>13,
     <1>14, <1>15, <1>16, <1>17, <1>18, <1>19, <1>20, <1>21, <1>22, <1>23, <1>24
     DEF Next, Call, Step

-----------------------------------------------------------------------------
(* What read_state_ and the buffers have to do with the server's message. *)

(* Outside of the payload and the end of a message nothing else matters. *)
LEMMA ReadingKept ==
  ASSUME Reading, UNCHANGED <<rs, buf, dec, rfc>>, Readable' => Readable,
         pc \notin {"payload", "complete", "deliver"},
         pc' \notin {"payload", "complete", "deliver"}
  PROVE  Reading'
<1>1. InStep' <=> InStep
  BY DEF InStep, Holds
<1> QED
  BY <1>1 DEF Reading

(* Nothing is claimed once an error was returned. *)
LEMMA ErrorReading ==
  ASSUME TypeOK, NEW c \in Codes, Return(WSError(c))
  PROVE  Reading'
BY ErrorType DEF Reading, Readable, ReadPlaces

(* The first part of a data frame: it belongs to the message in progress, or
   there is none and it starts one. *)
LEMMA DataFrameReading ==
  ASSUME TypeOK, Local, Reading, data_frame
  PROVE  Reading'
<1>1. CASE pc' # "payload"
  <2>1. Return(WSError("failing"))
    BY <1>1 DEF data_frame
  <2> QED
    BY <2>1, ErrorReading DEF Codes
<1>2. CASE pc' = "payload"
  <2>1. ~BadData
    BY <1>2 DEF data_frame, Return
  <2>2. /\ rs' = ReadState /\ buf' = Cleared /\ dec' = DecCleared
        /\ UNCHANGED <<frame, rfc, must, closed, hs>>
    BY <1>2 DEF data_frame, Return
  <2>3. Extended' = Extended /\ (Extends' <=> Extends) /\ (Readable' => Readable)
    BY <2>2 DEF Extended, Extends, Readable, ReadPlaces, data_frame
  <2>4. SUFFICES ASSUME Readable
                 PROVE  /\ ~rs'.is_first
                        /\ Holds(Extended.type, Extended.z, IF Extends THEN rfc.len ELSE 0)'
    BY <1>2, <2>2, <2>3 DEF Reading
  <2>5. InStep
    BY <2>4 DEF Reading, data_frame
  <2>6. frame.op \in DataOps /\ frame.rsv1 \in BOOLEAN /\ rs.is_compressed \in BOOLEAN
    BY FrameType DEF data_frame, TypeOK, ReadStates
  <2>7. CASE rs.is_first
    <3>1. ~Extends /\ Extended.type = frame.op /\ Extended.z = frame.rsv1
      BY <2>5, <2>7 DEF InStep, Extends, Extended
    <3>2. /\ rs' = [is_first |-> FALSE, op_code |-> frame.op, is_compressed |-> frame.rsv1]
          /\ buf' = <<>>
          /\ frame.rsv1 => dec' = <<>>
      BY <2>1, <2>2, <2>5, <2>6, <2>7 DEF ReadState, Cleared, DecCleared, BadData, InStep
    <3>3. Bytes(0, 0) = <<>>
      BY BytesType, EmptySeq
    <3> QED
      BY <2>2, <2>3, <3>1, <3>2, <3>3 DEF Holds
  <2>8. CASE ~rs.is_first
    <3>1. frame.op = "continuation"
      BY <2>1, <2>8 DEF BadData
    <3>2. rfc.open /\ Holds(rfc.type, rfc.z, rfc.len)
      BY <2>5, <2>8 DEF InStep, TypeOK, Messages
    <3>3. Extends /\ Extended.type = rfc.type /\ Extended.z = rfc.z
      BY <3>1, <3>2 DEF Extends, Extended
    <3>4. rs' = rs /\ buf' = buf /\ dec' = dec
      BY <2>2, <2>8 DEF ReadState, Cleared, DecCleared
    <3> QED
      BY <2>2, <2>3, <2>8, <3>2, <3>3, <3>4 DEF Holds
  <2> QED
    BY <2>7, <2>8
<1> QED
  BY <1>1, <1>2

(* The payload: the buffer it goes to now has all bytes of the message up to
   and with this frame. *)
LEMMA PayloadReading ==
  ASSUME TypeOK, Local, Reading, read_payload
  PROVE  Reading'
<1> DEFINE a == IF Extends THEN rfc.len ELSE 0
<1>1. frame.size \in Nat /\ a \in Nat /\ frame.fin \in BOOLEAN
  BY FrameType DEF TypeOK, Messages
<1>2. /\ Payload = Bytes(a, frame.size)
      /\ rfc' = Extended /\ Extended.len = a + frame.size /\ Extended.open = ~frame.fin
  BY DEF Payload, Extended, read_payload
<1>3. /\ UNCHANGED <<rs, must, closed, hs>>
      /\ pc' = (IF frame.fin THEN "complete" ELSE "loop")
      /\ rs.is_compressed => dec' = dec \o Payload /\ buf' = buf
      /\ ~rs.is_compressed => buf' = buf \o Payload
  BY DEF read_payload
<1>4. SUFFICES ASSUME Readable PROVE Reading'
  BY <1>3 DEF Reading, Readable, ReadPlaces, read_payload
<1>5. ~rs.is_first /\ Holds(Extended.type, Extended.z, a)
  BY <1>4 DEF Reading, read_payload
<1> HIDE DEF a
<1>6. Bytes(0, a) \o Payload = Bytes(0, rfc'.len)
  BY <1>1, <1>2, BytesConcat
<1>7. Holds(rfc.type, rfc.z, rfc.len)'
  BY <1>2, <1>3, <1>5, <1>6 DEF Holds
<1>8. frame.fin => ~rfc'.open
  BY <1>2
<1>9. ~frame.fin => rfc'.open
  BY <1>2
<1> QED
  BY <1>3, <1>5, <1>7, <1>8, <1>9 DEF Reading, InStep

(* Inflating a compressed message makes it the message the server meant. *)
LEMMA DecompressReading ==
  ASSUME TypeOK, Local, Reading, decompress
  PROVE  Reading'
<1>1. CASE pc' # "deliver"
  <2>1. Return(WSError("not_set"))
    BY <1>1 DEF decompress
  <2> QED
    BY <2>1, ErrorReading DEF Codes
<1>2. CASE pc' = "deliver"
  <2>1. buf' = buf \o Inflated(dec) /\ UNCHANGED <<rs, rfc, must, closed, hs>>
    BY <1>2 DEF decompress, Return
  <2>2. SUFFICES ASSUME Readable
                 PROVE  ~rfc.open /\ rs.op_code = rfc.type /\ buf' = MessageBytes
    BY <1>2, <2>1 DEF Reading, Readable, ReadPlaces, MessageBytes, decompress
  <2>3. ~rfc.open /\ rs.is_compressed /\ Holds(rfc.type, rfc.z, rfc.len)
    BY <2>2 DEF Reading, decompress
  <2>4. rfc.z /\ dec = Bytes(0, rfc.len) /\ buf = <<>>
    BY <2>3 DEF Holds
  <2>5. Inflated(dec) \in Seq(Int)
    BY InflatedType DEF TypeOK
  <2>6. buf' = Inflated(dec)
    BY <2>1, <2>4, <2>5, ConcatEmptySeq
  <2> QED
    BY <2>3, <2>4, <2>6 DEF Holds, MessageBytes
<1> QED
  BY <1>1, <1>2

(* Every step keeps read_state_ and the buffers in step with the message. *)
LEMMA ReadingStep ==
  ASSUME ~UserClears, TypeOK, Local, Reading, Next
  PROVE  Reading'
<1> USE DEF Codes
<1>1. CASE Expire
  <2>1. UNCHANGED <<rs, buf, dec, rfc, frame, pc, must, closed, hs>>
    BY <1>1 DEF Expire
  <2> QED
    BY <2>1 DEF Reading, Readable, ReadPlaces, InStep, Holds, Extended, Extends, MessageBytes
<1>2. CASE handshake
  BY <1>2, ReadingKept DEF handshake, Begin, Readable, ReadPlaces
<1>3. CASE handshake_done
  BY <1>3, ReadingKept, OkType DEF handshake_done, Returned, Readable, ReadPlaces, Local
<1>4. CASE handshake_failed
  BY <1>4, ErrorReading DEF handshake_failed
<1>5. CASE wait_message
  BY <1>5, ReadingKept DEF wait_message, Begin, Refuse, Readable, ReadPlaces
<1>6. CASE wait_message_done
  <2>1. CASE Return(WSError("not_set"))
    BY <2>1, ErrorReading
  <2>2. CASE Return(Ok) \/ Return(Nothing)
    BY <1>6, <2>2, ReadingKept, OkType DEF wait_message_done, Returned, Readable, ReadPlaces
  <2> QED
    BY <1>6, <2>1, <2>2 DEF wait_message_done
<1>7. CASE read_message
  BY <1>7, ReadingKept DEF read_message, Begin, Refuse, Readable, ReadPlaces
<1>8. CASE read_frame
  <2>1. CASE \E c \in Codes : Return(WSError(c))
    BY <2>1, ErrorReading
  <2>2. CASE pc' = "dispatch" /\ must' = must
    BY <1>8, <2>2, ReadingKept DEF read_frame, Readable, ReadPlaces
  <2> QED
    BY <1>8, <2>1, <2>2 DEF read_frame
<1>9. CASE handle_control_frame
  <2>1. CASE \E c \in Codes : Return(WSError(c))
    BY <2>1, ErrorReading
  <2>2. CASE Return(Control(frame.op))
    BY <1>9, <2>2, ReadingKept, ControlType DEF handle_control_frame, Returned, Readable, ReadPlaces, Local
  <2> QED
    BY <1>9, <2>1, <2>2 DEF handle_control_frame
<1>10. CASE data_frame
  BY <1>10, DataFrameReading
<1>11. CASE read_payload
  BY <1>11, PayloadReading
<1>12. CASE read_payload_failed
  BY <1>12, ErrorReading DEF read_payload_failed
<1>13. CASE message_timeout
  BY <1>13, ErrorReading DEF message_timeout
<1>14. CASE decompress
  BY <1>14, DecompressReading
<1>15. CASE deliver
  <2>1. CASE Return(WSError("failing"))
    BY <2>1, ErrorReading
  <2>2. CASE rs.op_code \in {"text", "binary"} /\ rs' = Reset /\ Return(Received(rs.op_code, buf))
    <3>1. pc' = "idle" /\ must' = must /\ UNCHANGED <<closed, hs, rfc>>
      BY <1>15, <2>2, ReceivedType DEF deliver, Returned
    <3>2. Readable => ~rfc.open
      BY <1>15 DEF Reading, deliver
    <3> QED
      BY <2>2, <3>1, <3>2 DEF Reading, Readable, ReadPlaces, InStep, Reset
  <2> QED
    BY <1>15, <2>1, <2>2 DEF deliver
<1>16. CASE send_message
  <2>1. /\ pc = "idle" /\ pc' \in {"idle", "compress", "header"}
        /\ UNCHANGED <<rs, buf, dec, rfc, must, closed, hs>>
    BY <1>16 DEF send_message, Begin, Refuse
  <2> QED
    BY <2>1, ReadingKept DEF Readable, ReadPlaces
<1>17. CASE compress
  <2>1. CASE Return(WSError("not_set"))
    BY <2>1, ErrorReading
  <2>2. CASE pc' = "header" /\ must' = must
    BY <1>17, <2>2, ReadingKept DEF compress, Readable, ReadPlaces
  <2> QED
    BY <1>17, <2>1, <2>2 DEF compress
<1>18. CASE send_pong_frame
  <2>1. /\ pc = "idle" /\ pc' \in {"idle", "compress", "header"}
        /\ UNCHANGED <<rs, buf, dec, rfc, must, closed, hs>>
    BY <1>18 DEF send_pong_frame, Begin, Refuse
  <2> QED
    BY <2>1, ReadingKept DEF Readable, ReadPlaces
<1>19. CASE write_header
  BY <1>19, ReadingKept, OkType DEF write_header, FrameWritten, Returned, Readable, ReadPlaces
<1>20. CASE write_body
  BY <1>20, ReadingKept, OkType DEF write_body, FrameWritten, Returned, Readable, ReadPlaces
<1>21. CASE write_failed
  <2>1. CASE Return(WSError("not_set"))
    BY <2>1, ErrorReading
  <2>2. CASE pc' = "shutdown" /\ must' = must
    BY <1>21, <2>2, ReadingKept DEF write_failed, Readable, ReadPlaces
  <2> QED
    BY <1>21, <2>1, <2>2 DEF write_failed, FrameFailed
<1>22. CASE close
  BY <1>22, ReadingKept DEF close, Begin, Readable, ReadPlaces, Local
<1>23. CASE shutdown
  BY <1>23, ReadingKept DEF shutdown, Readable, ReadPlaces, Local
<1>24. CASE socket_close
  BY <1>24 DEF socket_close, Reading, Readable, ReadPlaces, Local
<1> QED
  BY <1>1, <1>2, <1>3, <1>4, <1>5, <1>6, <1>7, <1>8, <1>9, <1>10, <1>11, <1>12, <1>13,
     <1>14, <1>15, <1>16, <1>17, <1>18, <1>19, <1>20, <1>21, <1>22, <1>23, <1>24
     DEF Next, Call, Step

(* A message is returned only by the step that completes it. *)
LEMMA IntegrityStep ==
  ASSUME TypeOK, Local, Reading, MessageIntegrity, Next
  PROVE  MessageIntegrity'
<1> USE DEF Codes
<1>1. CASE Expire
  BY <1>1 DEF Expire, MessageIntegrity, MessageBytes
<1>2. CASE handshake
  BY <1>2 DEF handshake, Begin, MessageIntegrity
<1>3. CASE handshake_done
  BY <1>3, OkType DEF handshake_done, Returned, MessageIntegrity
<1>4. CASE handshake_failed
  BY <1>4, ErrorType DEF handshake_failed, Returned, WSError, MessageIntegrity
<1>5. CASE wait_message
  BY <1>5 DEF wait_message, Begin, Refuse, WSError, MessageIntegrity
<1>6. CASE wait_message_done
  BY <1>6, OkType, ErrorType DEF wait_message_done, Returned, WSError, MessageIntegrity
<1>7. CASE read_message
  BY <1>7 DEF read_message, Begin, Refuse, WSError, MessageIntegrity
<1>8. CASE read_frame
  BY <1>8, ErrorType DEF read_frame, Returned, WSError, MessageIntegrity
<1>9. CASE handle_control_frame
  BY <1>9, ErrorType, ControlType DEF handle_control_frame, Returned, WSError, MessageIntegrity
<1>10. CASE data_frame
  BY <1>10, ErrorType DEF data_frame, Returned, WSError, MessageIntegrity
<1>11. CASE read_payload
  BY <1>11 DEF read_payload, MessageIntegrity
<1>12. CASE read_payload_failed
  BY <1>12, ErrorType DEF read_payload_failed, Returned, WSError, MessageIntegrity
<1>13. CASE message_timeout
  BY <1>13, ErrorType DEF message_timeout, Returned, WSError, MessageIntegrity
<1>14. CASE decompress
  BY <1>14, ErrorType DEF decompress, Returned, WSError, MessageIntegrity
<1>15. CASE deliver
  <2>1. CASE Return(WSError("failing"))
    BY <2>1, ErrorType DEF MessageIntegrity, WSError
  <2>2. CASE rs.op_code \in {"text", "binary"} /\ Return(Received(rs.op_code, buf))
    <3>1. res' = Received(rs.op_code, buf) /\ rfc' = rfc
      BY <1>15, <2>2, ReceivedType DEF deliver
    <3>2. Readable
      BY <1>15 DEF deliver, Local, Readable, ReadPlaces
    <3>3. ~rfc.open /\ rs.op_code = rfc.type /\ buf = MessageBytes
      <4>1. CASE pc = "deliver"
        BY <4>1, <3>2 DEF Reading
      <4>2. CASE pc = "complete" /\ ~rs.is_compressed
        BY <4>2, <3>2 DEF Reading, Holds, MessageBytes
      <4> QED
        BY <1>15, <4>1, <4>2 DEF deliver
    <3>4. MessageBytes' = MessageBytes
      BY <3>1 DEF MessageBytes
    <3> QED
      BY <2>2, <3>1, <3>3, <3>4 DEF MessageIntegrity, Received
  <2> QED
    BY <1>15, <2>1, <2>2 DEF deliver
<1>16. CASE send_message
  BY <1>16 DEF send_message, Begin, Refuse, WSError, MessageIntegrity
<1>17. CASE compress
  BY <1>17, ErrorType DEF compress, Returned, WSError, MessageIntegrity
<1>18. CASE send_pong_frame
  BY <1>18 DEF send_pong_frame, Begin, Refuse, WSError, MessageIntegrity
<1>19. CASE write_header
  BY <1>19, OkType DEF write_header, FrameWritten, Returned, MessageIntegrity
<1>20. CASE write_body
  BY <1>20, OkType DEF write_body, FrameWritten, Returned, MessageIntegrity
<1>21. CASE write_failed
  BY <1>21, ErrorType DEF write_failed, FrameFailed, Returned, WSError, MessageIntegrity
<1>22. CASE close
  BY <1>22 DEF close, Begin, FailsConnection, MayCloseWith, Ok, MessageIntegrity
<1>23. CASE shutdown
  BY <1>23 DEF shutdown, MessageIntegrity
<1>24. CASE socket_close
  BY <1>24 DEF socket_close, MessageIntegrity, Ok, WSError
<1> QED
  BY <1>1, <1>2, <1>3, <1>4, <1>5, <1>6, <1>7, <1>8, <1>9, <1>10, <1>11, <1>12, <1>13,
     <1>14, <1>15, <1>16, <1>17, <1>18, <1>19, <1>20, <1>21, <1>22, <1>23, <1>24
     DEF Next, Call, Step

-----------------------------------------------------------------------------
(* The theorems. *)

(* What holds whether or not the user clears its Buffer between reads. *)
Inv == TypeOK /\ Place /\ Wire /\ Counted /\ Limits

LEMMA InitInv == Init => Inv /\ Reading /\ MessageIntegrity
<1>1. Init => Place /\ Wire /\ Counted
  BY DEF Init, Place, Local, Wire, Counted, Sound, Codes
<1>2. Init => Limits
  BY SizesAssumption DEF Init, Limits, BuffersBounded
<1>3. Init => Reading /\ MessageIntegrity
  BY DEF Init, Reading, InStep, Reset, MessageIntegrity, Nothing
<1> QED
  BY <1>1, <1>2, <1>3, InitType DEF Inv

LEMMA InvStep == Inv /\ [Next]_vars => Inv'
<1>1. Inv /\ Next => Inv'
  BY TypeStep, PlaceStep, WireStep, CountedStep, LimitsStep DEF Inv, Place
<1>2. Inv /\ UNCHANGED vars => Inv'
  BY DEF Inv, TypeOK, Place, Local, Wire, Counted, Limits, BuffersBounded, Sound, vars
<1> QED
  BY <1>1, <1>2

LEMMA InvAlways == Spec => []Inv
<1>1. Init => Inv
  BY InitInv
<1> QED
  BY <1>1, InvStep, PTL DEF Spec

(* Every variable keeps its type; in particular no frame with a reserved
   opcode or a mask gets past the header checks of read_message. *)
THEOREM ClientTypeCorrect == Spec => []TypeOK
<1>1. Inv => TypeOK
  BY DEF Inv
<1> QED
  BY <1>1, InvAlways, PTL

(* However a message is cut into frames, and whatever fails on the way, the
   message buffer and the decompression buffer stay within their limits. *)
THEOREM ClientBuffersBounded == Spec => []BuffersBounded
<1>1. Inv => BuffersBounded
  BY DEF Inv, Limits
<1> QED
  BY <1>1, InvAlways, PTL

(* The server gets whole frames, of which only the last one may be cut off,
   and nothing after a close frame. *)
THEOREM ClientWireWellFormed == Spec => []WireWellFormed
<1>1. Inv => WireWellFormed
  BY DEF Inv, Wire, WireWellFormed
<1> QED
  BY <1>1, InvAlways, PTL

(* A user that may go on has been given every message that was received, and
   the server every message that went through the deflate state. *)
THEOREM ClientNothingSkipped == Spec => []NothingSkipped
<1>1. Inv => NothingSkipped
  BY DEF Inv, Counted, Sound, Codes, NothingSkipped
<1> QED
  BY <1>1, InvAlways, PTL

(* No call touches the socket once close() has shut it down. *)
THEOREM ClientNoUseAfterShutdown == Spec => []NoUseAfterShutdown
<1>1. Inv => NoUseAfterShutdown
  BY DEF Inv, Place, Local, NoUseAfterShutdown
<1> QED
  BY <1>1, InvAlways, PTL

(* After an error not one more byte is sent, by close() neither. *)
THEOREM ClientSilentFailure == Spec => SilentFailure
<1>1. ASSUME Inv, Next, must \in Codes
      PROVE  out' = out
  <2>1. pc \in {"idle", "shutdown", "sockclose"}
    BY <1>1 DEF Inv, Place, Local
  <2>2. CASE Call
    BY <2>2 DEF Call, handshake, wait_message, read_message, send_message,
                send_pong_frame, close, Refuse
  <2>3. CASE Step
    BY <2>1, <2>3
       DEF Step, handshake_done, handshake_failed, wait_message_done, read_frame,
           handle_control_frame, data_frame, read_payload, read_payload_failed,
           message_timeout, decompress, deliver, compress, write_header, write_body,
           write_failed, shutdown, socket_close
  <2>4. CASE Expire
    BY <2>4 DEF Expire
  <2> QED
    BY <1>1, <2>2, <2>3, <2>4 DEF Next
<1>2. Inv /\ [Next]_vars => [(must \in Codes) => (out' = out)]_vars
  BY <1>1
<1> QED
  BY <1>2, InvAlways, PTL DEF Spec, SilentFailure

LEMMA ReadingAlways ==
  ASSUME ~UserClears
  PROVE  Spec => [](Reading /\ MessageIntegrity)
<1>1. Init => Reading /\ MessageIntegrity
  BY InitInv
<1>2. Inv /\ Reading /\ MessageIntegrity /\ [Next]_vars => (Reading /\ MessageIntegrity)'
  <2>1. Inv /\ Reading /\ MessageIntegrity /\ Next => Reading' /\ MessageIntegrity'
    BY ReadingStep, IntegrityStep DEF Inv, Place
  <2>2. Reading /\ UNCHANGED vars => Reading'
    BY DEF Reading, Readable, InStep, Holds, Extended, Extends, MessageBytes, vars
  <2>3. MessageIntegrity /\ UNCHANGED vars => MessageIntegrity'
    BY DEF MessageIntegrity, MessageBytes, vars
  <2> QED
    BY <2>1, <2>2, <2>3
<1> QED
  BY <1>1, <1>2, InvAlways, PTL DEF Spec

(* Whatever control frames, failures and timeouts come between its fragments,
   a message that read_message returns is the one the server sent, provided
   that the user leaves its Buffer alone between the calls. *)
THEOREM ClientMessageIntegrity == ~UserClears => (Spec => []MessageIntegrity)
<1> SUFFICES ASSUME ~UserClears
             PROVE  Spec => []MessageIntegrity
  OBVIOUS
<1>1. Spec => [](Reading /\ MessageIntegrity)
  BY ReadingAlways
<1> QED
  BY <1>1, PTL

(* Between calls read_state_ and the buffers hold exactly the fragments of the
   unfinished message, under the same condition. *)
THEOREM ClientReadStateInStep == ~UserClears => (Spec => []ReadStateInStep)
<1> SUFFICES ASSUME ~UserClears
             PROVE  Spec => []ReadStateInStep
  OBVIOUS
<1>1. Spec => [](Reading /\ MessageIntegrity)
  BY ReadingAlways
<1>2. Reading => ReadStateInStep
  BY DEF Reading, Readable, Codes, InStep, Holds, ReadStateInStep
<1> QED
  BY <1>1, <1>2, PTL

=============================================================================
