-------------------------- MODULE AsyncClientProofs --------------------------
(***************************************************************************)
(* The safety properties of AsyncClient, for every limit, every set of     *)
(* payload sizes and every choice of failures.                             *)
(*                                                                         *)
(* Each coroutine runs an instance of WebSocketClient, so the lemmas of    *)
(* WebSocketClientProofs on single steps, which do not rely on the client  *)
(* being open during a call, are used for both: RP is that module for the  *)
(* reader's call, WP for the writer's.  What is new here is what a step of *)
(* one coroutine leaves true of the other, and Wire, the argument that the *)
(* two of them and a close() between any two steps do not spoil what the   *)
(* server receives.                                                        *)
(***************************************************************************)
EXTENDS AsyncClient, TLAPS

RP == INSTANCE WebSocketClientProofs
        WITH pc <- rpc, frame <- rframe, wr <- rwr, expired <- rexpired,
             res <- rres, must <- rmust
WP == INSTANCE WebSocketClientProofs
        WITH pc <- wpc, frame <- wframe, wr <- wwr, expired <- wexpired,
             res <- wres, must <- wmust

(* What holds of each call, and that the writer leaves the handshake to the
   reader. *)
Calls ==
  /\ RP!TypeOK /\ RP!Local
  /\ WP!TypeOK /\ WP!Local
  /\ wpc # "handshake"

(* The socket is shut down only behind closed_. *)
Guarded == ~closed \/ hs = "new" => sock = "open"

(* At most one coroutine is writing a frame; it starts one where all frames
   before it are complete, and while both may go on and neither is in the
   middle of a frame or behind a close frame, this is so. *)
Wire ==
  /\ out # "garbage"
  /\ ~(Writing(rpc) /\ Writing(wpc))
  /\ rpc \in {"compress", "header"} \/ wpc \in {"compress", "header"} => out = "whole"
  /\ rpc = "body" \/ wpc = "body" => out = "torn"
  /\ /\ ~closed \/ hs = "new"
     /\ ~MustFail
     /\ rpc \notin {"body", "shutdown"} /\ wpc \notin {"body", "shutdown"}
     => out = "whole"

Inv == Calls /\ Guarded /\ Wire

-----------------------------------------------------------------------------
(* RP and R, WP and W are the same, definition by definition. *)

LEMMA ReaderSame ==
  /\ R!Next <=> RP!Next
  /\ R!TypeOK <=> RP!TypeOK
  /\ R!MessageIntegrity <=> RP!MessageIntegrity
  /\ R!ReadStateInStep <=> RP!ReadStateInStep
BY DEF R!DataOps, RP!DataOps, R!ControlOps, RP!ControlOps, R!Frame, RP!Frame,
       R!NoFrame, RP!NoFrame, R!Codes, RP!Codes, R!Nothing, RP!Nothing, R!Ok, RP!Ok,
       R!Control, RP!Control, R!Received, RP!Received, R!WSError, RP!WSError,
       R!Reset, RP!Reset, R!NoWrite, RP!NoWrite, R!Bytes, RP!Bytes, R!Inflated,
       RP!Inflated, R!Junk, RP!Junk, R!Return, RP!Return, R!Refuse, RP!Refuse,
       R!Begin, RP!Begin, R!Expire, RP!Expire, R!handshake, RP!handshake,
       R!handshake_done, RP!handshake_done, R!handshake_failed, RP!handshake_failed,
       R!wait_message, RP!wait_message, R!wait_message_done, RP!wait_message_done,
       R!read_message, RP!read_message, R!BadHeader, RP!BadHeader, R!read_frame,
       RP!read_frame, R!BadControl, RP!BadControl, R!handle_control_frame,
       RP!handle_control_frame, R!Cleared, RP!Cleared, R!TooBig, RP!TooBig,
       R!ReadState, RP!ReadState, R!BadData, RP!BadData, R!DecCleared,
       RP!DecCleared, R!data_frame, RP!data_frame, R!Extends, RP!Extends, R!Payload,
       RP!Payload, R!Extended, RP!Extended, R!read_payload, RP!read_payload,
       R!read_payload_failed, RP!read_payload_failed, R!message_timeout,
       RP!message_timeout, R!decompress, RP!decompress, R!deliver, RP!deliver,
       R!send_message, RP!send_message, R!compress, RP!compress, R!send_pong_frame,
       RP!send_pong_frame, R!Sent, RP!Sent, R!FrameWritten, RP!FrameWritten,
       R!FrameFailed, RP!FrameFailed, R!write_header, RP!write_header, R!write_body,
       RP!write_body, R!write_failed, RP!write_failed, R!FailsConnection,
       RP!FailsConnection, R!MayCloseWith, RP!MayCloseWith, R!close, RP!close,
       R!shutdown, RP!shutdown, R!socket_close, RP!socket_close, R!Call, RP!Call,
       R!Step, RP!Step, R!Next, RP!Next, R!Labels, RP!Labels, R!ReadStates,
       RP!ReadStates, R!Writes, RP!Writes, R!Results, RP!Results, R!Messages,
       RP!Messages, R!TypeOK, RP!TypeOK, R!MessageBytes, RP!MessageBytes,
       R!MessageIntegrity, RP!MessageIntegrity, R!ReadStateInStep,
       RP!ReadStateInStep

LEMMA WriterSame ==
  /\ W!Next <=> WP!Next
  /\ W!TypeOK <=> WP!TypeOK
BY DEF W!DataOps, WP!DataOps, W!ControlOps, WP!ControlOps, W!Frame, WP!Frame,
       W!NoFrame, WP!NoFrame, W!Codes, WP!Codes, W!Nothing, WP!Nothing, W!Ok, WP!Ok,
       W!Control, WP!Control, W!Received, WP!Received, W!WSError, WP!WSError,
       W!Reset, WP!Reset, W!NoWrite, WP!NoWrite, W!Bytes, WP!Bytes, W!Inflated,
       WP!Inflated, W!Junk, WP!Junk, W!Return, WP!Return, W!Refuse, WP!Refuse,
       W!Begin, WP!Begin, W!Expire, WP!Expire, W!handshake, WP!handshake,
       W!handshake_done, WP!handshake_done, W!handshake_failed, WP!handshake_failed,
       W!wait_message, WP!wait_message, W!wait_message_done, WP!wait_message_done,
       W!read_message, WP!read_message, W!BadHeader, WP!BadHeader, W!read_frame,
       WP!read_frame, W!BadControl, WP!BadControl, W!handle_control_frame,
       WP!handle_control_frame, W!Cleared, WP!Cleared, W!TooBig, WP!TooBig,
       W!ReadState, WP!ReadState, W!BadData, WP!BadData, W!DecCleared,
       WP!DecCleared, W!data_frame, WP!data_frame, W!Extends, WP!Extends, W!Payload,
       WP!Payload, W!Extended, WP!Extended, W!read_payload, WP!read_payload,
       W!read_payload_failed, WP!read_payload_failed, W!message_timeout,
       WP!message_timeout, W!decompress, WP!decompress, W!deliver, WP!deliver,
       W!send_message, WP!send_message, W!compress, WP!compress, W!send_pong_frame,
       WP!send_pong_frame, W!Sent, WP!Sent, W!FrameWritten, WP!FrameWritten,
       W!FrameFailed, WP!FrameFailed, W!write_header, WP!write_header, W!write_body,
       WP!write_body, W!write_failed, WP!write_failed, W!FailsConnection,
       WP!FailsConnection, W!MayCloseWith, WP!MayCloseWith, W!close, WP!close,
       W!shutdown, WP!shutdown, W!socket_close, WP!socket_close, W!Call, WP!Call,
       W!Step, WP!Step, W!Next, WP!Next, W!Labels, WP!Labels, W!ReadStates,
       WP!ReadStates, W!Writes, WP!Writes, W!Results, WP!Results, W!Messages,
       WP!Messages, W!TypeOK, WP!TypeOK, W!MessageBytes, WP!MessageBytes

-----------------------------------------------------------------------------
(* The steps of both coroutines. *)

(* The writer has no step that reads, and only shutdown sets closed_. *)
WriterMoves ==
  /\ W!Next /\ UNCHANGED reader
  /\ wpc' # "handshake"
  /\ UNCHANGED <<closed, pmd, rs, buf, dec, hs, rfc, due>>
  /\ sock' = sock \/ (closed /\ hs # "new")

LEMMA WriterStep ==
  ASSUME Calls,
         \/ W!send_message \/ W!compress \/ W!send_pong_frame \/ W!write_header
         \/ W!write_body \/ W!write_failed \/ W!close \/ W!socket_close \/ W!Expire,
         UNCHANGED reader
  PROVE  WriterMoves
<1>1. W!Next
  BY DEF W!Next, W!Call, W!Step
<1>2. /\ wpc' # "handshake" /\ UNCHANGED <<closed, pmd, rs, buf, dec, hs, rfc, due>>
      /\ sock' = sock \/ (closed /\ hs # "new")
  <2> USE DEF Calls, WP!Local
  <2>1. CASE W!send_message
    BY <2>1 DEF W!send_message, W!Refuse, W!Begin
  <2>2. CASE W!compress
    BY <2>2 DEF W!compress, W!Return
  <2>3. CASE W!send_pong_frame
    BY <2>3 DEF W!send_pong_frame, W!Refuse, W!Begin
  <2>4. CASE W!write_header
    BY <2>4 DEF W!write_header, W!FrameWritten, W!Return
  <2>5. CASE W!write_body
    BY <2>5 DEF W!write_body, W!FrameWritten, W!Return
  <2>6. CASE W!write_failed
    BY <2>6 DEF W!write_failed, W!FrameFailed, W!Return
  <2>7. CASE W!close
    BY <2>7 DEF W!close, W!Begin
  <2>8. CASE W!socket_close
    BY <2>8 DEF W!socket_close
  <2>9. CASE W!Expire
    BY <2>9 DEF W!Expire
  <2> QED
    BY <2>1, <2>2, <2>3, <2>4, <2>5, <2>6, <2>7, <2>8, <2>9
<1> QED
  BY <1>1, <1>2 DEF WriterMoves

ReaderMoves == R!Next /\ UNCHANGED writer

LEMMA NextCases ==
  ASSUME Calls, Next
  PROVE  ReaderMoves \/ WriterMoves \/ can_read \/ shutdown
<1>1. CASE \/ handshake \/ handshake_end \/ read_message \/ read_frame
           \/ handle_control_frame \/ data_frame \/ read_payload \/ message_timeout
           \/ deliver
  BY <1>1 DEF handshake, handshake_end, read_message, read_frame, handle_control_frame,
              data_frame, read_payload, message_timeout, deliver, ReaderRuns, ReaderMoves,
              R!Next, R!Call, R!Step
<1>2. CASE send_message \/ compress \/ send_pong_frame
  BY <1>2, WriterStep DEF send_message, compress, send_pong_frame, WriterRuns
<1>3. CASE write_frame
  BY <1>3, WriterStep DEF write_frame, ReaderRuns, WriterRuns, ReaderMoves, R!Next, R!Step
<1>4. CASE write_failed
  BY <1>4, WriterStep DEF write_failed, ReaderRuns, WriterRuns, ReaderMoves, R!Next, R!Step
<1>5. CASE close
  BY <1>5, WriterStep DEF close, ReaderRuns, WriterRuns, ReaderMoves, R!Next, R!Call
<1>6. CASE socket_close
  BY <1>6, WriterStep DEF socket_close, ReaderRuns, WriterRuns, ReaderMoves, R!Next, R!Step
<1>7. CASE Expire
  BY <1>7, WriterStep DEF Expire, ReaderMoves, R!Next
<1> QED
  BY <1>1, <1>2, <1>3, <1>4, <1>5, <1>6, <1>7 DEF Next, Call, Step

(* can_read returns at once and leaves everything but its result alone. *)
LEMMA CanRead ==
  ASSUME Calls, can_read
  PROVE  /\ rpc = "idle" /\ rpc' = "idle" /\ hs = "done"
         /\ rframe' = RP!NoFrame /\ rwr' = RP!NoWrite
         /\ rres' \in RP!Results /\ rres'.kind # "message"
         /\ rmust = "free" /\ rmust' \in {"free", "not_set"}
         /\ UNCHANGED <<client, writer, rexpired>>
<1>1. PICK r \in {R!Ok, R!Nothing, R!WSError("not_set")} : R!Return(r)
  BY DEF can_read
<1>2. /\ r \in RP!Results /\ r.kind # "message"
      /\ r.kind = "error" => r.type = "not_set"
      /\ r.kind # "control"
  <2>1. r \in {RP!Ok, RP!Nothing, RP!WSError("not_set")}
    BY DEF R!Ok, R!Nothing, R!WSError, RP!Ok, RP!Nothing, RP!WSError
  <2>2. r \in RP!Results
    BY <2>1, ClientAssumption, RP!ConstantTypes
  <2> QED
    BY <2>1, <2>2 DEF RP!Ok, RP!Nothing, RP!WSError
<1>3. rpc = "idle" /\ hs = "done" /\ rmust = "free" /\ UNCHANGED <<client, writer, rexpired>>
  BY DEF can_read, ReaderRuns, MayCall
<1>4. /\ rpc' = "idle" /\ rres' = r
      /\ rframe' = RP!NoFrame /\ rwr' = RP!NoWrite
  BY <1>1 DEF R!Return, R!NoFrame, R!NoWrite, RP!NoFrame, RP!NoWrite
<1>5. rmust' \in {"free", "not_set"}
  BY <1>1, <1>2, <1>3 DEF R!Return
<1> QED
  BY <1>2, <1>3, <1>4, <1>5

-----------------------------------------------------------------------------
(* What holds of each call, also during the steps of the other one. *)

(* Only the end of the handshake opens the client. *)
LEMMA ReaderOpens ==
  ASSUME Calls, ReaderMoves
  PROVE  /\ \/ hs' = hs /\ (closed' = closed \/ closed' = TRUE)
            \/ hs = "new" /\ hs' \in {"done", "failed"}
         /\ sock' = sock \/ (closed' /\ hs' # "new")
<1> USE DEF Calls, RP!Local
<1>1. CASE R!handshake_done
  BY <1>1 DEF R!handshake_done
<1>2. CASE R!handshake_failed
  BY <1>2 DEF R!handshake_failed
<1>3. CASE R!Call
  BY <1>3 DEF R!Call, R!handshake, R!wait_message, R!read_message, R!send_message,
              R!send_pong_frame, R!close, R!Refuse
<1>4. CASE \/ R!wait_message_done \/ R!read_frame \/ R!handle_control_frame
           \/ R!data_frame \/ R!read_payload \/ R!read_payload_failed
           \/ R!message_timeout \/ R!decompress \/ R!deliver
  BY <1>4 DEF R!wait_message_done, R!read_frame, R!handle_control_frame, R!data_frame,
              R!read_payload, R!read_payload_failed, R!message_timeout, R!decompress,
              R!deliver
<1>5. CASE \/ R!compress \/ R!write_header \/ R!write_body \/ R!write_failed
           \/ R!shutdown \/ R!socket_close \/ R!Expire
  BY <1>5 DEF R!compress, R!write_header, R!write_body, R!write_failed, R!shutdown,
              R!socket_close, R!Expire
<1> QED
  BY <1>1, <1>2, <1>3, <1>4, <1>5 DEF ReaderMoves, R!Next, R!Step

LEMMA CallsStep ==
  ASSUME Calls, Next
  PROVE  Calls'
<1>1. CASE ReaderMoves
  <2>1. RP!TypeOK' /\ RP!Local'
    BY <1>1, ReaderSame, ClientAssumption, RP!TypeStep, RP!LocalStep DEF Calls, ReaderMoves
  <2>2. UNCHANGED writer
    BY <1>1 DEF ReaderMoves
  <2>3. WP!TypeOK'
    BY <2>1, <2>2
       DEF Calls, writer, RP!TypeOK, WP!TypeOK, RP!ReadStates, WP!ReadStates, RP!Messages,
           WP!Messages, RP!DataOps, WP!DataOps
  <2>4. WP!Local' /\ wpc' # "handshake"
    BY <1>1, <2>1, <2>2, ReaderOpens DEF Calls, writer, RP!Local, WP!Local, WP!Codes
  <2> QED
    BY <2>1, <2>3, <2>4 DEF Calls
<1>2. CASE WriterMoves
  <2>1. WP!TypeOK' /\ WP!Local'
    BY <1>2, WriterSame, ClientAssumption, WP!TypeStep, WP!LocalStep DEF Calls, WriterMoves
  <2>2. UNCHANGED <<reader, closed, hs>> /\ wpc' # "handshake"
    BY <1>2 DEF WriterMoves
  <2>3. RP!TypeOK'
    BY <2>1, <2>2
       DEF Calls, reader, RP!TypeOK, WP!TypeOK, RP!ReadStates, WP!ReadStates, RP!Messages,
           WP!Messages, RP!DataOps, WP!DataOps
  <2>4. RP!Local'
    BY <2>2 DEF Calls, reader, RP!Local, RP!Codes
  <2> QED
    BY <2>1, <2>2, <2>3, <2>4 DEF Calls
<1>3. CASE can_read
  <2>1. RP!NoWrite \in RP!Writes
    BY ClientAssumption, RP!ConstantTypes
  <2>2. RP!TypeOK'
    BY <1>3, <2>1, CanRead DEF Calls, client, RP!TypeOK, RP!Labels, RP!Codes
  <2>3. RP!Local'
    BY <1>3, CanRead DEF Calls, client, RP!Local, RP!Codes
  <2>4. WP!TypeOK' /\ WP!Local'
    BY <1>3, CanRead DEF Calls, client, writer, WP!TypeOK, WP!Local
  <2> QED
    BY <1>3, <2>2, <2>3, <2>4, CanRead DEF Calls, writer
<1>4. CASE shutdown
  <2>1. /\ closed' = TRUE /\ sock' \in {"shut", "closed"}
        /\ UNCHANGED <<pmd, rs, buf, dec, hs, out, rfc, due, ahead>>
        /\ UNCHANGED <<rframe, rwr, rexpired, rres, rmust>>
        /\ UNCHANGED <<wframe, wwr, wexpired, wres, wmust>>
    BY <1>4 DEF shutdown, Shut, ReaderRuns, WriterRuns, reader, writer
  <2>2. /\ rpc' = rpc \/ (rpc = "shutdown" /\ rpc' = "sockclose")
        /\ wpc' = wpc \/ (wpc = "shutdown" /\ wpc' = "sockclose")
    <3>1. CASE ReaderRuns /\ rpc = "shutdown" /\ rpc' = "sockclose"
      BY <3>1 DEF ReaderRuns, writer
    <3>2. CASE WriterRuns /\ wpc = "shutdown" /\ wpc' = "sockclose"
      BY <3>2 DEF WriterRuns, reader
    <3> QED
      BY <1>4, <3>1, <3>2 DEF shutdown
  <2>3. RP!TypeOK' /\ WP!TypeOK'
    BY <2>1, <2>2 DEF Calls, RP!TypeOK, RP!Labels, WP!TypeOK, WP!Labels
  <2>4. RP!Local' /\ WP!Local'
    BY <2>1, <2>2 DEF Calls, RP!Local, RP!Codes, WP!Local, WP!Codes
  <2> QED
    BY <2>2, <2>3, <2>4 DEF Calls
<1> QED
  BY <1>1, <1>2, <1>3, <1>4, NextCases

LEMMA GuardedStep ==
  ASSUME Calls, Guarded, Next
  PROVE  Guarded'
<1>1. CASE ReaderMoves
  BY <1>1, ReaderOpens DEF Guarded
<1>2. CASE WriterMoves
  BY <1>2 DEF WriterMoves, Guarded
<1>3. CASE can_read
  BY <1>3, CanRead DEF Guarded, client
<1>4. CASE shutdown
  <2>1. rpc = "shutdown" \/ wpc = "shutdown"
    BY <1>4 DEF shutdown
  <2>2. hs # "new"
    BY <2>1 DEF Calls, RP!Local, WP!Local
  <2>3. closed' = TRUE /\ hs' = hs
    BY <1>4 DEF shutdown
  <2> QED
    BY <2>2, <2>3 DEF Guarded
<1> QED
  BY <1>1, <1>2, <1>3, <1>4, NextCases

-----------------------------------------------------------------------------
(* What the server has got. *)

(* The steps of a read leave alone what Wire is about. *)
LEMMA ReadStep ==
  ASSUME Calls,
         \/ can_read \/ read_message \/ read_frame \/ handle_control_frame
         \/ data_frame \/ read_payload \/ message_timeout \/ deliver
  PROVE  /\ UNCHANGED <<out, closed, hs, writer>>
         /\ {rpc, rpc'} \cap {"compress", "header", "body", "shutdown"} = {}
         /\ rmust \notin R!Codes
<1> USE DEF Calls, RP!Local, R!Codes, RP!Codes, writer
<1>1. CASE can_read
  BY <1>1, CanRead DEF client
<1>2. CASE read_message
  BY <1>2 DEF read_message, ReaderRuns, MayCall, R!read_message, R!Refuse, R!Begin
<1>3. CASE read_frame
  BY <1>3 DEF read_frame, ReaderRuns, R!read_frame, R!Return
<1>4. CASE handle_control_frame
  BY <1>4 DEF handle_control_frame, ReaderRuns, R!handle_control_frame, R!Return
<1>5. CASE data_frame
  BY <1>5 DEF data_frame, ReaderRuns, R!data_frame, R!Return
<1>6. CASE read_payload
  BY <1>6 DEF read_payload, ReaderRuns, R!read_payload, R!read_payload_failed, R!Return
<1>7. CASE message_timeout
  BY <1>7 DEF message_timeout, ReaderRuns, R!message_timeout, R!Return
<1>8. CASE deliver
  BY <1>8 DEF deliver, ReaderRuns, R!decompress, R!deliver, R!Return
<1> QED
  BY <1>1, <1>2, <1>3, <1>4, <1>5, <1>6, <1>7, <1>8

LEMMA WireStep ==
  ASSUME Calls, Wire, Next
  PROVE  Wire'
<1> USE DEF Wire, Writing, MustFail, R!Codes
<1>1. CASE \/ can_read \/ read_message \/ read_frame \/ handle_control_frame
           \/ data_frame \/ read_payload \/ message_timeout \/ deliver
  <2>1. /\ UNCHANGED <<out, closed, hs, wpc, wmust>>
        /\ rpc \notin {"compress", "header", "body", "shutdown"}
        /\ rpc' \notin {"compress", "header", "body", "shutdown"}
        /\ rmust \notin {"normal", "not_set", "failing"}
    BY <1>1, ReadStep DEF writer
  <2> QED
    BY <2>1
<1>2. CASE handshake
  BY <1>2 DEF handshake, ReaderRuns, writer, R!handshake, R!Begin
<1>3. CASE handshake_end
  <2>1. /\ rpc = "handshake" /\ rpc' = "idle" /\ UNCHANGED <<out, wpc, wmust>>
    BY <1>3 DEF handshake_end, ReaderRuns, writer, R!handshake_done, R!handshake_failed,
                R!Return
  <2>2. hs = "new" /\ rmust = "free" /\ wmust = "free" /\ wpc = "idle"
    BY <2>1 DEF Calls, RP!Local, WP!Local
  <2> QED
    BY <2>1, <2>2
<1>4. CASE Expire
  BY <1>4 DEF Expire, R!Expire, W!Expire, reader, writer
<1>5. CASE send_message
  <2>1. /\ wpc = "idle" /\ rmust = "free" /\ wmust = "free" /\ wmust' = wmust
        /\ UNCHANGED <<out, closed, hs, rpc, rmust>>
        /\ rpc \notin {"compress", "header", "body", "shutdown"}
    BY <1>5 DEF send_message, WriterRuns, Suspended, MayCall, reader, W!send_message,
                W!Refuse
  <2>2. wpc' = wpc \/ (~closed /\ wpc' \in {"compress", "header"})
    BY <1>5 DEF send_message, W!send_message, W!Refuse, W!Begin
  <2> QED
    BY <2>1, <2>2
<1>6. CASE send_pong_frame
  <2>1. /\ wpc = "idle" /\ rmust = "free" /\ wmust = "free" /\ wmust' = wmust
        /\ UNCHANGED <<out, closed, hs, rpc, rmust>>
        /\ rpc \notin {"compress", "header", "body", "shutdown"}
    BY <1>6 DEF send_pong_frame, WriterRuns, Suspended, MayCall, reader, W!send_pong_frame,
                W!Refuse
  <2>2. wpc' = wpc \/ (~closed /\ wpc' \in {"compress", "header"})
    BY <1>6 DEF send_pong_frame, W!send_pong_frame, W!Refuse, W!Begin
  <2> QED
    BY <2>1, <2>2
<1>7. CASE compress
  BY <1>7 DEF compress, WriterRuns, reader, W!compress, W!Return, W!WSError
<1>8. CASE write_frame
  <2>1. CASE ReaderRuns /\ (R!write_header \/ R!write_body)
    BY <2>1 DEF ReaderRuns, writer, R!write_header, R!write_body, R!FrameWritten, R!Return,
                R!Ok, R!Sent
  <2>2. CASE WriterRuns /\ (W!write_header \/ W!write_body)
    BY <2>2 DEF WriterRuns, reader, W!write_header, W!write_body, W!FrameWritten, W!Return,
                W!Ok, W!Sent
  <2> QED
    BY <1>8, <2>1, <2>2 DEF write_frame
<1>9. CASE write_failed
  <2>1. CASE ReaderRuns /\ R!write_failed
    BY <2>1 DEF ReaderRuns, writer, R!write_failed, R!FrameFailed, R!Return, R!WSError,
                R!Sent
  <2>2. CASE WriterRuns /\ W!write_failed
    BY <2>2 DEF WriterRuns, reader, W!write_failed, W!FrameFailed, W!Return, W!WSError,
                W!Sent
  <2> QED
    BY <1>9, <2>1, <2>2 DEF write_failed
<1>10. CASE close
  <2> USE DEF Calls, RP!Local, WP!Local, RP!Codes, WP!Codes
  <2>1. CASE /\ ReaderRuns /\ R!close
             /\ closed \/ rwr'.fail_conn \/ (~Writing(wpc) /\ ~MustFail)
    <3>1. /\ UNCHANGED <<out, closed, hs, wpc, wmust>>
          /\ wpc # "shutdown"
          /\ rpc = "idle"
      BY <2>1 DEF ReaderRuns, Suspended, writer, R!close
    <3>2. CASE closed
      <4>1. rpc' = "idle" /\ rmust' = "free"
        BY <2>1, <3>1, <3>2 DEF R!close
      <4> QED
        BY <3>1, <3>2, <4>1
    <3>3. CASE ~closed
      <4>1. PICK code \in R!Codes :
              /\ R!MayCloseWith(code)
              /\ rpc' = IF R!FailsConnection(code) THEN "shutdown" ELSE "header"
              /\ rwr'.fail_conn = R!FailsConnection(code)
              /\ rmust' = rmust
        BY <2>1, <3>3 DEF R!close, R!Begin, R!NoWrite, R!Codes
      <4>2. CASE R!FailsConnection(code)
        BY <3>1, <4>1, <4>2
      <4>3. CASE ~R!FailsConnection(code)
        <5>1. ~Writing(wpc) /\ ~MustFail /\ rpc' = "header"
          BY <2>1, <3>3, <4>1, <4>3
        <5> QED
          BY <3>1, <3>3, <4>1, <5>1
      <4> QED
        BY <4>2, <4>3
    <3> QED
      BY <3>2, <3>3
  <2>2. CASE /\ WriterRuns /\ W!close
             /\ closed \/ wwr'.fail_conn \/ (~Writing(rpc) /\ ~MustFail)
    <3>1. /\ UNCHANGED <<out, closed, hs, rpc, rmust>>
          /\ rpc # "shutdown"
          /\ wpc = "idle"
      BY <2>2 DEF WriterRuns, Suspended, reader, W!close
    <3>2. CASE closed
      <4>1. wpc' = "idle" /\ wmust' = "free"
        BY <2>2, <3>1, <3>2 DEF W!close
      <4> QED
        BY <3>1, <3>2, <4>1
    <3>3. CASE ~closed
      <4>1. PICK code \in R!Codes :
              /\ W!MayCloseWith(code)
              /\ wpc' = IF W!FailsConnection(code) THEN "shutdown" ELSE "header"
              /\ wwr'.fail_conn = W!FailsConnection(code)
              /\ wmust' = wmust
        BY <2>2, <3>3 DEF W!close, W!Begin, W!NoWrite, W!Codes
      <4>2. CASE W!FailsConnection(code)
        BY <3>1, <4>1, <4>2
      <4>3. CASE ~W!FailsConnection(code)
        <5>1. ~Writing(rpc) /\ ~MustFail /\ wpc' = "header"
          BY <2>2, <3>3, <4>1, <4>3
        <5> QED
          BY <3>1, <3>3, <4>1, <5>1
      <4> QED
        BY <4>2, <4>3
    <3> QED
      BY <3>2, <3>3
  <2> QED
    BY <1>10, <2>1, <2>2 DEF close
<1>11. CASE shutdown
  BY <1>11 DEF shutdown, ReaderRuns, WriterRuns, reader, writer, Calls, RP!Local, WP!Local
<1>12. CASE socket_close
  BY <1>12 DEF socket_close, ReaderRuns, WriterRuns, reader, writer, R!socket_close,
               W!socket_close, Calls, RP!Local, WP!Local, RP!Codes, WP!Codes
<1> QED
  BY <1>1, <1>2, <1>3, <1>4, <1>5, <1>6, <1>7, <1>8, <1>9, <1>10, <1>11, <1>12
     DEF Next, Call, Step

-----------------------------------------------------------------------------
(* What the reader has read. *)

(* A step that leaves the reader's call and what it reads alone, and does not
   open the client, may close it. *)
LEMMA ReadingKept ==
  ASSUME RP!Reading, RP!MessageIntegrity,
         UNCHANGED <<rs, buf, dec, rfc, hs, rpc, rframe, rres, rmust>>,
         closed' = closed \/ closed' = TRUE
  PROVE  RP!Reading' /\ RP!MessageIntegrity'
<1>1. RP!Readable' => RP!Readable
  BY DEF RP!Readable, RP!Codes
<1>2. RP!Reading'
  BY <1>1 DEF RP!Reading, RP!InStep, RP!Holds, RP!Extended, RP!Extends, RP!MessageBytes
<1>3. RP!MessageIntegrity'
  BY DEF RP!MessageIntegrity, RP!MessageBytes
<1> QED
  BY <1>2, <1>3

LEMMA ReadingStep ==
  ASSUME ~UserClears, Calls, RP!Reading, RP!MessageIntegrity, Next
  PROVE  RP!Reading' /\ RP!MessageIntegrity'
<1>1. CASE ReaderMoves
  <2>1. RP!Next /\ RP!TypeOK /\ RP!Local
    BY <1>1, ReaderSame DEF Calls, ReaderMoves
  <2> QED
    BY <2>1, ClientAssumption, RP!ReadingStep, RP!IntegrityStep
<1>2. CASE WriterMoves
  BY <1>2, ReadingKept DEF WriterMoves, reader
<1>3. CASE can_read
  <2>1. /\ rpc = "idle" /\ rpc' = "idle" /\ rres'.kind # "message"
        /\ rmust = "free"
        /\ UNCHANGED <<rs, buf, dec, rfc, closed, hs>>
    BY <1>3, CanRead DEF client
  <2>2. RP!Readable' => RP!Readable
    BY <2>1 DEF RP!Readable, RP!ReadPlaces, RP!Codes
  <2>3. RP!Reading'
    BY <2>1, <2>2 DEF RP!Reading, RP!InStep, RP!Holds
  <2>4. RP!MessageIntegrity'
    BY <2>1 DEF RP!MessageIntegrity
  <2> QED
    BY <2>3, <2>4
<1>4. CASE shutdown
  <2>1. /\ UNCHANGED <<rs, buf, dec, rfc, hs, rframe, rres, rmust>>
        /\ closed' = TRUE
    BY <1>4 DEF shutdown, WriterRuns, reader
  <2>2. CASE rpc' = rpc
    BY <2>1, <2>2, ReadingKept
  <2>3. CASE rpc = "shutdown" /\ rpc' = "sockclose"
    <3>1. hs # "new"
      BY <2>3 DEF Calls, RP!Local
    <3>2. ~RP!Readable'
      BY <2>1, <2>3, <3>1 DEF RP!Readable, RP!ReadPlaces
    <3> QED
      BY <2>3, <3>2 DEF RP!Reading, RP!MessageIntegrity
  <2> QED
    BY <1>4, <2>2, <2>3 DEF shutdown, WriterRuns, reader
<1> QED
  BY <1>1, <1>2, <1>3, <1>4, NextCases

-----------------------------------------------------------------------------
(* The theorems. *)

LEMMA InitInv == Init => Inv /\ RP!Reading /\ RP!MessageIntegrity
<1> SUFFICES ASSUME Init
             PROVE  Inv /\ RP!Reading /\ RP!MessageIntegrity
  OBVIOUS
<1>1. RP!Init /\ WP!Init
  BY DEF Init, R!Init, W!Init, RP!Init, WP!Init, R!Reset, R!NoFrame, R!NoWrite, R!Nothing,
         W!Reset, W!NoFrame, W!NoWrite, W!Nothing, RP!Reset, RP!NoFrame, RP!NoWrite,
         RP!Nothing, WP!Reset, WP!NoFrame, WP!NoWrite, WP!Nothing
<1>2. RP!TypeOK /\ RP!Place /\ RP!Reading /\ RP!MessageIntegrity
  BY <1>1, ClientAssumption, RP!InitInv DEF RP!Inv
<1>3. WP!TypeOK /\ WP!Place
  BY <1>1, ClientAssumption, WP!InitInv DEF WP!Inv
<1>4. /\ rpc = "idle" /\ wpc = "idle" /\ out = "whole" /\ sock = "open"
  BY <1>1 DEF RP!Init, WP!Init
<1>5. Calls
  BY <1>2, <1>3, <1>4 DEF RP!Place, WP!Place, Calls
<1> QED
  BY <1>2, <1>4, <1>5 DEF Inv, Guarded, Wire, Writing

LEMMA InvStep == Inv /\ [Next]_vars => Inv'
<1>1. Inv /\ Next => Inv'
  BY CallsStep, GuardedStep, WireStep DEF Inv
<1>2. Inv /\ UNCHANGED vars => Inv'
  <2> SUFFICES ASSUME Inv, UNCHANGED vars
               PROVE  Inv'
    OBVIOUS
  <2> USE DEF vars, client, reader, writer
  <2>1. RP!TypeOK' /\ RP!Local'
    BY DEF Inv, Calls, RP!TypeOK, RP!Local
  <2>2. WP!TypeOK' /\ WP!Local'
    BY DEF Inv, Calls, WP!TypeOK, WP!Local
  <2>3. Guarded' /\ Wire'
    BY DEF Inv, Guarded, Wire, Writing, MustFail
  <2> QED
    BY <2>1, <2>2, <2>3 DEF Inv, Calls
<1> QED
  BY <1>1, <1>2

LEMMA InvAlways == Spec => []Inv
<1>1. Init => Inv
  BY InitInv
<1> QED
  BY <1>1, InvStep, PTL DEF Spec

(* Every variable keeps its type. *)
THEOREM AsyncTypeCorrect == Spec => []TypeOK
<1>1. Inv => TypeOK
  <2>1. RP!TypeOK => R!TypeOK
    BY ReaderSame
  <2>2. WP!TypeOK => W!TypeOK
    BY WriterSame
  <2> QED
    BY <2>1, <2>2 DEF Inv, Calls, TypeOK
<1> QED
  BY <1>1, InvAlways, PTL

(* The server gets whole frames, of which only the last one may be cut off,
   one close frame at most and nothing behind it, although the coroutines
   write in turns and either may close() between any two steps of the other
   one's write_frame. *)
THEOREM AsyncWireWellFormed == Spec => []WireWellFormed
<1>1. Inv => WireWellFormed
  BY DEF Inv, Wire, WireWellFormed
<1> QED
  BY <1>1, InvAlways, PTL

(* Once the socket is being shut down closed_ is set, and no call of either
   coroutine gets past its check of it. *)
THEOREM AsyncNoCallAfterShutdown == Spec => NoCallAfterShutdown
<1>1. ASSUME Inv, Next, sock # "open"
      PROVE  /\ rpc = "idle" => rpc' = "idle"
             /\ wpc = "idle" => wpc' = "idle"
  <2>1. closed /\ hs # "new"
    BY <1>1 DEF Inv, Guarded
  <2>2. CASE can_read
    BY <1>1, <2>2, CanRead DEF Inv, writer
  <2>3. CASE shutdown
    BY <2>3 DEF shutdown, ReaderRuns, WriterRuns, reader, writer
  <2>4. CASE Expire
    BY <2>4 DEF Expire, R!Expire, W!Expire, reader, writer
  <2>5. CASE ReaderMoves
    <3>1. UNCHANGED wpc
      BY <2>5 DEF ReaderMoves, writer
    <3>2. CASE R!Call
      BY <2>1, <3>1, <3>2
         DEF R!Call, R!handshake, R!wait_message, R!read_message, R!send_message,
             R!send_pong_frame, R!close, R!Refuse
    <3>3. CASE R!Step
      BY <3>1, <3>3
         DEF R!Step, R!handshake_done, R!handshake_failed, R!wait_message_done,
             R!read_frame, R!handle_control_frame, R!data_frame, R!read_payload,
             R!read_payload_failed, R!message_timeout, R!decompress, R!deliver,
             R!compress, R!write_header, R!write_body, R!write_failed, R!shutdown,
             R!socket_close
    <3>4. CASE R!Expire
      BY <3>1, <3>4 DEF R!Expire
    <3> QED
      BY <2>5, <3>2, <3>3, <3>4 DEF ReaderMoves, R!Next
  <2>6. CASE WriterMoves
    <3>1. UNCHANGED rpc
      BY <2>6 DEF WriterMoves, reader
    <3>2. CASE W!Call
      BY <2>1, <3>1, <3>2
         DEF W!Call, W!handshake, W!wait_message, W!read_message, W!send_message,
             W!send_pong_frame, W!close, W!Refuse
    <3>3. CASE W!Step
      BY <3>1, <3>3
         DEF W!Step, W!handshake_done, W!handshake_failed, W!wait_message_done,
             W!read_frame, W!handle_control_frame, W!data_frame, W!read_payload,
             W!read_payload_failed, W!message_timeout, W!decompress, W!deliver,
             W!compress, W!write_header, W!write_body, W!write_failed, W!shutdown,
             W!socket_close
    <3>4. CASE W!Expire
      BY <3>1, <3>4 DEF W!Expire
    <3> QED
      BY <2>6, <3>2, <3>3, <3>4 DEF WriterMoves, W!Next
  <2>7. Calls
    BY <1>1 DEF Inv
  <2> QED
    BY <1>1, <2>2, <2>3, <2>5, <2>6, <2>7, NextCases
<1>2. Inv /\ [Next]_vars
        => [sock # "open" => /\ rpc = "idle" => rpc' = "idle"
                             /\ wpc = "idle" => wpc' = "idle"]_vars
  BY <1>1
<1> QED
  BY <1>2, InvAlways, PTL DEF Spec, NoCallAfterShutdown

(* Whatever the writer does while read_message is suspended, closing the
   client included, a message returned to the reader is the server's, and as
   long as the user may go on read_state_ and the buffers hold the message in
   progress, provided that the user leaves its Buffer alone between the calls. *)
THEOREM AsyncReaderIntegrity == ~UserClears => (Spec => []ReaderIntegrity)
<1> SUFFICES ASSUME ~UserClears
             PROVE  Spec => []ReaderIntegrity
  OBVIOUS
<1>1. Init => RP!Reading /\ RP!MessageIntegrity
  BY InitInv
<1>2. Inv /\ RP!Reading /\ RP!MessageIntegrity /\ [Next]_vars
        => (RP!Reading /\ RP!MessageIntegrity)'
  <2>1. Inv /\ RP!Reading /\ RP!MessageIntegrity /\ Next
          => RP!Reading' /\ RP!MessageIntegrity'
    BY ReadingStep DEF Inv
  <2>2. RP!Reading /\ RP!MessageIntegrity /\ UNCHANGED vars
          => RP!Reading' /\ RP!MessageIntegrity'
    BY ReadingKept DEF vars, client, reader
  <2> QED
    BY <2>1, <2>2
<1>3. RP!Reading /\ RP!MessageIntegrity => ReaderIntegrity
  <2> SUFFICES ASSUME RP!Reading, RP!MessageIntegrity
               PROVE  R!MessageIntegrity /\ R!ReadStateInStep
    BY DEF ReaderIntegrity
  <2>1. RP!ReadStateInStep
    BY DEF RP!Reading, RP!Readable, RP!ReadPlaces, RP!Codes, RP!InStep, RP!Holds,
           RP!ReadStateInStep
  <2> QED
    BY <2>1, ReaderSame
<1> QED
  BY <1>1, <1>2, <1>3, InvAlways, PTL DEF Spec

=============================================================================
