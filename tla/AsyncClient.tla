----------------------------- MODULE AsyncClient -----------------------------
(***************************************************************************)
(* WebSocketClientAsync.hpp: the awaitable client, used by two coroutines  *)
(* of one executor.  The reader performs the handshake and reads messages, *)
(* the writer sends, and either may call close(), also while the other one *)
(* is suspended in a call.                                                 *)
(*                                                                         *)
(* The awaitable client has the statements of the blocking one with a      *)
(* co_await at each socket call, where the steps of WebSocketClient end;   *)
(* each coroutine therefore runs an instance of that module, with its own  *)
(* place in the call, frame and timeout, and with the client's members in  *)
(* common.  A coroutine is interleaved with the other only where it waits  *)
(* for the socket.                                                         *)
(*                                                                         *)
(* The user synchronizes as the README demands: no two frames are written  *)
(* at the same time, and after an error of either coroutine the connection *)
(* is failed.                                                              *)
(***************************************************************************)
EXTENDS Integers, Sequences

CONSTANTS BufMax, DecMax, Sizes, MaxControl, Faults, UserClears

ASSUME ClientAssumption ==   (* what WebSocketClient assumes of them *)
  /\ BufMax \in Nat /\ DecMax \in Nat /\ MaxControl \in Nat
  /\ Sizes \subseteq Nat
  /\ Faults \subseteq {"handshake", "close"}
  /\ UserClears \in BOOLEAN

VARIABLES
  closed, pmd, rs, buf, dec, sock, hs, out, rfc, due, ahead,
                                            (* members, see WebSocketClient *)
  rpc, rframe, rwr, rexpired, rres, rmust,  (* the reader's call *)
  wpc, wframe, wwr, wexpired, wres, wmust   (* the writer's call *)

client == <<closed, pmd, rs, buf, dec, sock, hs, out, rfc, due, ahead>>
reader == <<rpc, rframe, rwr, rexpired, rres, rmust>>
writer == <<wpc, wframe, wwr, wexpired, wres, wmust>>
vars == <<client, reader, writer>>

R == INSTANCE WebSocketClient
       WITH pc <- rpc, frame <- rframe, wr <- rwr, expired <- rexpired,
            res <- rres, must <- rmust
W == INSTANCE WebSocketClient
       WITH pc <- wpc, frame <- wframe, wr <- wwr, expired <- wexpired,
            res <- wres, must <- wmust

Init == R!Init /\ W!Init

-----------------------------------------------------------------------------

(* A coroutine that is at one of these places waits for the socket (or is
   between two calls); at every other place it runs. *)
Suspended(pc, frame) ==
  \/ pc \in {"idle", "handshake", "loop", "payload", "header", "body", "sockclose"}
  \/ pc = "dispatch" /\ frame.op \in R!ControlOps

(* One executor: a coroutine resumes only when the other one is suspended. *)
ReaderRuns == Suspended(wpc, wframe) /\ UNCHANGED writer
WriterRuns == Suspended(rpc, rframe) /\ UNCHANGED reader

(* The user's part: a call that writes starts when no other one is writing,
   and when either coroutine has had an error or a close frame, close() is
   the only call, after an error with a code that fails the connection. *)
Writing(pc) == pc \in {"compress", "header", "body"}
MayCall == rmust = "free" /\ wmust = "free"
MustFail == rmust \in R!Codes \/ wmust \in R!Codes

-----------------------------------------------------------------------------
(* The reader *)

handshake == ReaderRuns /\ R!handshake
handshake_end == ReaderRuns /\ (R!handshake_done \/ R!handshake_failed)

(* can_read() looks at the ring and the socket and does not wait; it does
   not look at closed_ either, but a closed socket answers with an error
   unless the ring still holds bytes. *)
can_read ==
  /\ ReaderRuns /\ MayCall
  /\ rpc = "idle" /\ hs = "done"
  /\ \E r \in {R!Ok, R!Nothing, R!WSError("not_set")} :
       /\ sock = "closed" => r # R!Nothing
       /\ R!Return(r)
  /\ UNCHANGED <<client, rexpired>>

read_message == ReaderRuns /\ MayCall /\ R!read_message
read_frame == ReaderRuns /\ R!read_frame
handle_control_frame == ReaderRuns /\ R!handle_control_frame
data_frame == ReaderRuns /\ R!data_frame
read_payload == ReaderRuns /\ (R!read_payload \/ R!read_payload_failed)
message_timeout == ReaderRuns /\ R!message_timeout
deliver == ReaderRuns /\ (R!decompress \/ R!deliver)

-----------------------------------------------------------------------------
(* The writer *)

(* Binary messages differ from text in the opcode only. *)
send_message ==
  /\ WriterRuns /\ MayCall /\ ~Writing(rpc)
  /\ W!send_message /\ wwr'.op # "binary"
compress == WriterRuns /\ W!compress
send_pong_frame == WriterRuns /\ MayCall /\ ~Writing(rpc) /\ W!send_pong_frame

-----------------------------------------------------------------------------
(* Both *)

(* The steps of write_frame: nothing is written to a socket that close() of
   the other coroutine has shut down; the write pending there is cancelled. *)
write_frame ==
  \/ ReaderRuns /\ sock = "open" /\ (R!write_header \/ R!write_body)
  \/ WriterRuns /\ sock = "open" /\ (W!write_header \/ W!write_body)

write_failed ==
  \/ ReaderRuns /\ R!write_failed /\ (sock = "open" \/ out' = out)
  \/ WriterRuns /\ W!write_failed /\ (sock = "open" \/ out' = out)

(* close(code), up to the close frame *)
close ==
  \/ /\ ReaderRuns /\ R!close
     /\ closed \/ rwr'.fail_conn \/ (~Writing(wpc) /\ ~MustFail)
  \/ /\ WriterRuns /\ W!close
     /\ closed \/ wwr'.fail_conn \/ (~Writing(rpc) /\ ~MustFail)

(* shutdown() and close() of a socket that is closed already leave it so. *)
Shut == IF sock = "closed" THEN sock ELSE "shut"

(* Mutant: closed_ is set after the socket has been shut down. *)
shutdownMutant ==
  /\ sock' = Shut
  /\ \/ ReaderRuns /\ rpc = "shutdown" /\ rpc' = "sockclose"
        /\ UNCHANGED <<rframe, rwr, rexpired, rres, rmust>>
     \/ WriterRuns /\ wpc = "shutdown" /\ wpc' = "sockclose"
        /\ UNCHANGED <<wframe, wwr, wexpired, wres, wmust>>
  /\ UNCHANGED <<closed, pmd, rs, buf, dec, hs, out, rfc, due, ahead>>

(* closed_ = true, then co_await shutdown(), which cancels what is pending *)
shutdown ==
  /\ closed' = TRUE
  /\ sock' = Shut
  /\ \/ ReaderRuns /\ rpc = "shutdown" /\ rpc' = "sockclose"
        /\ UNCHANGED <<rframe, rwr, rexpired, rres, rmust>>
     \/ WriterRuns /\ wpc = "shutdown" /\ wpc' = "sockclose"
        /\ UNCHANGED <<wframe, wwr, wexpired, wres, wmust>>
  /\ UNCHANGED <<pmd, rs, buf, dec, hs, out, rfc, due, ahead>>

(* co_await close() of the socket, whose error is returned *)
socket_close ==
  \/ ReaderRuns /\ R!socket_close
  \/ WriterRuns /\ W!socket_close

Expire ==
  \/ R!Expire /\ UNCHANGED writer
  \/ W!Expire /\ UNCHANGED reader

-----------------------------------------------------------------------------

Call == handshake \/ can_read \/ read_message \/ send_message \/ send_pong_frame \/ close

Step ==
  \/ handshake_end
  \/ read_frame \/ handle_control_frame \/ data_frame \/ read_payload
  \/ message_timeout \/ deliver
  \/ compress \/ write_frame \/ write_failed
  \/ shutdown \/ socket_close

Next == Call \/ Step \/ Expire

ReaderSteps == Step /\ UNCHANGED writer
WriterSteps == Step /\ UNCHANGED reader

(* Every socket operation ends, by its timeout, by cancellation or by
   itself, and the executor resumes the coroutine that waits for it. *)
Spec == Init /\ [][Next]_vars
FairSpec ==
  /\ Spec
  /\ SF_vars(ReaderSteps) /\ SF_vars(WriterSteps)
  /\ WF_vars(R!Expire /\ UNCHANGED writer) /\ WF_vars(W!Expire /\ UNCHANGED reader)

-----------------------------------------------------------------------------

(* The client's members and both calls are well formed. *)
TypeOK == R!TypeOK /\ W!TypeOK

(* Whatever the writer did while read_message was suspended, a message returned to
   the reader is the server's, and as long as the user may go on, read_state_ and
   the buffers hold the message in progress: a failing close() of the reader's
   socket does not disturb them either. *)
ReaderIntegrity ==
  /\ R!MessageIntegrity
  /\ wpc = "idle" => R!ReadStateInStep

(* With a close() of one coroutine between any two steps of a frame that the
   other one writes, the server still gets whole frames of which only the
   last may be cut off, one close frame at most, and nothing behind it. *)
WireWellFormed == out # "garbage"

(* Once either coroutine has begun to shut the socket down, no call of either
   gets past its check of closed_: what is still under way was under way
   before. *)
NoCallAfterShutdown ==
  [][sock # "open" => /\ rpc = "idle" => rpc' = "idle"
                      /\ wpc = "idle" => wpc' = "idle"]_vars

(* Every call of both coroutines returns, the reader's also when the writer
   closes the connection under it. *)
CallsReturn == (rpc # "idle" ~> rpc = "idle") /\ (wpc # "idle" ~> wpc = "idle")

(* close() "shuts down the socket communication, and closes the underlying
   socket connection": a close() that returns success at once, because the
   client of an established connection is closed, finds the socket closed. *)
CloseMeansClosed == [][close /\ closed /\ hs = "done" => sock = "closed"]_vars
=============================================================================
