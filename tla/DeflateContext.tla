---------------------------- MODULE DeflateContext ----------------------------
(***************************************************************************)
(* PermessageDeflate.hpp, class PermessageDeflateContext: the negotiated   *)
(* extension at work between this client and a server.                     *)
(*                                                                         *)
(* zlib is modelled by what the two ends have to agree on.  A compressed   *)
(* message refers to data at most a window back, within itself or in the   *)
(* messages before it; whoever inflates it needs a window as large and,    *)
(* for the earlier messages, a history that was not reset.  Sizes are      *)
(* bytes, as the buffers count them.                                       *)
(*                                                                         *)
(* The server means what it says in its header: it compresses with the     *)
(* window and the resets that it announces there, or with less, and        *)
(* inflates our messages with what it demands of us.                       *)
(***************************************************************************)
EXTENDS PermessageDeflate, FiniteSetsExt

CONSTANTS
  Requests,      (* the parameters requested, a subset of Defs *)
  Inflated,      (* sizes of messages, inflated *)
  Deflated,      (* sizes of compressed payloads *)
  BufMax,        (* max_size of the user's buffer *)
  CompMax,       (* compress_buffer_size *)
  FinalBlocks,   (* whether the server may end a message with a final block *)
  EmptyMessages  (* whether the user may send messages without data *)

VARIABLES
  request, header,   (* what was asked for and what the server answered *)
  def,               (* def_: the parameters as negotiated *)
  phase,             (* offer, init, on, off, failed *)
  why,               (* what failed *)
  istate, ostate,    (* the inflate and the deflate stream *)
  server,            (* the server's side: history of its two streams, and
                        whether it could inflate what it got *)
  pc, job            (* the call in progress and its message *)

vars == <<request, header, def, phase, why, istate, ostate, server, pc, job>>
settings == <<request, header, def, phase>>

NoJob == [n |-> 0, left |-> 0, in |-> 0, used |-> 0, reach |-> 0, back |-> FALSE,
          final |-> FALSE]
NoStream == [win |-> 0, hist |-> FALSE, done |-> FALSE, last |-> "none"]
Fresh(bits) == [NoStream EXCEPT !.win = bits]

Init ==
  /\ request \in Requests /\ def = request
  /\ header \in Headers
  /\ phase = "offer" /\ why = "none"
  /\ istate = NoStream /\ ostate = NoStream
  /\ server = [deflate |-> FALSE, inflate |-> FALSE, broken |-> FALSE]
  /\ pc = "idle" /\ job = NoJob

(* what the server has announced in its header *)
Announced(key) == key \in Keys(header)
Window(key) == IF Announced(key) THEN parse_WebSocketExtensions(header)[key]
               ELSE default_max_window_bits

Failed(reason) ==
  /\ phase' = "failed" /\ why' = reason
  /\ pc' = "idle" /\ job' = NoJob
  /\ UNCHANGED <<request, header, def, istate, ostate, server>>

-----------------------------------------------------------------------------

Negotiate ==
  /\ phase = "offer"
  /\ LET result == negotiate(def, header) IN
     /\ def' = result.def
     /\ phase' = CASE result.on = "on" -> "init"
                   [] result.on = "off" -> "off"
                   [] OTHER -> "failed"
     /\ why' = IF result.on = "refused" THEN "refused" ELSE why
  /\ UNCHANGED <<request, header, istate, ostate, server, pc, job>>

(* zlib has no raw deflate stream with a window of 8 bits. *)
deflateInit2(bits) == bits # 8

(* init(): both buffers, then both streams *)
init ==
  /\ phase = "init"
  /\ \/ /\ deflateInit2(def.client_max_window_bits)
        /\ istate' = Fresh(def.server_max_window_bits)
        /\ ostate' = Fresh(def.client_max_window_bits)
        /\ phase' = "on"
        /\ UNCHANGED <<request, header, def, why, server, pc, job>>
     \/ ~deflateInit2(def.client_max_window_bits) /\ Failed("deflateInit2")

-----------------------------------------------------------------------------
(* decompress *)

(* The server sends a message, compressed as its header allows. *)
ServerSends ==
  /\ phase = "on" /\ pc = "idle"
  /\ \E n \in Inflated, c \in Deflated, reach \in {0, Window("server_max_window_bits")},
        back \in {FALSE, server.deflate}, final \in {FALSE, FinalBlocks},
        keep \in {FALSE, ~Announced("server_no_context_takeover")} :
       /\ job' = [n |-> n, left |-> n, in |-> c, used |-> 0, reach |-> reach,
                  back |-> back, final |-> final]
       /\ server' = [server EXCEPT !.deflate = (keep /\ (@ \/ n > 0))]
  /\ pc' = "input"
  /\ UNCHANGED <<settings, why, istate, ostate>>

Inflatable == job.reach <= istate.win /\ (job.back => istate.hist)

(* output.append(max(min_output_size, avail_in * 5)) *)
OutputRoom == Max({IF pc = "input" THEN 64 ELSE 1, 5 * job.in})

InflateError ==
  CASE job.used + OutputRoom > BufMax -> "append"
    [] job.used + OutputRoom <= BufMax /\ ~Inflatable /\ ~istate.done -> "inflate"
    [] OTHER -> "none"

(* Mutant: the unused end of the output buffer is kept. *)
DiscardedMutant(room, out) == job.used + room

(* output.discard_end(avail_out) *)
Discarded(room, out) == job.used + out

(* Mutant: no loop, what does not fit into the first round is left behind. *)
AgainMutant(room, out) == FALSE

(* while (avail_out == 0), for both directions *)
Again(room, out) == out = room

(* inflate_input: one iteration, first for the payload, then for the trailer
   00 00 ff ff.  A stream that has come to its end takes no more input. *)
inflate_input ==
  /\ pc \in {"input", "trailer"}
  /\ \/ InflateError # "none" /\ Failed(InflateError)
     \/ LET out == IF istate.done THEN 0 ELSE Min({OutputRoom, job.left}) IN
        /\ InflateError = "none"
        /\ \E in \in IF out < job.left THEN {0, job.in} ELSE {0} :
             \/ /\ Again(OutputRoom, out)
                /\ job' = [job EXCEPT !.left = @ - out, !.in = in,
                                      !.used = Discarded(OutputRoom, out)]
                /\ UNCHANGED <<pc, istate>>
             \/ /\ ~Again(OutputRoom, out) /\ pc = "input"
                /\ job' = [job EXCEPT !.left = @ - out, !.in = 4,
                                      !.used = Discarded(OutputRoom, out)]
                /\ pc' = "trailer"
                /\ istate' = [istate EXCEPT !.hist = (@ \/ job.n > 0),
                                            !.done = (@ \/ job.final)]
             \/ /\ ~Again(OutputRoom, out) /\ pc = "trailer"
                /\ job' = [job EXCEPT !.left = @ - out, !.in = 0,
                                      !.used = Discarded(OutputRoom, out)]
                /\ pc' = "inflated"
                /\ UNCHANGED istate
        /\ UNCHANGED <<settings, why, ostate, server>>

(* inflateEnd and inflateInit2 without context takeover; the message is
   returned *)
decompress_end ==
  /\ pc = "inflated"
  /\ istate' = IF def.server_no_context_takeover THEN Fresh(def.server_max_window_bits)
               ELSE istate
  /\ pc' = "idle" /\ job' = NoJob
  /\ UNCHANGED <<settings, why, ostate, server>>

-----------------------------------------------------------------------------
(* compress *)

flush_mode == IF def.client_no_context_takeover THEN "full" ELSE "sync"

(* The user sends a message of n bytes.  deflate has nothing to do when
   there is no input and the last call flushed the same way. *)
compress ==
  /\ phase = "on" /\ pc = "idle"
  /\ \E n \in IF EmptyMessages THEN Inflated ELSE Inflated \ {0}, c \in Deflated,
        reach \in {0, ostate.win}, back \in {FALSE, ostate.hist} :
       LET idle == n = 0 /\ ostate.last = flush_mode IN
       job' = [n |-> n, left |-> IF idle THEN 0 ELSE c + 4, in |-> n, used |-> 0,
               reach |-> reach, back |-> back, final |-> FALSE]
  /\ pc' = "deflate"
  /\ UNCHANGED <<settings, why, istate, ostate, server>>

(* one iteration of the loop around deflate *)
deflate_loop ==
  /\ pc = "deflate"
  /\ LET room == Max({64, job.in})
         out == Min({room, job.left})
     IN
     \/ job.used + room > CompMax /\ Failed("append")
     \/ /\ job.used + room <= CompMax
        /\ \E in \in IF out < job.left THEN {0, job.in} ELSE {0} :
             job' = [job EXCEPT !.left = @ - out, !.in = in, !.used = @ + out]
        /\ pc' = IF Again(room, out) THEN pc ELSE "deflated"
        /\ ostate' = [ostate EXCEPT !.last = flush_mode, !.hist = (@ \/ job.n > 0)]
        /\ UNCHANGED <<settings, why, istate, server>>

(* deflateReset without context takeover *)
Reset == IF def.client_no_context_takeover THEN Fresh(ostate.win) ELSE ostate

(* the trailer 00 00 ff ff is removed *)
Payload == IF job.used >= 4 THEN job.used - 4 ELSE job.used

(* The server gets the payload, appends the trailer again and inflates: that
   needs all of it, and at least the byte with the header of the flush's block. *)
ServerInflates ==
  server' = [server EXCEPT
    !.broken = @ \/ job.left # 0 \/ Payload = 0
                 \/ job.reach > Window("client_max_window_bits")
                 \/ (job.back /\ ~server.inflate),
    !.inflate = ~Announced("client_no_context_takeover") /\ (@ \/ job.n > 0)]

compress_end ==
  /\ pc = "deflated"
  /\ ostate' = Reset
  /\ ServerInflates
  /\ pc' = "idle" /\ job' = NoJob
  /\ UNCHANGED <<settings, why, istate>>

-----------------------------------------------------------------------------

Step == inflate_input \/ decompress_end \/ deflate_loop \/ compress_end
Next == Negotiate \/ init \/ ServerSends \/ compress \/ Step
Spec == Init /\ [][Next]_vars /\ WF_vars(Step)

-----------------------------------------------------------------------------

(* Whatever response was accepted, inflate never rejects a message that the
   server has compressed as it announced: our window is large enough and our
   history is kept as long as the server's. *)
ServerMessagesInflate == why # "inflate"

(* Whatever response was accepted, the server gets all of each of our messages and
   can inflate it with the window and the history it has told us to expect.  A
   response that demands no context takeover binds us although we did not offer
   it (RFC 7692, section 7.1.1.2); UnrequestedTakeoverIsAllowed is what the
   comment in negotiate_client_no_context_takeover says of this case. *)
OurMessagesInflate == ~server.broken

(* decompress returns all bytes of the message and no others, over all
   rounds of enlarging the output buffer. *)
InflatedWhole == pc = "inflated" => job.left = 0 /\ job.used = job.n

(* "The message is read into the provided buffer, which must have enough
   space to hold the message": that much space is enough. *)
SpaceForMessageIsEnough ==
  [][why' = "append" /\ pc \in {"input", "trailer"} => job.n > BufMax]_vars

(* "Maximum size of the client's LZ77 sliding window in bits, between 8 and
   15": a size that was negotiated can be used. *)
NegotiatedIsUsable == why # "deflateInit2"

(* The table above negotiate_client_max_window_bits: not in the offer and in
   the response is an "ERROR!". *)
UnrequestedWindowIsError ==
  /\ phase \in {"init", "on"}
  /\ "client_max_window_bits" \notin Keys(get_SecWebSocketExtensions_value(request))
  => ~Announced("client_max_window_bits")

(* "False  True  Client may use context takeover", in the table of
   negotiate_client_no_context_takeover: not requested, a response with the
   parameter leaves the client's takeover as it was.  RFC 7692 and StreamsFit
   want what the code does. *)
UnrequestedTakeoverIsAllowed ==
  phase \in {"init", "on"} /\ ~request.client_no_context_takeover
    => ~def.client_no_context_takeover

(* The table above negotiate_server_no_context_takeover: requested is
   "True", whatever the response says. *)
RequestedTakeoverIsKept ==
  phase \in {"init", "on"} /\ request.server_no_context_takeover
    => def.server_no_context_takeover
=============================================================================
