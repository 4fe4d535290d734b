----------------------------- MODULE StreamProofs -----------------------------
(***************************************************************************)
(* Two parts of Codecs that work through a stream in pieces, for every     *)
(* value of the constants: the compression streams of permessage-deflate   *)
(* and the blocks of SHA-1.                                                *)
(***************************************************************************)
EXTENDS Codecs, TLAPS

-----------------------------------------------------------------------------
(* permessage-deflate: the invariant *)

SERVER_BITS == "server_max_window_bits"
CLIENT_BITS == "client_max_window_bits"
SERVER_RESETS == "server_no_context_takeover"
CLIENT_RESETS == "client_no_context_takeover"

Streams == [win : Nat, hist : BOOLEAN, done : BOOLEAN, last : {"none", "full", "sync"}]
Jobs == [n : Nat, left : Nat, in : Nat, used : Nat, reach : Nat, back : BOOLEAN,
         final : BOOLEAN]
Servers == [deflate : BOOLEAN, inflate : BOOLEAN, broken : BOOLEAN]

CtxTyped ==
  /\ phase \in {"offer", "init", "on", "off", "failed"}
  /\ pc \in {"idle", "input", "trailer", "inflated", "deflate", "deflated"}
  /\ pc # "idle" => phase = "on"
  /\ istate \in Streams /\ ostate \in Streams /\ server \in Servers /\ job \in Jobs
  /\ phase = "offer" => def \in Context!Defs

(* Once the response is accepted, the parameters are those of its header: the
   server's history ends where ours does, or earlier, and ours where the
   server's does. *)
Settled ==
  phase \in {"init", "on"} =>
    /\ def.server_max_window_bits \in Nat /\ def.client_max_window_bits \in Nat
    /\ def.server_max_window_bits = Context!Window(SERVER_BITS)
    /\ def.client_max_window_bits = Context!Window(CLIENT_BITS)
    /\ def.server_no_context_takeover => Context!Announced(SERVER_RESETS)
    /\ Context!Announced(CLIENT_RESETS) => def.client_no_context_takeover

(* The two ends of the server's messages. *)
Inbound ==
  /\ phase \in {"offer", "init"} => ~server.deflate
  /\ phase = "on" =>
       /\ istate.win = def.server_max_window_bits /\ ~istate.done
       /\ Context!Announced(SERVER_RESETS) => ~server.deflate
       /\ server.deflate => istate.hist \/ (pc = "input" /\ job.n > 0)

(* The two ends of ours.  While a message is compressed and not sent, our
   history may be ahead. *)
Outbound ==
  /\ ~server.broken
  /\ phase = "on" =>
       /\ ostate.win = def.client_max_window_bits
       /\ ostate.hist => server.inflate \/ pc \in {"deflate", "deflated"}

(* The message that is inflated: what is left of it, and what it needs. *)
Inflating ==
  pc \in {"input", "trailer", "inflated"} =>
    /\ job.left + job.used = job.n /\ ~job.final
    /\ job.reach <= istate.win /\ (job.back => istate.hist)
    /\ pc # "input" => job.left = 0

(* The message that is compressed: more than the trailer comes out of it. *)
Deflating ==
  pc \in {"deflate", "deflated"} =>
    /\ job.n > 0 /\ job.left + job.used > 4
    /\ job.reach <= ostate.win /\ (job.back => server.inflate)
    /\ pc = "deflated" => job.left = 0

CtxInv ==
  /\ CtxTyped /\ Settled /\ Inbound /\ Outbound /\ Inflating /\ Deflating
  /\ why # "inflate"

-----------------------------------------------------------------------------
(* permessage-deflate: the steps *)

LEMMA NoJobType == Context!NoJob \in Jobs
BY DEF Context!NoJob, Jobs

LEMMA FreshStream ==
  ASSUME NEW bits \in Nat
  PROVE  /\ Context!Fresh(bits) \in Streams
         /\ Context!Fresh(bits).win = bits
         /\ ~Context!Fresh(bits).hist /\ ~Context!Fresh(bits).done
BY DEF Context!Fresh, Context!NoStream, Streams

LEMMA CtxInit ==
  ASSUME Context!Init
  PROVE  CtxInv
<1>1. Context!NoStream \in Streams
  BY DEF Context!NoStream, Streams
<1>2. server \in Servers /\ ~server.deflate /\ ~server.broken
  BY DEF Context!Init, Servers
<1>3. def \in Context!Defs
  BY DEF Context!Init, Context!Defs, DeflateOffers!Defs
<1>4. CtxTyped
  BY <1>1, <1>2, <1>3, NoJobType DEF Context!Init, CtxTyped
<1> QED
  BY <1>2, <1>4 DEF Context!Init, CtxInv, Settled, Inbound, Outbound, Inflating, Deflating

(* An error ends the call and the use of the streams. *)
LEMMA CtxFailed ==
  ASSUME CtxInv, NEW reason, reason # "inflate", Context!Failed(reason)
  PROVE  CtxInv'
<1>1. /\ phase' = "failed" /\ why' = reason /\ pc' = "idle" /\ job' = Context!NoJob
      /\ UNCHANGED <<request, header, def, istate, ostate, server>>
  BY DEF Context!Failed
<1>2. CtxTyped'
  BY <1>1, NoJobType DEF CtxInv, CtxTyped
<1> QED
  BY <1>1, <1>2 DEF CtxInv, Settled, Inbound, Outbound, Inflating, Deflating

(* negotiate(): what it makes of the parameters when it accepts the response *)
LEMMA AcceptedParameters ==
  ASSUME NEW d \in Context!Defs, NEW h, Context!negotiate(d, h).on = "on"
  PROVE  LET ext == Context!parse_WebSocketExtensions(h)
             r == Context!negotiate(d, h).def
         IN  /\ IF SERVER_BITS \in DOMAIN ext
                THEN /\ r.server_max_window_bits = ext[SERVER_BITS]
                     /\ r.server_max_window_bits \in 8..15
                ELSE r.server_max_window_bits = 15
             /\ IF CLIENT_BITS \in DOMAIN ext
                THEN /\ r.client_max_window_bits = ext[CLIENT_BITS]
                     /\ r.client_max_window_bits \in 8..15
                ELSE r.client_max_window_bits = 15
             /\ r.server_no_context_takeover => SERVER_RESETS \in DOMAIN ext
             /\ CLIENT_RESETS \in DOMAIN ext => r.client_no_context_takeover
<1> DEFINE ext == Context!parse_WebSocketExtensions(h)
           r1 == Context!negotiate_server_no_context_takeover(d, ext)
           r2 == Context!negotiate_client_no_context_takeover(r1.def, ext)
           r3 == Context!negotiate_server_max_window_bits(r2.def, ext)
           r4 == Context!negotiate_client_max_window_bits(r3.def, ext)
           Fields == {SERVER_BITS, CLIENT_BITS, SERVER_RESETS, CLIENT_RESETS}
<1>1. d = [f \in Fields |-> d[f]]
  BY DEF Context!Defs, SERVER_BITS, CLIENT_BITS, SERVER_RESETS, CLIENT_RESETS
<1>2. Context!negotiate(d, h) =
        IF "permessage-deflate" \notin DOMAIN ext THEN [on |-> "off", def |-> d]
        ELSE IF ~r3.ok THEN [on |-> "refused", def |-> r3.def]
        ELSE [on |-> IF r4.ok THEN "on" ELSE "refused", def |-> r4.def]
  BY DEF Context!negotiate
<1> HIDE DEF ext, r4, r3
<1>3. r3.ok /\ r4.ok /\ Context!negotiate(d, h).def = r4.def
  BY <1>2
<1>4. /\ r1.def = [d EXCEPT ![SERVER_RESETS] = SERVER_RESETS \in DOMAIN ext]
      /\ r2.def = [r1.def EXCEPT ![CLIENT_RESETS] = @ \/ CLIENT_RESETS \in DOMAIN ext]
  BY DEF Context!negotiate_server_no_context_takeover, Context!Agreed, SERVER_RESETS,
         Context!negotiate_client_no_context_takeover, CLIENT_RESETS
<1>5. /\ r3.def = [r2.def EXCEPT ![SERVER_BITS] =
                     IF SERVER_BITS \in DOMAIN ext THEN ext[SERVER_BITS] ELSE 15]
      /\ SERVER_BITS \in DOMAIN ext => ext[SERVER_BITS] \in 8..15
  <2> HIDE DEF r1, r2
  <2> USE DEF r3, Context!negotiate_server_max_window_bits, Context!Agreed, Context!Refused,
             Context!default_max_window_bits, Context!parse_window_bits, SERVER_BITS
  <2>1. CASE SERVER_BITS \notin DOMAIN ext
    BY <2>1
  <2>2. CASE SERVER_BITS \in DOMAIN ext
    BY <1>3, <2>2
  <2> QED
    BY <2>1, <2>2
<1>6. /\ r4.def = [r3.def EXCEPT ![CLIENT_BITS] =
                     IF CLIENT_BITS \in DOMAIN ext THEN ext[CLIENT_BITS] ELSE 15]
      /\ CLIENT_BITS \in DOMAIN ext => ext[CLIENT_BITS] \in 8..15
  <2> USE DEF r4, Context!negotiate_client_max_window_bits, Context!Agreed, Context!Refused,
             Context!default_max_window_bits, Context!parse_window_bits, CLIENT_BITS
  <2>1. CASE CLIENT_BITS \notin DOMAIN ext
    BY <2>1
  <2>2. CASE CLIENT_BITS \in DOMAIN ext
    BY <1>3, <2>2
  <2> QED
    BY <2>1, <2>2
<1> HIDE DEF r1, r2
<1>7. /\ SERVER_BITS # CLIENT_BITS /\ SERVER_BITS # SERVER_RESETS /\ SERVER_BITS # CLIENT_RESETS
      /\ CLIENT_BITS # SERVER_RESETS /\ CLIENT_BITS # CLIENT_RESETS
      /\ SERVER_RESETS # CLIENT_RESETS
  BY DEF SERVER_BITS, CLIENT_BITS, SERVER_RESETS, CLIENT_RESETS
<1>8. /\ r1.def = [f \in Fields |-> IF f = SERVER_RESETS THEN SERVER_RESETS \in DOMAIN ext
                                    ELSE d[f]]
      /\ r1.def[SERVER_RESETS] = (SERVER_RESETS \in DOMAIN ext)
  BY <1>1, <1>4, Zenon
<1>9. /\ DOMAIN r2.def = Fields /\ r2.def[SERVER_RESETS] = (SERVER_RESETS \in DOMAIN ext)
      /\ CLIENT_RESETS \in DOMAIN ext => r2.def[CLIENT_RESETS]
  BY <1>4, <1>7, <1>8, Zenon
<1>10. /\ DOMAIN r3.def = Fields /\ r3.def[SERVER_RESETS] = r2.def[SERVER_RESETS]
       /\ r3.def[CLIENT_RESETS] = r2.def[CLIENT_RESETS]
       /\ r3.def[SERVER_BITS] = IF SERVER_BITS \in DOMAIN ext THEN ext[SERVER_BITS] ELSE 15
  BY <1>5, <1>7, <1>9
<1>11. /\ DOMAIN r4.def = Fields /\ r4.def[SERVER_RESETS] = r2.def[SERVER_RESETS]
       /\ r4.def[CLIENT_RESETS] = r2.def[CLIENT_RESETS]
       /\ r4.def[SERVER_BITS] = r3.def[SERVER_BITS]
       /\ r4.def[CLIENT_BITS] = IF CLIENT_BITS \in DOMAIN ext THEN ext[CLIENT_BITS] ELSE 15
  BY <1>6, <1>7, <1>10
<1> DEFINE r == r4.def
<1>12. /\ r.server_max_window_bits = r[SERVER_BITS] /\ r.client_max_window_bits = r[CLIENT_BITS]
       /\ r.server_no_context_takeover = r[SERVER_RESETS]
       /\ r.client_no_context_takeover = r[CLIENT_RESETS]
  BY DEF SERVER_BITS, CLIENT_BITS, SERVER_RESETS, CLIENT_RESETS
<1> HIDE DEF r
<1>13. /\ SERVER_BITS \in DOMAIN ext => r[SERVER_BITS] = ext[SERVER_BITS]
                                        /\ r[SERVER_BITS] \in 8..15
       /\ SERVER_BITS \notin DOMAIN ext => r[SERVER_BITS] = 15
       /\ CLIENT_BITS \in DOMAIN ext => r[CLIENT_BITS] = ext[CLIENT_BITS]
                                        /\ r[CLIENT_BITS] \in 8..15
       /\ CLIENT_BITS \notin DOMAIN ext => r[CLIENT_BITS] = 15
  BY <1>5, <1>6, <1>10, <1>11 DEF r
<1>14. /\ r[SERVER_RESETS] = (SERVER_RESETS \in DOMAIN ext)
       /\ CLIENT_RESETS \in DOMAIN ext => r[CLIENT_RESETS]
  BY <1>9, <1>11, Zenon DEF r
<1>15. /\ r.server_no_context_takeover => SERVER_RESETS \in DOMAIN ext
       /\ CLIENT_RESETS \in DOMAIN ext => r.client_no_context_takeover
  BY <1>12, <1>14, Zenon
<1> QED
  BY <1>3, <1>12, <1>13, <1>15 DEF r, ext
LEMMA CtxNegotiate ==
  ASSUME CtxInv, Context!Negotiate
  PROVE  CtxInv'
<1> DEFINE answer == Context!negotiate(def, header)
<1>1. /\ phase = "offer" /\ pc = "idle" /\ def \in Context!Defs
      /\ def' = answer.def
      /\ phase' = (IF answer.on = "on" THEN "init" ELSE IF answer.on = "off" THEN "off" ELSE "failed")
      /\ why' # "inflate"
      /\ UNCHANGED <<request, header, istate, ostate, server, pc, job>>
  BY DEF CtxInv, CtxTyped, Context!Negotiate
<1> HIDE DEF answer
<1>2. CtxTyped'
  BY <1>1 DEF CtxInv, CtxTyped
<1>3. Settled'
  <2> SUFFICES ASSUME phase' = "init"
               PROVE  /\ def'.server_max_window_bits \in Nat
                      /\ def'.client_max_window_bits \in Nat
                      /\ def'.server_max_window_bits = Context!Window(SERVER_BITS)
                      /\ def'.client_max_window_bits = Context!Window(CLIENT_BITS)
                      /\ def'.server_no_context_takeover => Context!Announced(SERVER_RESETS)
                      /\ Context!Announced(CLIENT_RESETS) => def'.client_no_context_takeover
    BY <1>1 DEF Settled, Context!Window, Context!Announced
  <2>1. answer.on = "on"
    BY <1>1
  <2> DEFINE ext == Context!parse_WebSocketExtensions(header)
  <2>2. DOMAIN ext = Context!Keys(header)
    BY DEF Context!parse_WebSocketExtensions
  <2>3. /\ IF SERVER_BITS \in DOMAIN ext
           THEN /\ def'.server_max_window_bits = ext[SERVER_BITS]
                /\ def'.server_max_window_bits \in 8..15
           ELSE def'.server_max_window_bits = 15
        /\ IF CLIENT_BITS \in DOMAIN ext
           THEN /\ def'.client_max_window_bits = ext[CLIENT_BITS]
                /\ def'.client_max_window_bits \in 8..15
           ELSE def'.client_max_window_bits = 15
        /\ def'.server_no_context_takeover => SERVER_RESETS \in DOMAIN ext
        /\ CLIENT_RESETS \in DOMAIN ext => def'.client_no_context_takeover
    BY <1>1, <2>1, AcceptedParameters DEF answer
  <2> HIDE DEF ext
  <2>4. \A k : /\ Context!Announced(k) <=> k \in DOMAIN ext
               /\ Context!Window(k) = IF k \in DOMAIN ext THEN ext[k] ELSE 15
    BY <2>2 DEF ext, Context!Announced, Context!Window, Context!default_max_window_bits
  <2>5. /\ def'.server_max_window_bits \in Nat /\ def'.client_max_window_bits \in Nat
        /\ def'.server_max_window_bits = Context!Window(SERVER_BITS)
        /\ def'.client_max_window_bits = Context!Window(CLIENT_BITS)
    BY <2>3, <2>4
  <2> QED
    BY <2>3, <2>4, <2>5
<1> QED
  BY <1>1, <1>2, <1>3 DEF CtxInv, Inbound, Outbound, Inflating, Deflating

LEMMA CtxOpened ==
  ASSUME CtxInv, Context!init
  PROVE  CtxInv'
<1>1. phase = "init" /\ pc = "idle" /\ ~server.deflate
  BY DEF CtxInv, CtxTyped, Inbound, Context!init
<1>2. ASSUME Context!Failed("deflateInit2")
      PROVE  CtxInv'
  BY <1>2, CtxFailed
<1>3. ASSUME istate' = Context!Fresh(def.server_max_window_bits),
             ostate' = Context!Fresh(def.client_max_window_bits), phase' = "on",
             UNCHANGED <<request, header, def, why, server, pc, job>>
      PROVE  CtxInv'
  <2>1. /\ def.server_max_window_bits \in Nat /\ def.client_max_window_bits \in Nat
    BY <1>1 DEF CtxInv, Settled
  <2>2. /\ istate' \in Streams /\ ostate' \in Streams
        /\ istate'.win = def.server_max_window_bits
        /\ ostate'.win = def.client_max_window_bits
        /\ ~istate'.done /\ ~ostate'.hist
    BY <1>3, <2>1, FreshStream
  <2>3. CtxTyped'
    BY <1>1, <1>3, <2>2 DEF CtxInv, CtxTyped
  <2>4. Settled'
    BY <1>1, <1>3 DEF CtxInv, Settled, Context!Window, Context!Announced
  <2> QED
    BY <1>1, <1>3, <2>2, <2>3, <2>4 DEF CtxInv, Inbound, Outbound, Inflating, Deflating
<1> QED
  BY <1>2, <1>3 DEF Context!init

-----------------------------------------------------------------------------
(* permessage-deflate: a message of the server *)

LEMMA CtxReceives ==
  ASSUME CtxInv, Context!ServerSends
  PROVE  CtxInv'
<1>1. /\ phase = "on" /\ pc = "idle" /\ pc' = "input"
      /\ UNCHANGED <<request, header, def, phase, why, istate, ostate>>
  BY DEF Context!ServerSends, Context!settings
<1>2. PICK n \in Inflated, c \in Deflated,
           reach \in {0, Context!Window(SERVER_BITS)}, back \in {FALSE, server.deflate},
           keep \in {FALSE, ~Context!Announced(SERVER_RESETS)} :
        /\ job' = [n |-> n, left |-> n, in |-> c, used |-> 0, reach |-> reach,
                   back |-> back, final |-> FALSE]
        /\ server' = [server EXCEPT !.deflate = (keep /\ (@ \/ n > 0))]
  BY ZenonT(60) DEF Context!ServerSends, SERVER_BITS, SERVER_RESETS
<1>3. n \in Nat /\ c \in Nat
  BY CodecsAssumption
<1>4. /\ def.server_max_window_bits \in Nat
      /\ istate.win = Context!Window(SERVER_BITS) /\ ~istate.done
      /\ Context!Announced(SERVER_RESETS) => ~server.deflate
      /\ server.deflate => istate.hist
      /\ server \in Servers /\ istate \in Streams
  BY <1>1 DEF CtxInv, CtxTyped, Settled, Inbound
<1>5. server.deflate \in BOOLEAN /\ back \in BOOLEAN /\ (back => istate.hist)
  BY <1>4 DEF Servers
<1>6. reach \in Nat /\ reach <= istate.win
  BY <1>1, <1>4 DEF CtxInv, Settled, Inbound
<1>7. job' \in Jobs
  BY <1>2, <1>3, <1>5, <1>6 DEF Jobs
<1> DEFINE b == keep /\ (server.deflate \/ n > 0)
<1>8. b \in BOOLEAN /\ (b => ~Context!Announced(SERVER_RESETS)) /\ (b => n > 0 \/ server.deflate)
  OBVIOUS
<1>9. server' = [server EXCEPT !.deflate = b]
  BY <1>2
<1> HIDE DEF b
<1>10. server' \in Servers /\ server'.deflate = b /\ server'.inflate = server.inflate
       /\ server'.broken = server.broken
  BY <1>4, <1>8, <1>9 DEF Servers
<1>11. CtxTyped'
  BY <1>1, <1>7, <1>10 DEF CtxInv, CtxTyped
<1>12. Settled'
  BY <1>1 DEF CtxInv, Settled, Context!Window, Context!Announced
<1>13. Inbound'
  <2>1. server'.deflate => ~Context!Announced(SERVER_RESETS)
    BY <1>8, <1>10, Zenon
  <2>2. server'.deflate => istate.hist \/ n > 0
    BY <1>4, <1>8, <1>10, Zenon
  <2>3. job'.n = n
    BY <1>2
  <2> QED
    BY <1>1, <1>4, <2>1, <2>2, <2>3 DEF CtxInv, Inbound, Context!Announced
<1>14. Outbound'
  BY <1>1, <1>10 DEF CtxInv, Outbound
<1>15. Inflating'
  <2>1. /\ job'.left = n /\ job'.used = 0 /\ job'.n = n /\ job'.final = FALSE
        /\ job'.reach = reach /\ job'.back = back
    BY <1>2
  <2> QED
    BY <1>1, <1>3, <1>5, <1>6, <2>1 DEF Inflating
<1>16. Deflating' /\ why' # "inflate"
  BY <1>1 DEF CtxInv, Deflating
<1> QED
  BY <1>11, <1>12, <1>13, <1>14, <1>15, <1>16 DEF CtxInv
LEMMA SmallerOf ==
  ASSUME NEW a \in Nat, NEW b \in Nat
  PROVE  Context!Min({a, b}) = IF a <= b THEN a ELSE b
<1> DEFINE m == IF a <= b THEN a ELSE b
<1>1. m \in {a, b} /\ \A y \in {a, b} : m <= y
  OBVIOUS
<1>2. \A n \in {a, b} : (\A y \in {a, b} : n <= y) => n = m
  OBVIOUS
<1> HIDE DEF m
<1> QED
  BY <1>1, <1>2 DEF Context!Min, m

LEMMA LargerOf ==
  ASSUME NEW a \in Nat, NEW b \in Nat
  PROVE  Context!Max({a, b}) = IF a >= b THEN a ELSE b
<1> DEFINE m == IF a >= b THEN a ELSE b
<1>1. m \in {a, b} /\ \A y \in {a, b} : m >= y
  OBVIOUS
<1>2. \A n \in {a, b} : (\A y \in {a, b} : n >= y) => n = m
  OBVIOUS
<1> HIDE DEF m
<1> QED
  BY <1>1, <1>2 DEF Context!Max, m

(* One iteration of inflate_input: what comes out was left, and the loop ends
   only when nothing is left. *)
LEMMA CtxInflates ==
  ASSUME CtxInv, Context!inflate_input
  PROVE  CtxInv'
<1>1. /\ phase = "on" /\ pc \in {"input", "trailer"} /\ job \in Jobs /\ istate \in Streams
      /\ ~istate.done
      /\ job.left + job.used = job.n /\ ~job.final
      /\ job.reach <= istate.win /\ (job.back => istate.hist)
      /\ server.deflate => istate.hist \/ (pc = "input" /\ job.n > 0)
      /\ job.n \in Nat /\ job.left \in Nat /\ job.in \in Nat /\ job.used \in Nat
  BY DEF Context!inflate_input, CtxInv, CtxTyped, Inbound, Inflating, Jobs
<1>2. Context!InflateError # "inflate"
  BY <1>1 DEF Context!InflateError, Context!Inflatable
<1>3. CASE Context!Failed(Context!InflateError)
  BY <1>2, <1>3, CtxFailed
<1>4. CASE ~Context!Failed(Context!InflateError)
  <2> DEFINE room == Context!OutputRoom
             out == Context!Min({room, job.left})
  <2>1. room \in Nat
    <3>1. 5 * job.in \in Nat /\ (IF pc = "input" THEN 64 ELSE 1) \in Nat
      BY <1>1
    <3> QED
      BY <3>1, LargerOf DEF Context!OutputRoom
  <2> HIDE DEF room
  <2>2. out = IF room <= job.left THEN room ELSE job.left
    BY <1>1, <2>1, SmallerOf
  <2>3. PICK in \in {0, job.in} :
          \/ /\ out = room
             /\ job' = [job EXCEPT !.left = job.left - out, !.in = in, !.used = job.used + out]
             /\ UNCHANGED <<pc, istate>>
          \/ /\ out # room /\ pc = "input"
             /\ job' = [job EXCEPT !.left = job.left - out, !.in = 4, !.used = job.used + out]
             /\ pc' = "trailer"
             /\ istate' = [istate EXCEPT !.hist = (istate.hist \/ job.n > 0),
                                         !.done = (istate.done \/ job.final)]
          \/ /\ out # room /\ pc = "trailer"
             /\ job' = [job EXCEPT !.left = job.left - out, !.in = 0, !.used = job.used + out]
             /\ pc' = "inflated"
             /\ UNCHANGED istate
    BY <1>1, <1>4 DEF Context!inflate_input, Context!Again, Context!Discarded, room
  <2>4. UNCHANGED <<request, header, def, phase, why, ostate, server>>
    BY <1>4 DEF Context!inflate_input, Context!settings
  <2>5. /\ out \in Nat /\ out <= job.left /\ (out # room => out = job.left)
    BY <1>1, <2>1, <2>2
  <2> HIDE DEF out
  <2>6. /\ job' \in Jobs /\ job'.left = job.left - out /\ job'.used = job.used + out
        /\ job'.n = job.n /\ job'.reach = job.reach /\ job'.back = job.back
        /\ job'.final = job.final
    <3>1. /\ job.left - out \in Nat /\ job.used + out \in Nat /\ in \in Nat
      BY <1>1, <2>3, <2>5
    <3>2. PICK m \in Nat : job' = [job EXCEPT !.left = job.left - out, !.in = m,
                                             !.used = job.used + out]
      BY <2>3, <3>1
    <3> QED
      BY <1>1, <3>1, <3>2 DEF Jobs
  <2>7. /\ pc' \in {"input", "trailer", "inflated"} /\ (pc' = "input" => pc = "input")
        /\ pc' # pc => job'.left = 0
        /\ pc = "input" /\ pc' # pc => pc' = "trailer"
    BY <1>1, <2>3, <2>5, <2>6
  <2>8. /\ istate' \in Streams /\ istate'.win = istate.win /\ ~istate'.done
        /\ istate.hist => istate'.hist
        /\ (pc = "input" /\ pc' # pc /\ job.n > 0) => istate'.hist
    <3>1. CASE istate' = istate /\ ~(pc = "input" /\ pc' = "trailer")
      BY <1>1, <2>7, <3>1
    <3>2. CASE pc = "input" /\ pc' = "trailer"
      <4> DEFINE h == istate.hist \/ job.n > 0
                 d == istate.done \/ job.final
      <4>1. h \in BOOLEAN /\ d = FALSE /\ (istate.hist => h) /\ (job.n > 0 => h)
        BY <1>1
      <4>2. istate' = [istate EXCEPT !.hist = h, !.done = d]
        BY <2>3, <3>2
      <4> HIDE DEF h, d
      <4>3. istate' \in Streams /\ istate'.win = istate.win /\ istate'.hist = h
            /\ istate'.done = FALSE
        BY <1>1, <4>1, <4>2 DEF Streams
      <4> QED
        BY <4>1, <4>3, Zenon
    <3> QED
      BY <2>3, <3>1, <3>2
  <2>9. CtxTyped'
    BY <1>1, <2>4, <2>6, <2>7, <2>8 DEF CtxInv, CtxTyped
  <2>10. Settled'
    BY <2>4 DEF CtxInv, Settled, Context!Window, Context!Announced
  <2>11. Inbound'
    <3>1. server'.deflate => istate'.hist \/ (pc' = "input" /\ job'.n > 0)
      BY <1>1, <2>4, <2>6, <2>7, <2>8
    <3> QED
      BY <1>1, <2>4, <2>8, <3>1 DEF CtxInv, Inbound, Context!Announced
  <2>12. Outbound'
    BY <1>1, <2>4 DEF CtxInv, Outbound
  <2>13. Inflating'
    <3>1. job'.left + job'.used = job'.n
      BY <1>1, <2>5, <2>6
    <3>2. job'.back => istate'.hist
      BY <1>1, <2>6, <2>8
    <3>3. pc' # "input" => job'.left = 0
      <4>1. pc # "input" => job.left = 0
        BY <1>1 DEF CtxInv, Inflating
      <4> QED
        BY <1>1, <2>5, <2>6, <2>7, <4>1
    <3> QED
      BY <1>1, <2>6, <2>8, <3>1, <3>2, <3>3 DEF Inflating
  <2>14. Deflating' /\ why' # "inflate"
    BY <2>4, <2>7 DEF CtxInv, Deflating
  <2> QED
    BY <2>9, <2>10, <2>11, <2>12, <2>13, <2>14 DEF CtxInv
<1> QED
  BY <1>3, <1>4

(* Without context takeover our stream starts again only where the server's
   does. *)
LEMMA CtxInflated ==
  ASSUME CtxInv, Context!decompress_end
  PROVE  CtxInv'
<1>1. /\ phase = "on" /\ pc = "inflated" /\ pc' = "idle" /\ job' = Context!NoJob
      /\ istate' = (IF def.server_no_context_takeover
                    THEN Context!Fresh(def.server_max_window_bits) ELSE istate)
      /\ UNCHANGED <<request, header, def, phase, why, ostate, server>>
  BY DEF CtxInv, CtxTyped, Context!decompress_end, Context!settings
<1>2. /\ istate \in Streams /\ istate.win = def.server_max_window_bits /\ ~istate.done
      /\ def.server_max_window_bits \in Nat
      /\ def.server_no_context_takeover => ~server.deflate
      /\ server.deflate => istate.hist
  BY <1>1 DEF CtxInv, CtxTyped, Settled, Inbound
<1>3. /\ istate' \in Streams /\ istate'.win = def.server_max_window_bits /\ ~istate'.done
      /\ server.deflate => istate'.hist
  BY <1>1, <1>2, FreshStream
<1>4. CtxTyped'
  BY <1>1, <1>3, NoJobType DEF CtxInv, CtxTyped
<1>5. Settled'
  BY <1>1 DEF CtxInv, Settled, Context!Window, Context!Announced
<1>6. Inbound'
  BY <1>1, <1>3 DEF CtxInv, Inbound, Context!Announced
<1>7. Outbound' /\ Inflating' /\ Deflating' /\ why' # "inflate"
  BY <1>1 DEF CtxInv, Outbound, Inflating, Deflating
<1> QED
  BY <1>4, <1>5, <1>6, <1>7 DEF CtxInv
-----------------------------------------------------------------------------
(* permessage-deflate: a message of ours *)

LEMMA CtxCompress ==
  ASSUME CtxInv, Context!compress
  PROVE  CtxInv'
<1>1. /\ phase = "on" /\ pc = "idle" /\ pc' = "deflate"
      /\ UNCHANGED <<request, header, def, phase, why, istate, ostate, server>>
  BY DEF Context!compress, Context!settings
<1>2. PICK n \in Inflated \ {0}, c \in Deflated, reach \in {0, ostate.win},
           back \in {FALSE, ostate.hist} :
        job' = [n |-> n, left |-> c + 4, in |-> n, used |-> 0, reach |-> reach,
                back |-> back, final |-> FALSE]
  BY DEF Context!compress
<1>3. n \in Nat \ {0} /\ c \in Nat \ {0} /\ c + 4 \in Nat
  BY CodecsAssumption
<1>4. /\ ostate \in Streams /\ (ostate.hist => server.inflate)
      /\ ostate.win = def.client_max_window_bits
      /\ server.deflate => istate.hist
  BY <1>1 DEF CtxInv, CtxTyped, Outbound, Inbound
<1>5. reach \in Nat /\ reach <= ostate.win /\ back \in BOOLEAN /\ (back => server.inflate)
  <2>1. ostate.hist \in BOOLEAN /\ reach \in Nat /\ reach <= ostate.win
    BY <1>4 DEF Streams
  <2>2. back \in BOOLEAN
    BY <2>1, Zenon
  <2>3. back => server.inflate
    BY <1>4, Zenon
  <2> QED
    BY <2>1, <2>2, <2>3, Zenon
<1>6. /\ job' \in Jobs /\ job'.n = n /\ job'.left = c + 4 /\ job'.used = 0
      /\ job'.reach = reach /\ job'.back = back
  BY <1>2, <1>3, <1>5 DEF Jobs
<1>7. CtxTyped'
  BY <1>1, <1>6 DEF CtxInv, CtxTyped
<1>8. Settled'
  BY <1>1 DEF CtxInv, Settled, Context!Window, Context!Announced
<1>9. Inbound' /\ Outbound' /\ Inflating' /\ why' # "inflate"
  BY <1>1, <1>4 DEF CtxInv, Inbound, Outbound, Inflating, Context!Announced
<1>10. Deflating'
  BY <1>1, <1>3, <1>5, <1>6 DEF Deflating
<1> QED
  BY <1>7, <1>8, <1>9, <1>10 DEF CtxInv

(* One iteration of the loop around deflate. *)
LEMMA CtxDeflates ==
  ASSUME CtxInv, Context!deflate_loop
  PROVE  CtxInv'
<1>1. /\ phase = "on" /\ pc = "deflate" /\ job \in Jobs /\ ostate \in Streams
      /\ job.n > 0 /\ job.left + job.used > 4
      /\ job.reach <= ostate.win /\ (job.back => server.inflate)
      /\ server.deflate => istate.hist
      /\ job.n \in Nat /\ job.left \in Nat /\ job.in \in Nat /\ job.used \in Nat
  BY DEF Context!deflate_loop, CtxInv, CtxTyped, Inbound, Deflating, Jobs
<1>2. CASE Context!Failed("append")
  BY <1>2, CtxFailed
<1>3. CASE ~Context!Failed("append")
  <2> DEFINE room == Context!Max({64, job.in})
             out == Context!Min({room, job.left})
  <2>1. room \in Nat
    BY <1>1, LargerOf
  <2>2. out = IF room <= job.left THEN room ELSE job.left
    BY <1>1, <2>1, SmallerOf
  <2>3. PICK in \in {0, job.in} :
          job' = [job EXCEPT !.left = job.left - out, !.in = in, !.used = job.used + out]
    BY <1>3 DEF Context!deflate_loop
  <2>4. /\ pc' = (IF out = room THEN pc ELSE "deflated")
        /\ ostate' = [ostate EXCEPT !.last = Context!flush_mode,
                                    !.hist = (ostate.hist \/ job.n > 0)]
        /\ UNCHANGED <<request, header, def, phase, why, istate, server>>
    BY <1>3 DEF Context!deflate_loop, Context!settings, Context!Again
  <2> HIDE DEF room
  <2>5. /\ out \in Nat /\ out <= job.left /\ (out # room => out = job.left)
    BY <1>1, <2>1, <2>2
  <2> HIDE DEF out
  <2>6. /\ job' \in Jobs /\ job'.left = job.left - out /\ job'.used = job.used + out
        /\ job'.n = job.n /\ job'.reach = job.reach /\ job'.back = job.back
    <3>1. /\ job.left - out \in Nat /\ job.used + out \in Nat /\ in \in Nat
      BY <1>1, <2>3, <2>5
    <3> QED
      BY <1>1, <2>3, <3>1 DEF Jobs
  <2>7. ostate' \in Streams /\ ostate'.win = ostate.win
    <3>1. (ostate.hist \/ job.n > 0) \in BOOLEAN
      OBVIOUS
    <3>2. Context!flush_mode \in {"none", "full", "sync"}
      BY DEF Context!flush_mode
    <3> QED
      BY <1>1, <2>4, <3>1, <3>2 DEF Streams
  <2>8. pc' \in {"deflate", "deflated"} /\ (pc' = "deflated" => job'.left = 0)
    BY <1>1, <2>4, <2>5, <2>6
  <2>9. CtxTyped'
    BY <1>1, <2>4, <2>6, <2>7, <2>8 DEF CtxInv, CtxTyped
  <2>10. Settled'
    BY <2>4 DEF CtxInv, Settled, Context!Window, Context!Announced
  <2>11. Inbound' /\ Outbound' /\ Inflating' /\ why' # "inflate"
    BY <1>1, <2>4, <2>7, <2>8
    DEF CtxInv, Inbound, Outbound, Inflating, Context!Announced
  <2>12. Deflating'
    <3>1. job'.left + job'.used > 4
      BY <1>1, <2>5, <2>6
    <3> QED
      BY <1>1, <2>4, <2>6, <2>7, <2>8, <3>1 DEF Deflating
  <2> QED
    BY <2>9, <2>10, <2>11, <2>12 DEF CtxInv
<1> QED
  BY <1>2, <1>3

(* The payload is complete and without its trailer not empty, and the server still
   has what it refers to. *)
LEMMA CtxDeflated ==
  ASSUME CtxInv, Context!compress_end
  PROVE  CtxInv'
<1>1. /\ phase = "on" /\ pc = "deflated" /\ pc' = "idle" /\ job' = Context!NoJob
      /\ ostate' = Context!Reset /\ Context!ServerInflates
      /\ UNCHANGED <<request, header, def, phase, why, istate>>
  BY DEF CtxInv, CtxTyped, Context!compress_end, Context!settings
<1>2. /\ ostate \in Streams /\ server \in Servers /\ job \in Jobs
      /\ ostate.win = def.client_max_window_bits /\ ostate.win \in Nat
      /\ ostate.win = Context!Window(CLIENT_BITS)
      /\ Context!Announced(CLIENT_RESETS) => def.client_no_context_takeover
      /\ ~server.broken
      /\ job.n > 0 /\ job.left + job.used > 4 /\ job.left = 0
      /\ job.reach <= ostate.win /\ (job.back => server.inflate)
      /\ server.deflate => istate.hist
      /\ job.n \in Nat /\ job.used \in Nat
  BY <1>1 DEF CtxInv, CtxTyped, Settled, Inbound, Outbound, Deflating, Jobs
<1>3. /\ ostate' \in Streams /\ ostate'.win = ostate.win
      /\ def.client_no_context_takeover => ~ostate'.hist
  <2>1. CASE def.client_no_context_takeover
    BY <1>1, <1>2, <2>1, FreshStream DEF Context!Reset
  <2>2. CASE ~def.client_no_context_takeover
    BY <1>1, <1>2, <2>2 DEF Context!Reset
  <2> QED
    BY <2>1, <2>2
<1> DEFINE broken == \/ server.broken \/ job.left # 0 \/ Context!Payload = 0
                     \/ job.reach > Context!Window(CLIENT_BITS)
                     \/ job.back /\ ~server.inflate
           inflates == /\ ~Context!Announced(CLIENT_RESETS)
                       /\ server.inflate \/ job.n > 0
<1>4. server' = [server EXCEPT !.broken = broken, !.inflate = inflates]
  BY <1>1 DEF Context!ServerInflates, CLIENT_BITS, CLIENT_RESETS
<1>5. broken = FALSE
  <2>1. job.used > 4
    BY <1>2
  <2>2. Context!Payload # 0
    BY <1>2, <2>1 DEF Context!Payload
  <2>3. ~(job.reach > Context!Window(CLIENT_BITS))
    BY <1>2 DEF Jobs
  <2>4. ~(server.broken \/ job.left # 0 \/ Context!Payload = 0 \/ job.reach > Context!Window(CLIENT_BITS)
          \/ (job.back /\ ~server.inflate))
    BY <1>2, <2>2, <2>3
  <2> QED
    BY <2>4
<1>6. inflates \in BOOLEAN /\ (~Context!Announced(CLIENT_RESETS) => inflates)
  BY <1>2
<1> HIDE DEF broken, inflates
<1>7. /\ server' \in Servers /\ server'.inflate = inflates /\ server'.broken = FALSE
      /\ server'.deflate = server.deflate
  BY <1>2, <1>4, <1>5, <1>6 DEF Servers
<1>8. ostate'.hist => server'.inflate
  <2>1. ostate'.hist => inflates
    BY <1>2, <1>3, <1>6
  <2> QED
    BY <1>7, <2>1, Zenon
<1>9. CtxTyped'
  BY <1>1, <1>3, <1>7, NoJobType DEF CtxInv, CtxTyped
<1>10. Settled'
  BY <1>1 DEF CtxInv, Settled, Context!Window, Context!Announced
<1>11. Inbound'
  BY <1>1, <1>2, <1>7 DEF CtxInv, Inbound, Context!Announced
<1>12. Outbound'
  BY <1>1, <1>2, <1>3, <1>7, <1>8 DEF Outbound
<1>13. Inflating' /\ Deflating' /\ why' # "inflate"
  BY <1>1 DEF CtxInv, Inflating, Deflating
<1> QED
  BY <1>9, <1>10, <1>11, <1>12, <1>13 DEF CtxInv

LEMMA CtxStep ==
  ASSUME CtxInv, [Context!Next]_(Context!vars)
  PROVE  CtxInv'
<1>1. CASE UNCHANGED Context!vars
  <2>1. UNCHANGED <<request, header, def, phase, why, istate, ostate, server, pc, job>>
    BY <1>1 DEF Context!vars
  <2>2. CtxTyped' /\ Settled'
    BY <2>1 DEF CtxInv, CtxTyped, Settled, Context!Window, Context!Announced
  <2>3. Inbound' /\ Outbound' /\ Inflating' /\ Deflating' /\ why' # "inflate"
    BY <2>1 DEF CtxInv, Inbound, Outbound, Inflating, Deflating, Context!Announced
  <2> QED
    BY <2>2, <2>3 DEF CtxInv
<1> QED
  BY <1>1, CtxNegotiate, CtxOpened, CtxReceives, CtxInflates, CtxInflated, CtxCompress,
     CtxDeflates, CtxDeflated DEF Context!Next, Context!Step

(* The invariant holds while the streams are the part that runs. *)
LEMMA CtxAlways == Spec => [](which = "context" => CtxInv)
<1> DEFINE I == which = "context" => CtxInv
<1>1. Init => I
  BY CtxInit DEF Init, InitContext, InitShake, InitMask, InitUtf, InitAddress, InitBuf, InitSha
<1>2. I /\ [Next]_vars => I'
  <2> SUFFICES ASSUME I, [Next]_vars, which' = "context"
               PROVE  CtxInv'
    OBVIOUS
  <2>1. which = "context" /\ [Context!Next]_(Context!vars)
    <3>1. CASE UNCHANGED vars
      BY <3>1 DEF vars, Context!vars
    <3>2. CASE Next
      BY <3>2 DEF Next, AsContext, AsShake, AsMask, AsUtf, AsAddress, AsBuf, AsSha
    <3> QED
      BY <3>1, <3>2
  <2> QED
    BY <2>1, CtxStep
<1> QED
  BY <1>1, <1>2, PTL DEF Spec

(* PermessageDeflateContext (PermessageDeflate.hpp): for every offer and every
   response that negotiate() accepts, inflate gets no message that it cannot
   inflate from a server that keeps to its response, and every message of ours
   can be inflated with the window and the history that this response demands. *)
THEOREM StreamsAlwaysFit == Spec => []StreamsFit
<1>1. (which = "context" => CtxInv) => StreamsFit
  BY DEF StreamsFit, CtxInv, Outbound, Context!ServerMessagesInflate,
         Context!OurMessagesInflate
<1> QED
  BY <1>1, CtxAlways, PTL

(* decompress() (PermessageDeflate.hpp): for every size of a message and of its
   compressed payload, however often the output buffer is enlarged, what it
   returns has every byte of the message and no other. *)
THEOREM StreamsInflateWhole == Spec => []InflatedWhole
<1>1. CtxInv => Context!InflatedWhole
  BY DEF CtxInv, CtxTyped, Jobs, Inflating, Context!InflatedWhole
<1>2. (which = "context" => CtxInv) => InflatedWhole
  BY <1>1 DEF InflatedWhole
<1> QED
  BY <1>2, CtxAlways, PTL
-----------------------------------------------------------------------------
(* SHA-1: blocks and sequences *)

B == BLOCK_BYTES
L == LengthBytes
At(k) == k * B
Cut(m, a, n) == [j \in 1..n |-> m[a + j]]

LEMMA Sizes == B \in Nat /\ B \in Nat \ {0} /\ L \in Nat \ {0} /\ L < B
BY CodecsAssumption DEF B, L

LEMMA Concatenated ==
  ASSUME NEW S, NEW u \in Seq(S), NEW v \in Seq(S)
  PROVE  /\ u \o v \in Seq(S) /\ Len(u \o v) = Len(u) + Len(v)
         /\ \A j \in 1..Len(u) : (u \o v)[j] = u[j]
         /\ \A j \in 1..Len(v) : (u \o v)[Len(u) + j] = v[j]
OBVIOUS

LEMMA AtNext ==
  ASSUME NEW k \in Nat
  PROVE  /\ At(k) \in Nat /\ At(k + 1) \in Nat /\ At(k + 1) = At(k) + B
         /\ At(k + 2) = At(k) + B + B /\ At(0) = 0 /\ At(1) = B
BY Sizes DEF At

LEMMA AtMonotone ==
  ASSUME NEW j \in Nat, NEW k \in Nat, j <= k
  PROVE  At(j) \in Nat /\ At(k) \in Nat /\ At(j) <= At(k)
<1>1. PICK d \in Nat : k = j + d
  <2>1. k - j \in Nat /\ k = j + (k - j)
    OBVIOUS
  <2> QED
    BY <2>1
<1>2. j * B \in Nat /\ d * B \in Nat /\ k * B = j * B + d * B
  BY <1>1, Sizes
<1> QED
  BY <1>2 DEF At

(* A multiple of the block less than a block away from k blocks is k blocks. *)
LEMMA OnlyMultiple ==
  ASSUME NEW k \in Nat, NEW n \in Nat, n % B = 0, n < At(k) + B, At(k) < n + B
  PROVE  n = At(k)
<1> DEFINE d == n \div B
<1>1. d \in Nat /\ n = d * B
  BY Sizes
<1> HIDE DEF d
<1>2. n = At(d)
  BY <1>1 DEF At
<1>3. ~(d < k)
  <2> SUFFICES ASSUME d + 1 <= k PROVE FALSE
    BY <1>1
  <2>1. At(d + 1) <= At(k) /\ At(d + 1) = At(d) + B
    BY <1>1, AtMonotone, AtNext
  <2> QED
    BY <1>1, <1>2, <2>1, AtNext, Sizes
<1>4. ~(k < d)
  <2> SUFFICES ASSUME k + 1 <= d PROVE FALSE
    BY <1>1
  <2>1. At(k + 1) <= At(d) /\ At(k + 1) = At(k) + B /\ At(k) \in Nat /\ B \in Nat
    BY <1>1, AtMonotone, AtNext, Sizes
  <2> QED
    BY <1>2, <2>1
<1> QED
  BY <1>1, <1>2, <1>3, <1>4

(* How many blocks the padded message has, with room for a zero in each place
   between it and its length. *)
LEMMA PaddedSize ==
  ASSUME NEW m, Len(m) \in Nat, NEW n \in Nat, NEW z \in 0..(B - 1),
         Len(m) + 1 + z + L = At(n)
  PROVE  /\ (CHOOSE y \in 0..(B - 1) : (Len(m) + 1 + y + L) % B = 0) = z
         /\ (Len(m) + 1 + z + L) \div B = n
<1>1. At(n) % B = 0 /\ At(n) \div B = n
  <2>1. \A d \in Nat \ {0} : (d * n) % d = 0 /\ (d * n) \div d = n
    BY Z3
  <2>2. At(n) = B * n
    BY Sizes DEF At
  <2> QED
    BY <2>1, <2>2, Sizes
<1>2. ASSUME NEW y \in 0..(B - 1), (Len(m) + 1 + y + L) % B = 0
      PROVE  y = z
  <2> DEFINE a == Len(m) + 1 + y + L
  <2>1. a \in Nat /\ At(n) \in Nat /\ a < At(n) + B /\ At(n) < a + B
    BY Sizes
  <2>2. a % B = 0
    BY <1>2
  <2> HIDE DEF a
  <2>3. a = At(n)
    BY <2>1, <2>2, OnlyMultiple
  <2> QED
    BY <2>3, Sizes DEF a
<1>3. (Len(m) + 1 + z + L) % B = 0
  BY <1>1
<1> QED
  BY <1>1, <1>2, <1>3
-----------------------------------------------------------------------------
(* SHA-1: the invariant *)

Words == HashValues

(* The blocks hashed, the bytes in the buffer and those update() has not read
   are the message, in this order. *)
Collected ==
  /\ transforms \in Nat
  /\ message \in Seq(Words) /\ buffer \in Seq(Words) /\ is \in Seq(Words)
  /\ Len(buffer) < B
  /\ Len(message) = At(transforms) + Len(buffer) + Len(is)
  /\ digest = [k \in 1..transforms |-> Cut(message, At(k - 1), B)]
  /\ \A j \in 1..Len(buffer) : buffer[j] = message[At(transforms) + j]
  /\ \A j \in 1..Len(is) : is[j] = message[At(transforms) + Len(buffer) + j]

(* The object is as its constructor leaves it. *)
Empty == digest = <<>> /\ buffer = <<>> /\ transforms = 0

ShaInv ==
  /\ pc \in {"idle", "update", "final"}
  /\ pc # "update" => is = <<>>
  /\ pc # "final" => Collected
  /\ pc = "final" => Empty /\ result = Sha!BlocksOf(message)

LEMMA EmptyCollected ==
  ASSUME Empty, message = <<>>, is = <<>>
  PROVE  Collected
<1>1. /\ <<>> \in Seq(Words) /\ Len(<<>>) = 0 /\ 0 < B /\ At(0) = 0
  BY AtNext, Sizes
<1>2. [k \in 1..0 |-> Cut(<<>>, At(k - 1), B)] = <<>>
  OBVIOUS
<1> QED
  BY <1>1, <1>2 DEF Empty, Collected

LEMMA ShaUpdate ==
  ASSUME ShaInv, NEW n \in 0..MaxPiece, NEW t \in [1..n -> HashValues], Sha!update(t)
  PROVE  ShaInv'
<1>1. /\ pc = "idle" /\ pc' = "update" /\ is' = t /\ message' = message \o t
      /\ UNCHANGED <<digest, buffer, transforms, result>>
      /\ Collected /\ is = <<>>
  BY DEF Sha!update, Sha!object, ShaInv
<1>2. t \in Seq(Words) /\ Len(t) = n /\ n \in Nat
  BY CodecsAssumption DEF Words
<1>3. /\ message \in Seq(Words) /\ buffer \in Seq(Words) /\ transforms \in Nat
      /\ Len(message) = At(transforms) + Len(buffer)
      /\ At(transforms) \in Nat /\ Len(buffer) \in Nat
  <2>1. transforms \in Nat /\ message \in Seq(Words) /\ buffer \in Seq(Words)
        /\ Len(message) = At(transforms) + Len(buffer) + Len(is) /\ Len(is) = 0
    BY <1>1 DEF Collected
  <2>2. At(transforms) \in Nat
    BY <2>1, AtNext
  <2> QED
    BY <2>1, <2>2
<1>4. /\ message' \in Seq(Words) /\ Len(message') = Len(message) + Len(t)
      /\ \A j \in 1..Len(message) : message'[j] = message[j]
      /\ \A j \in 1..Len(t) : message'[Len(message) + j] = t[j]
  <2>1. t \in Seq(Words) /\ message \in Seq(Words) /\ message' = message \o t
    BY <1>1, <1>2, <1>3
  <2> QED
    BY <2>1, Concatenated
<1>5. digest = [k \in 1..transforms |-> Cut(message', At(k - 1), B)]
  <2> SUFFICES ASSUME NEW k \in 1..transforms
               PROVE  Cut(message', At(k - 1), B) = Cut(message, At(k - 1), B)
    BY <1>1 DEF Collected
  <2>1. k - 1 \in Nat /\ k \in Nat /\ (k - 1) + 1 = k /\ k <= transforms
    BY <1>3
  <2>2. At(k) = At(k - 1) + B /\ At(k - 1) \in Nat /\ At(k) <= At(transforms)
    BY <1>3, <2>1, AtNext, AtMonotone
  <2>3. \A j \in 1..B : At(k - 1) + j \in 1..Len(message)
    BY <1>3, <2>2, Sizes
  <2> QED
    BY <1>4, <2>3 DEF Cut
<1>6. Collected'
  <2>1. Len(message') = At(transforms) + Len(buffer) + Len(t)
    BY <1>3, <1>4
  <2>2. \A j \in 1..Len(buffer) : buffer[j] = message'[At(transforms) + j]
    <3> SUFFICES ASSUME NEW j \in 1..Len(buffer)
                 PROVE  buffer[j] = message'[At(transforms) + j]
      OBVIOUS
    <3>1. At(transforms) + j \in 1..Len(message)
      BY <1>3
    <3> QED
      BY <1>1, <1>4, <3>1 DEF Collected
  <2>3. \A j \in 1..Len(t) : t[j] = message'[At(transforms) + Len(buffer) + j]
    BY <1>3, <1>4
  <2>4. At(transforms)' = At(transforms)
    BY <1>1 DEF At
  <2> QED
    BY <1>1, <1>2, <1>3, <1>4, <1>5, <2>1, <2>2, <2>3, <2>4 DEF Collected
<1> QED
  BY <1>1, <1>6 DEF ShaInv

LEMMA ShaLoop ==
  ASSUME ShaInv, Sha!UpdateLoop
  PROVE  ShaInv'
<1> DEFINE want == B - Len(buffer)
           n == IF Len(is) < want THEN Len(is) ELSE want
           filled == buffer \o SubSeq(is, 1, n)
<1>1. /\ pc = "update" /\ UNCHANGED <<result, message>>
      /\ is' = SubSeq(is, n + 1, Len(is))
      /\ \/ /\ Len(filled) # B /\ buffer' = filled /\ pc' = "idle"
            /\ UNCHANGED <<digest, transforms>>
         \/ /\ Len(filled) = B /\ digest' = Append(digest, filled)
            /\ transforms' = transforms + 1 /\ buffer' = <<>> /\ pc' = pc
  BY DEF ShaInv, Sha!UpdateLoop, Sha!transform, B
<1>2. /\ transforms \in Nat /\ At(transforms) \in Nat
      /\ message \in Seq(Words) /\ buffer \in Seq(Words) /\ is \in Seq(Words)
      /\ Len(buffer) < B /\ Len(buffer) \in Nat /\ Len(is) \in Nat
      /\ Len(message) = At(transforms) + Len(buffer) + Len(is)
  <2>1. Collected
    BY <1>1 DEF ShaInv
  <2>2. /\ transforms \in Nat
        /\ message \in Seq(Words) /\ buffer \in Seq(Words) /\ is \in Seq(Words)
        /\ Len(buffer) < B
        /\ Len(message) = At(transforms) + Len(buffer) + Len(is)
    BY <2>1 DEF Collected
  <2>3. At(transforms) \in Nat
    BY <2>2, AtNext
  <2> QED
    BY <2>2, <2>3
<1>3. /\ want \in Nat \ {0} /\ n \in Nat /\ n <= Len(is) /\ n <= want
      /\ n < want => n = Len(is)
  BY <1>2, Sizes
<1>4. /\ SubSeq(is, 1, n) \in Seq(Words) /\ Len(SubSeq(is, 1, n)) = n
      /\ \A j \in 1..n : SubSeq(is, 1, n)[j] = is[j]
      /\ is' \in Seq(Words) /\ Len(is') = Len(is) - n
      /\ \A j \in 1..Len(is') : is'[j] = is[n + j]
  <2> HIDE DEF n
  <2> QED
    BY <1>1, <1>2, <1>3, SMTT(40)
<1> HIDE DEF n
<1>5. /\ filled \in Seq(Words) /\ Len(filled) = Len(buffer) + n /\ Len(filled) \in Nat
      /\ \A j \in 1..Len(buffer) : filled[j] = buffer[j]
      /\ \A j \in 1..n : filled[Len(buffer) + j] = is[j]
  <2>1. /\ filled \in Seq(Words) /\ Len(filled) = Len(buffer) + Len(SubSeq(is, 1, n))
        /\ \A j \in 1..Len(buffer) : filled[j] = buffer[j]
        /\ \A j \in 1..Len(SubSeq(is, 1, n)) :
             filled[Len(buffer) + j] = SubSeq(is, 1, n)[j]
    <3> DEFINE part == SubSeq(is, 1, n)
    <3>1. buffer \in Seq(Words) /\ part \in Seq(Words)
      BY <1>2, <1>4
    <3> HIDE DEF part
    <3>2. /\ buffer \o part \in Seq(Words) /\ Len(buffer \o part) = Len(buffer) + Len(part)
          /\ \A j \in 1..Len(buffer) : (buffer \o part)[j] = buffer[j]
          /\ \A j \in 1..Len(part) : (buffer \o part)[Len(buffer) + j] = part[j]
      BY ONLY <3>1, Concatenated
    <3> QED
      BY ONLY <3>2 DEF part, filled
  <2> HIDE DEF filled
  <2> QED
    BY <1>2, <1>3, <1>4, <2>1
<1> HIDE DEF filled
<1>sizes. /\ Len(filled) \in Nat /\ Len(is') \in Nat
          /\ Len(filled) = Len(buffer) + n /\ Len(is') = Len(is) - n
          /\ Len(filled) <= B /\ (Len(filled) # B => n = Len(is))
          /\ Len(message) = At(transforms) + Len(filled) + Len(is')
  <2>1. Len(filled) = Len(buffer) + n /\ Len(is') = Len(is) - n /\ B \in Nat
    BY <1>4, <1>5, Sizes
  <2>2. /\ Len(buffer) \in Nat /\ Len(is) \in Nat /\ At(transforms) \in Nat /\ Len(buffer) < B
        /\ Len(message) = At(transforms) + Len(buffer) + Len(is)
    BY <1>2
  <2>3. /\ Len(filled) \in Nat /\ Len(is') \in Nat /\ Len(filled) <= B
    BY <1>3, <2>1, <2>2
  <2>4. Len(filled) # B => n = Len(is)
    BY <1>3, <2>1, <2>2
  <2>5. Len(message) = At(transforms) + Len(filled) + Len(is')
    BY <1>3, <2>1, <2>2
  <2> QED
    BY <2>1, <2>3, <2>4, <2>5
<1>6. \A j \in 1..Len(filled) : filled[j] = message[At(transforms) + j]
  <2> SUFFICES ASSUME NEW j \in 1..Len(filled)
               PROVE  filled[j] = message[At(transforms) + j]
    OBVIOUS
  <2>1. CASE j <= Len(buffer)
    BY <1>1, <1>2, <1>5, <2>1 DEF ShaInv, Collected
  <2>2. CASE j > Len(buffer)
    <3>1. PICK o \in 1..n : j = Len(buffer) + o
      <4>1. j - Len(buffer) \in 1..n /\ j = Len(buffer) + (j - Len(buffer))
        BY <1>2, <1>3, <1>5, <2>2
      <4> QED
        BY <4>1
    <3>2. filled[j] = is[o] /\ o \in 1..Len(is)
      BY <1>2, <1>3, <1>5, <3>1, SMTT(40)
    <3>3. is[o] = message[At(transforms) + Len(buffer) + o]
      BY <1>1, <3>2 DEF ShaInv, Collected
    <3>4. At(transforms) + Len(buffer) + o = At(transforms) + j
      BY <1>2, <3>1
    <3> QED
      BY <3>2, <3>3, <3>4
  <2> QED
    BY <1>2, <2>1, <2>2
<1>7. \A j \in 1..Len(is') : is'[j] = message[At(transforms) + Len(filled) + j]
  <2> SUFFICES ASSUME NEW j \in 1..Len(is')
               PROVE  is'[j] = message[At(transforms) + Len(filled) + j]
    OBVIOUS
  <2>1. n + j \in 1..Len(is) /\ is'[j] = is[n + j]
    BY <1>2, <1>3, <1>4
  <2>2. is[n + j] = message[At(transforms) + Len(buffer) + (n + j)]
    BY <1>1, <2>1 DEF ShaInv, Collected
  <2>3. At(transforms) + Len(buffer) + (n + j) = At(transforms) + Len(filled) + j
    BY <1>2, <1>3, <1>5, SMTT(40)
  <2> QED
    BY <2>1, <2>2, <2>3
<1>8. CASE Len(filled) # B
  <2>1. /\ buffer' = filled /\ pc' = "idle" /\ UNCHANGED <<digest, transforms, message>>
    BY <1>1, <1>8
  <2>3. is' = <<>> /\ Len(is') = 0
    <3>1. Len(is') = 0
      BY <1>2, <1>8, <1>sizes, SMTT(40)
    <3>2. is' \in Seq(Words)
      BY <1>4
    <3> QED
      BY <3>1, <3>2
  <2>4. Len(filled) < B /\ Len(message) = At(transforms) + Len(filled) + Len(is')
    BY <1>8, <1>sizes, Sizes
  <2>5. At(transforms)' = At(transforms)
    BY <2>1 DEF At
  <2>6. digest' = [k \in 1..transforms' |-> Cut(message', At(k - 1), B)]
    BY <1>1, <2>1 DEF ShaInv, Collected
  <2>7. Collected'
    BY <1>2, <1>4, <1>5, <1>6, <1>7, <2>1, <2>4, <2>5, <2>6 DEF Collected
  <2> QED
    BY <2>1, <2>3, <2>7 DEF ShaInv
<1>9. CASE Len(filled) = B
  <2>1. /\ digest' = Append(digest, filled) /\ transforms' = transforms + 1
        /\ buffer' = <<>> /\ pc' = "update" /\ message' = message
    BY <1>1, <1>9
  <2>2. At(transforms') = At(transforms) + B /\ transforms' \in Nat
    BY <1>2, <2>1, AtNext
  <2>3. Len(<<>>) = 0 /\ <<>> \in Seq(Words) /\ 0 < B
    BY Sizes
  <2>4. Len(message) = At(transforms') + 0 + Len(is')
    <3>1. At(transforms) \in Nat /\ B \in Nat /\ Len(is') \in Nat
      BY <1>2, <1>sizes, Sizes
    <3>2. Len(message) = At(transforms) + B + Len(is')
      BY <1>9, <1>sizes
    <3> QED
      BY <2>2, <3>1, <3>2
  <2>5. filled = Cut(message, At(transforms), B)
    <3>1. filled = [j \in 1..Len(filled) |-> filled[j]]
      BY <1>5
    <3> QED
      BY <1>6, <1>9, <3>1 DEF Cut
  <2>6. digest' = [k \in 1..transforms' |-> Cut(message, At(k - 1), B)]
    <3> DEFINE C(k) == Cut(message, At(k - 1), B)
    <3>1. digest = [k \in 1..transforms |-> C(k)]
      BY <1>1 DEF ShaInv, Collected
    <3>2. (transforms + 1) - 1 = transforms
      BY <1>2
    <3>3. C(transforms + 1) = filled
      BY <2>5, <3>2
    <3> HIDE DEF C
    <3>4. Append([k \in 1..transforms |-> C(k)], C(transforms + 1))
            = [k \in 1..(transforms + 1) |-> C(k)]
      BY <1>2
    <3> QED
      BY <2>1, <3>1, <3>3, <3>4 DEF C
  <2>7. \A j \in 1..Len(is') : is'[j] = message[At(transforms') + 0 + j]
    BY <1>2, <1>7, <1>9, <2>2, Sizes
  <2>8. At(transforms)' = At(transforms')
    BY DEF At
  <2>9. Collected'
    BY <1>2, <1>4, <2>1, <2>2, <2>3, <2>4, <2>6, <2>7, <2>8 DEF Collected
  <2> QED
    BY <2>1, <2>9 DEF ShaInv
<1> QED
  BY <1>8, <1>9
-----------------------------------------------------------------------------
(* SHA-1: the padding *)

LEMMA CutIs ==
  ASSUME NEW p \in Seq(Nat), NEW a \in Nat, NEW n \in Nat, a + n <= Len(p)
  PROVE  SubSeq(p, a + 1, a + n) = Cut(p, a, n)
<1>1. /\ SubSeq(p, a + 1, a + n) \in Seq(Nat) /\ Len(SubSeq(p, a + 1, a + n)) = n
      /\ \A j \in 1..n : SubSeq(p, a + 1, a + n)[j] = p[a + j]
  OBVIOUS
<1>2. SubSeq(p, a + 1, a + n) = [j \in 1..n |-> SubSeq(p, a + 1, a + n)[j]]
  BY <1>1
<1> QED
  BY <1>1, <1>2 DEF Cut

LEMMA Appended ==
  ASSUME NEW n \in Nat, NEW d, d = [k \in 1..n |-> d[k]], NEW x
  PROVE  Append(d, x) = [k \in 1..(n + 1) |-> IF k <= n THEN d[k] ELSE x]
<1>1. Len(d) = n
  OBVIOUS
<1> QED
  BY <1>1

LEMMA ZerosType ==
  ASSUME NEW n \in Nat
  PROVE  /\ Sha!Zeros(n) \in Seq(Nat) /\ Len(Sha!Zeros(n)) = n
         /\ \A j \in 1..n : Sha!Zeros(n)[j] = 0
BY DEF Sha!Zeros

(* A sequence with the byte 128 and zeros behind it. *)
Tail128(m, n) == m \o <<128>> \o Sha!Zeros(n)

PaddedWith(p, m, n) ==
  /\ p \in Seq(Nat) /\ Len(p) = Len(m) + 1 + n
  /\ \A j \in 1..Len(m) : p[j] = m[j]
  /\ p[Len(m) + 1] = 128
  /\ \A j \in 1..n : p[Len(m) + 1 + j] = 0

LEMMA PaddedAt ==
  ASSUME NEW m \in Seq(Nat), NEW n \in Nat
  PROVE  PaddedWith(Tail128(m, n), m, n) /\ Len(m) \in Nat
<1> DEFINE q == m \o <<128>>
<1>1. <<128>> \in Seq(Nat) /\ Len(<<128>>) = 1 /\ <<128>>[1] = 128 /\ Len(m) \in Nat
  OBVIOUS
<1>2. /\ q \in Seq(Nat) /\ Len(q) = Len(m) + 1 /\ \A j \in 1..Len(m) : q[j] = m[j]
      /\ q[Len(m) + 1] = 128
  BY <1>1, Concatenated
<1> HIDE DEF q
<1> DEFINE p == q \o Sha!Zeros(n)
<1>3. /\ p \in Seq(Nat) /\ Len(p) = Len(m) + 1 + n
      /\ \A j \in 1..(Len(m) + 1) : p[j] = q[j]
      /\ \A j \in 1..n : p[Len(m) + 1 + j] = 0
  <2> DEFINE zs == Sha!Zeros(n)
  <2>1. zs \in Seq(Nat) /\ Len(zs) = n /\ \A j \in 1..n : zs[j] = 0
    BY ZerosType
  <2> HIDE DEF zs
  <2>2. /\ q \o zs \in Seq(Nat) /\ Len(q \o zs) = Len(q) + Len(zs)
        /\ \A j \in 1..Len(q) : (q \o zs)[j] = q[j]
        /\ \A j \in 1..Len(zs) : (q \o zs)[Len(q) + j] = zs[j]
    <3>1. q \in Seq(Nat) /\ zs \in Seq(Nat)
      BY <1>2, <2>1
    <3> QED
      BY <3>1, Concatenated
  <2>3. p = q \o zs
    BY DEF zs
  <2> HIDE DEF p
  <2>4. Len(q) = Len(m) + 1 /\ Len(zs) = n
    BY <1>2, <2>1
  <2>5. p \in Seq(Nat) /\ Len(p) = Len(m) + 1 + n
    BY <2>2, <2>3, <2>4
  <2>6. \A j \in 1..(Len(m) + 1) : p[j] = q[j]
    BY <2>2, <2>3, <2>4
  <2>7. \A j \in 1..n : p[Len(m) + 1 + j] = 0
    BY <2>1, <2>2, <2>3, <2>4
  <2> QED
    BY <2>5, <2>6, <2>7
<1>4. p = Tail128(m, n)
  BY DEF Tail128, q
<1> HIDE DEF p
<1>5. \A j \in 1..Len(m) : p[j] = m[j]
  BY <1>1, <1>2, <1>3
<1>6. p[Len(m) + 1] = 128
  BY <1>1, <1>2, <1>3
<1> QED
  BY <1>1, <1>3, <1>4, <1>5, <1>6 DEF PaddedWith

(* What the standard prescribes, with the number of blocks and zeros at hand. *)
LEMMA BlocksAre ==
  ASSUME NEW m \in Seq(Nat), NEW n \in Nat, NEW z \in 0..(B - 1),
         Len(m) + 1 + z + L = At(n + 1)
  PROVE  Sha!BlocksOf(m) =
           [k \in 1..(n + 1) |->
              IF k < n + 1 THEN Cut(Tail128(m, z), At(k - 1), B)
              ELSE Cut(Tail128(m, z), At(n), B - L) \o <<8 * Len(m)>>]
<1> DEFINE p == Tail128(m, z)
<1>1. Len(m) \in Nat /\ z \in Nat /\ n + 1 \in Nat
  OBVIOUS
<1>2. Sha!Padded(m) = p
  BY <1>1, PaddedSize, ZenonT(60) DEF Sha!Padded, Tail128, B, L
<1>3. p \in Seq(Nat) /\ Len(p) = Len(m) + 1 + z
  BY <1>1, PaddedAt DEF PaddedWith
<1>4. (Len(p) + L) \div B = n + 1
  BY <1>1, <1>3, PaddedSize
<1>5. /\ At(n) \in Nat /\ B - L \in Nat /\ At(n + 1) = At(n) + B
      /\ Len(p) = At(n) + (B - L)
  <2>1. At(n) \in Nat /\ B - L \in Nat /\ At(n + 1) = At(n) + B
    <3>1. B - L \in Nat
      BY Sizes
    <3> QED
      BY <3>1, AtNext
  <2>2. Len(p) + L = At(n + 1)
    BY <1>3
  <2>3. Len(p) \in Nat
    BY <1>3
  <2> HIDE DEF p
  <2> QED
    BY <2>1, <2>2, <2>3, Sizes
<1> HIDE DEF p
<1> DEFINE Whole(k) == SubSeq(p, (k - 1) * B + 1, k * B)
           Rest == SubSeq(p, ((n + 1) - 1) * B + 1, Len(p))
<1>6. Sha!BlocksOf(m) = [k \in 1..(n + 1) |-> IF k < n + 1 THEN Whole(k)
                                             ELSE Rest \o <<8 * Len(m)>>]
  BY <1>2, <1>4 DEF Sha!BlocksOf, B, L
<1>7. \A k \in 1..n : Whole(k) = Cut(p, At(k - 1), B)
  <2> SUFFICES ASSUME NEW k \in 1..n
               PROVE  Whole(k) = Cut(p, At(k - 1), B)
    OBVIOUS
  <2>1. k - 1 \in Nat /\ k \in Nat /\ (k - 1) + 1 = k /\ k <= n
    OBVIOUS
  <2>2. /\ At(k - 1) \in Nat /\ At(k) = At(k - 1) + B /\ At(k) <= At(n)
    BY <2>1, AtNext, AtMonotone
  <2>3. At(k - 1) + B <= Len(p)
    BY <1>5, <2>2, Sizes
  <2>4. Whole(k) = SubSeq(p, At(k - 1) + 1, At(k - 1) + B)
    BY <2>2 DEF At
  <2> QED
    BY <1>3, <2>2, <2>3, <2>4, CutIs, Sizes
<1>8. Rest = Cut(p, At(n), B - L)
  <2>1. Rest = SubSeq(p, At(n) + 1, At(n) + (B - L))
    <3>1. ((n + 1) - 1) * B = At(n)
      <4>1. (n + 1) - 1 = n
        OBVIOUS
      <4> QED
        BY <4>1 DEF At
    <3> QED
      BY <1>5, <3>1
  <2>2. At(n) + (B - L) <= Len(p)
    BY <1>5
  <2> HIDE DEF Rest
  <2> QED
    BY <1>3, <1>5, <2>1, <2>2, CutIs
<1> HIDE DEF Whole, Rest
<1>9. \A k \in 1..(n + 1) : k < n + 1 => k \in 1..n
  OBVIOUS
<1> QED
  BY <1>6, <1>7, <1>8, <1>9 DEF p
(* The bytes in the buffer, 128 and zeros to the end of the block: what the
   padded message has there. *)
LEMMA LastBlock ==
  ASSUME Collected, is = <<>>, NEW z \in Nat
  PROVE  LET u == Len(buffer)
             block == buffer \o <<128>> \o Sha!Zeros(B - (u + 1))
         IN  /\ Len(message) = At(transforms) + u /\ u \in Nat /\ u < B
             /\ message \in Seq(Nat) /\ transforms \in Nat
             /\ block \in Seq(Nat) /\ Len(block) = B
             /\ \A j \in 1..B : (j <= u + 1 + z) =>
                  block[j] = Tail128(message, z)[At(transforms) + j]
             /\ \A k \in 1..transforms :
                  digest[k] = Cut(Tail128(message, z), At(k - 1), B)
             /\ digest = [k \in 1..transforms |-> digest[k]]
<1> DEFINE u == Len(buffer)
           t == transforms
           block == Tail128(buffer, B - (u + 1))
           p == Tail128(message, z)
<1>1. \A q \in Seq(Words) : q \in Seq(Nat)
  <2> SUFFICES ASSUME NEW q \in Seq(Words)
               PROVE  q \in Seq(Nat)
    OBVIOUS
  <2>1. \A w \in Words : w \in Nat
    BY CodecsAssumption DEF Words
  <2>2. q = [j \in 1..Len(q) |-> q[j]] /\ Len(q) \in Nat /\ \A j \in 1..Len(q) : q[j] \in Words
    OBVIOUS
  <2>3. \A j \in 1..Len(q) : q[j] \in Nat
    BY <2>1, <2>2
  <2> QED
    BY <2>2, <2>3
<1>2. /\ t \in Nat /\ message \in Seq(Words) /\ buffer \in Seq(Words) /\ u < B
      /\ Len(message) = At(t) + u + Len(is)
      /\ digest = [k \in 1..t |-> Cut(message, At(k - 1), B)]
      /\ \A j \in 1..u : buffer[j] = message[At(t) + j]
  BY DEF Collected
<1>3. Len(is) = 0 /\ At(t) \in Nat /\ u \in Nat
  <2>1. At(t) \in Nat
    BY <1>2, AtNext
  <2>2. Len(is) = 0 /\ u \in Nat
    BY <1>2
  <2> QED
    BY <2>1, <2>2
<1>4. Len(message) = At(t) + u
  BY <1>2, <1>3
<1>5. /\ message \in Seq(Nat) /\ buffer \in Seq(Nat) /\ B - (u + 1) \in Nat
  BY <1>1, <1>2, <1>3, Sizes
<1>6. /\ block \in Seq(Nat) /\ Len(block) = u + 1 + (B - (u + 1))
      /\ \A j \in 1..u : block[j] = buffer[j]
      /\ block[u + 1] = 128
      /\ \A j \in 1..(B - (u + 1)) : block[u + 1 + j] = 0
  <2>1. PaddedWith(block, buffer, B - (u + 1))
    BY <1>5, PaddedAt
  <2> HIDE DEF block
  <2> QED
    BY <2>1 DEF PaddedWith
<1>7. /\ \A j \in 1..Len(message) : p[j] = message[j]
      /\ p[Len(message) + 1] = 128
      /\ \A j \in 1..z : p[Len(message) + 1 + j] = 0
  <2>1. PaddedWith(p, message, z)
    BY <1>5, PaddedAt
  <2> HIDE DEF p
  <2> QED
    BY <2>1 DEF PaddedWith
<1> HIDE DEF block, p, t
<1>8. Len(block) = B
  BY <1>3, <1>6, Sizes
<1>9. ASSUME NEW j \in 1..B, j <= u + 1 + z
      PROVE  block[j] = p[At(t) + j]
  <2>1. CASE j <= u
    <3>1. At(t) + j \in 1..Len(message) /\ j \in 1..u
      BY <1>3, <1>4, <2>1
    <3> QED
      BY <1>2, <1>6, <1>7, <3>1
  <2>2. CASE j = u + 1
    <3>1. At(t) + j = Len(message) + 1
      BY <1>3, <1>4, <2>2
    <3> QED
      BY <1>6, <1>7, <2>2, <3>1
  <2>3. CASE j > u + 1
    <3> DEFINE o == j - (u + 1)
    <3>1. /\ o \in 1..z /\ o \in 1..(B - (u + 1)) /\ j = u + 1 + o
          /\ At(t) + j = Len(message) + 1 + o
      BY <1>3, <1>4, <1>9, <2>3, Sizes
    <3> HIDE DEF o
    <3> QED
      BY <1>6, <1>7, <3>1
  <2> QED
    BY <1>3, <2>1, <2>2, <2>3
<1>10. ASSUME NEW k \in 1..t
       PROVE  digest[k] = Cut(p, At(k - 1), B)
  <2>1. k - 1 \in Nat /\ k \in Nat /\ (k - 1) + 1 = k /\ k <= t
    BY <1>2
  <2>2. At(k) = At(k - 1) + B /\ At(k - 1) \in Nat /\ At(k) <= At(t)
    BY <1>2, <2>1, AtNext, AtMonotone
  <2>3. \A j \in 1..B : At(k - 1) + j \in 1..Len(message)
    BY <1>3, <1>4, <2>2, Sizes
  <2>4. Cut(p, At(k - 1), B) = Cut(message, At(k - 1), B)
    BY <1>7, <2>3 DEF Cut
  <2> QED
    BY <1>2, <1>10, <2>4
<1>11. digest = [k \in 1..t |-> digest[k]]
  BY <1>2
<1> QED
  BY <1>2, <1>3, <1>4, <1>5, <1>6, <1>8, <1>9, <1>10, <1>11 DEF block, p, t, Tail128
(* The length fits behind the message in its last block, or takes one more. *)
LEMMA PaddingFits ==
  ASSUME NEW t \in Nat, NEW u \in Nat, u < B, NEW n \in Nat, n = At(t) + u
  PROVE  /\ u + 1 <= B - L =>
              /\ B - L - (u + 1) \in 0..(B - 1)
              /\ n + 1 + (B - L - (u + 1)) + L = At(t + 1)
         /\ u + 1 > B - L =>
              /\ B + B - L - (u + 1) \in 0..(B - 1)
              /\ n + 1 + (B + B - L - (u + 1)) + L = At(t + 2)
<1>1. /\ At(t) \in Nat /\ At(t + 1) = At(t) + B /\ At(t + 2) = At(t) + B + B
      /\ B \in Nat /\ L \in Nat /\ L < B
  BY AtNext, Sizes
<1> QED
  BY <1>1

LEMMA ShaFinal ==
  ASSUME ShaInv, Sha!final_bytes
  PROVE  ShaInv'
<1> DEFINE u == Len(buffer)
           t == transforms
           block == buffer \o <<128>> \o Sha!Zeros(B - (u + 1))
           bits == (t * B + u) * 8
<1>1. /\ pc = "idle" /\ pc' = "final" /\ UNCHANGED <<is, message>>
      /\ digest' = <<>> /\ buffer' = <<>> /\ transforms' = 0
      /\ result' = IF u + 1 > B - L
                   THEN Append(Append(digest, block),
                               SubSeq(Sha!Zeros(B), 1, B - L) \o <<bits>>)
                   ELSE Append(digest, SubSeq(block, 1, B - L) \o <<bits>>)
      /\ Collected /\ is = <<>>
  BY DEF ShaInv, Sha!final_bytes, Sha!Reset, Sha!transform, Sha!Last, B, L
<1>2. /\ Len(message) = At(t) + u /\ u \in Nat /\ u < B /\ message \in Seq(Nat) /\ t \in Nat
      /\ block \in Seq(Nat) /\ Len(block) = B /\ digest = [k \in 1..t |-> digest[k]]
      /\ \A z \in Nat :
           /\ \A j \in 1..B : (j <= u + 1 + z) =>
                block[j] = Tail128(message, z)[At(t) + j]
           /\ \A k \in 1..t : digest[k] = Cut(Tail128(message, z), At(k - 1), B)
  <2>1. 0 \in Nat
    OBVIOUS
  <2>2. Collected /\ is = <<>>
    BY <1>1
  <2> QED
    BY <2>1, <2>2, LastBlock
<1>3. /\ Len(message) \in Nat /\ At(t) \in Nat /\ B - L \in Nat
      /\ B - L <= B /\ bits = 8 * Len(message)
  <2>1. At(t) \in Nat /\ B - L \in Nat /\ B - L <= B
    <3>1. t \in Nat
      BY <1>2
    <3>2. B - L \in Nat /\ B - L <= B
      BY Sizes
    <3> QED
      BY <3>1, <3>2, AtNext
  <2>2. bits = (At(t) + u) * 8
    BY DEF At
  <2> HIDE DEF bits
  <2> QED
    BY <1>2, <2>1, <2>2
<1> HIDE DEF block, bits
<1>n. /\ u \in Nat /\ t \in Nat /\ Len(message) \in Nat /\ At(t) \in Nat /\ u < B
      /\ B \in Nat /\ L \in Nat /\ L < B /\ Len(message) = At(t) + u
  BY <1>2, <1>3, Sizes
<1>4. block = [j \in 1..B |-> block[j]]
  BY <1>2
<1>5. ASSUME u + 1 <= B - L
      PROVE  result' = Sha!BlocksOf(message)
  <2> DEFINE z == B - L - (u + 1)
             p == Tail128(message, z)
             n == t
  <2>1. z \in 0..(B - 1) /\ z \in Nat /\ Len(message) + 1 + z + L = At(t + 1)
    <3>1. z \in 0..(B - 1) /\ Len(message) + 1 + z + L = At(t + 1)
      BY <1>n, <1>5, PaddingFits
    <3> QED
      BY <3>1
  <2>2. Sha!BlocksOf(message) =
          [k \in 1..(t + 1) |-> IF k < t + 1 THEN Cut(p, At(k - 1), B)
                                ELSE Cut(p, At(t), B - L) \o <<bits>>]
    <3>1. /\ message \in Seq(Nat) /\ t \in Nat /\ z \in 0..(B - 1)
          /\ Len(message) + 1 + z + L = At(t + 1)
      BY <1>2, <2>1
    <3> HIDE DEF z
    <3>2. Sha!BlocksOf(message) =
            [k \in 1..(t + 1) |->
               IF k < t + 1 THEN Cut(Tail128(message, z), At(k - 1), B)
               ELSE Cut(Tail128(message, z), At(t), B - L) \o <<8 * Len(message)>>]
      BY <3>1, BlocksAre
    <3> QED
      BY <1>3, <3>2
  <2>3. SubSeq(block, 1, B - L) = Cut(p, At(t), B - L)
    <3>1. SubSeq(block, 1, B - L) = Cut(block, 0, B - L)
      <4>1. 0 \in Nat /\ 0 + (B - L) <= Len(block) /\ 0 + 1 = 1 /\ 0 + (B - L) = B - L
        BY <1>2, <1>3
      <4>2. block \in Seq(Nat) /\ B - L \in Nat
        BY <1>2, <1>3
      <4>3. SubSeq(block, 0 + 1, 0 + (B - L)) = Cut(block, 0, B - L)
        BY <4>1, <4>2, CutIs
      <4> QED
        BY <4>1, <4>3
    <3>2. \A j \in 1..(B - L) : 0 + j = j /\ j \in 1..B /\ j <= u + 1 + z
      <4>1. u + 1 + z = B - L
        BY ONLY <1>n DEF z
      <4>2. \A j \in 1..(B - L) : 0 + j = j /\ j \in 1..B /\ j <= B - L
        BY ONLY <1>n
      <4> QED
        BY <4>1, <4>2
    <3>3. \A j \in 1..(B - L) : block[j] = p[At(t) + j]
      BY <1>2, <2>1, <3>2
    <3> HIDE DEF p
    <3> QED
      BY <3>1, <3>2, <3>3 DEF Cut
  <2>4. \A k \in 1..t : digest[k] = Cut(p, At(k - 1), B)
    BY <1>2, <2>1
  <2> DEFINE x == Cut(p, At(t), B - L) \o <<bits>>
  <2>5. result' = Append(digest, x)
    <3>1. ~(u + 1 > B - L)
      BY <1>2, <1>3, <1>5
    <3> QED
      BY <1>1, <2>3, <3>1
  <2> HIDE DEF x, p, z
  <2>6. result' = [k \in 1..(t + 1) |-> IF k <= t THEN digest[k] ELSE x]
    BY <1>2, <2>5, Appended
  <2>7. \A k \in 1..(t + 1) : (k <= t <=> k < t + 1) /\ (k <= t => k \in 1..t)
    BY <1>2
  <2>8. Sha!BlocksOf(message) = [k \in 1..(t + 1) |-> IF k < t + 1 THEN Cut(p, At(k - 1), B) ELSE x]
    BY <2>2 DEF x
  <2> QED
    BY <2>4, <2>6, <2>7, <2>8
<1>6. ASSUME u + 1 > B - L
      PROVE  result' = Sha!BlocksOf(message)
  <2> DEFINE z == B + B - L - (u + 1)
             p == Tail128(message, z)
             n == t + 1
  <2>1. /\ z \in 0..(B - 1) /\ z \in Nat /\ n \in Nat /\ n + 1 = t + 2
        /\ Len(message) + 1 + z + L = At(n + 1)
    <3>1. z \in 0..(B - 1) /\ Len(message) + 1 + z + L = At(t + 2)
      BY <1>n, <1>6, PaddingFits
    <3>2. n \in Nat /\ n + 1 = t + 2
      BY <1>n
    <3> HIDE DEF n
    <3> QED
      BY <3>1, <3>2
  <2>2. Sha!BlocksOf(message) =
          [k \in 1..(n + 1) |-> IF k < n + 1 THEN Cut(p, At(k - 1), B)
                                ELSE Cut(p, At(n), B - L) \o <<bits>>]
    <3>1. /\ message \in Seq(Nat) /\ n \in Nat /\ z \in 0..(B - 1)
          /\ Len(message) + 1 + z + L = At(n + 1)
      BY <1>2, <2>1
    <3> HIDE DEF z, n
    <3>2. Sha!BlocksOf(message) =
            [k \in 1..(n + 1) |->
               IF k < n + 1 THEN Cut(Tail128(message, z), At(k - 1), B)
               ELSE Cut(Tail128(message, z), At(n), B - L) \o <<8 * Len(message)>>]
      BY <3>1, BlocksAre
    <3> QED
      BY <1>3, <3>2
  <2>3. PaddedWith(p, message, z)
    BY <1>2, <2>1, PaddedAt
  <2>4. At(n) = At(t) + B /\ At(n) \in Nat /\ At((t + 1) - 1) = At(t)
    <3>1. (t + 1) - 1 = t
      BY <1>2
    <3> QED
      BY <1>2, <3>1, AtNext
  <2>5. block = Cut(p, At(t), B)
    <3>1. \A j \in 1..B : j <= u + 1 + z
      <4>1. u + 1 + z = B + B - L
        BY ONLY <1>n DEF z
      <4> QED
        BY ONLY <1>n, <4>1
    <3>2. \A j \in 1..B : block[j] = p[At(t) + j]
      BY <1>2, <2>1, <3>1
    <3> HIDE DEF p
    <3> QED
      BY <1>4, <3>2 DEF Cut
  <2>6. SubSeq(Sha!Zeros(B), 1, B - L) = Cut(p, At(n), B - L)
    <3>1. /\ Sha!Zeros(B) \in Seq(Nat) /\ Len(Sha!Zeros(B)) = B
          /\ \A j \in 1..B : Sha!Zeros(B)[j] = 0
      BY Sizes, ZerosType
    <3>2. SubSeq(Sha!Zeros(B), 1, B - L) = Cut(Sha!Zeros(B), 0, B - L)
      <4>1. 0 \in Nat /\ 0 + (B - L) <= Len(Sha!Zeros(B)) /\ 0 + 1 = 1 /\ 0 + (B - L) = B - L
        BY <1>3, <3>1
      <4> QED
        BY <1>3, <3>1, <4>1, CutIs
    <3>3. ASSUME NEW j \in 1..(B - L)
          PROVE  p[At(n) + j] = 0 /\ Sha!Zeros(B)[0 + j] = 0
      <4> DEFINE o == B + j - (u + 1)
      <4>1. /\ o \in 1..z /\ At(n) + j = Len(message) + 1 + o /\ 0 + j \in 1..B
        <5>1. At(n) = At(t) + B
          BY <2>4
        <5> HIDE DEF n
        <5> QED
          BY <1>n, <5>1
      <4> HIDE DEF o, p, z
      <4> QED
        BY <2>3, <3>1, <4>1 DEF PaddedWith
    <3> HIDE DEF p
    <3> QED
      BY <3>2, <3>3 DEF Cut
  <2>7. \A k \in 1..t : digest[k] = Cut(p, At(k - 1), B)
    BY <1>2, <2>1
  <2> DEFINE x == Cut(p, At(n), B - L) \o <<bits>>
             d == Append(digest, block)
  <2>8. result' = Append(d, x)
    BY <1>1, <1>6, <2>6
  <2>9. Sha!BlocksOf(message) = [k \in 1..(n + 1) |-> IF k < n + 1 THEN Cut(p, At(k - 1), B) ELSE x]
    BY <2>2 DEF x
  <2>10. d = [k \in 1..n |-> IF k <= t THEN digest[k] ELSE block]
    BY <1>2, Appended
  <2> HIDE DEF x, d, p, z
  <2>11. result' = [k \in 1..(n + 1) |-> IF k <= n THEN d[k] ELSE x]
    <3>1. d = [k \in 1..n |-> d[k]]
      BY <2>10
    <3> HIDE DEF n
    <3> QED
      BY <2>1, <2>8, <3>1, Appended
  <2>12. \A k \in 1..n : d[k] = Cut(p, At(k - 1), B)
    <3> SUFFICES ASSUME NEW k \in 1..n
                 PROVE  d[k] = Cut(p, At(k - 1), B)
      OBVIOUS
    <3>1. d[k] = IF k <= t THEN digest[k] ELSE block
      BY <2>10
    <3>2. CASE k <= t
      <4>1. k \in 1..t
        BY <1>2, <3>2
      <4> QED
        BY <2>7, <3>1, <3>2, <4>1
    <3>3. CASE k = t + 1
      <4>1. ~(k <= t)
        BY <1>2, <3>3
      <4> QED
        BY <2>4, <2>5, <3>1, <3>3, <4>1
    <3> QED
      BY <1>2, <3>2, <3>3, SMTT(40)
  <2>13. \A k \in 1..(n + 1) : (k <= n <=> k < n + 1) /\ (k <= n => k \in 1..n)
    BY <1>2
  <2> QED
    BY <2>9, <2>11, <2>12, <2>13
<1>7. result' = Sha!BlocksOf(message)
  <2>1. u + 1 <= B - L \/ u + 1 > B - L
    BY <1>2, <1>3
  <2> QED
    BY <1>5, <1>6, <2>1
<1>8. result' = Sha!BlocksOf(message)'
  <2>1. message' = message
    BY <1>1
  <2>2. Sha!BlocksOf(message)' = Sha!BlocksOf(message)
    BY <2>1 DEF Sha!BlocksOf, Sha!Padded, Sha!Zeros
  <2> QED
    BY <1>7, <2>2
<1> QED
  BY <1>1, <1>8 DEF ShaInv, Empty

LEMMA ShaStep ==
  ASSUME ShaInv, [Sha!Next]_(Sha!vars)
  PROVE  ShaInv'
<1>1. CASE UNCHANGED Sha!vars
  <2>1. UNCHANGED <<digest, buffer, transforms, is, pc, result, message>>
    BY <1>1 DEF Sha!vars, Sha!object
  <2>2. Collected' <=> Collected
    BY <2>1 DEF Collected, At, Cut
  <2>3. Sha!BlocksOf(message)' = Sha!BlocksOf(message)
    BY <2>1 DEF Sha!BlocksOf, Sha!Padded, Sha!Zeros
  <2> QED
    BY <2>1, <2>2, <2>3 DEF ShaInv, Empty
<1>2. CASE Sha!NextMessage
  <2>1. /\ pc = "final" /\ pc' = "idle" /\ message' = <<>>
        /\ UNCHANGED <<digest, buffer, transforms, is>> /\ Empty /\ is = <<>>
    BY <1>2 DEF ShaInv, Sha!NextMessage, Sha!object
  <2>2. Collected'
    <3>1. digest' = <<>> /\ buffer' = <<>> /\ transforms' = 0 /\ is' = <<>> /\ message' = <<>>
      BY <2>1 DEF Empty
    <3>2. /\ <<>> \in Seq(Words) /\ Len(<<>>) = 0 /\ 0 < B /\ At(0) = 0
          /\ [k \in 1..0 |-> Cut(<<>>, At(k - 1), B)] = <<>>
      BY AtNext, Sizes
    <3> QED
      BY <3>1, <3>2 DEF Collected, At
  <2> QED
    BY <2>1, <2>2 DEF ShaInv
<1> QED
  BY <1>1, <1>2, ShaUpdate, ShaLoop, ShaFinal DEF Sha!Next

(* SHA1 (SHA1.hpp): for every size of the block and of the length in it, and
   every message, cut into pieces in every way, final_bytes() hashes the blocks
   that the standard prescribes, for each message that one object is used for. *)
THEOREM StreamsHashStandard == Spec => []DigestIsStandard
<1> DEFINE I == which = "sha1" => ShaInv
<1>1. Init => I
  <2> SUFFICES ASSUME Init, which = "sha1"
               PROVE  ShaInv
    OBVIOUS
  <2>1. Sha!Init
    BY DEF Init, InitContext, InitShake, InitMask, InitUtf, InitAddress, InitBuf, InitSha
  <2>2. /\ Empty /\ message = <<>> /\ is = <<>> /\ pc = "idle"
    BY <2>1 DEF Sha!Init, Empty
  <2> QED
    BY <2>2, EmptyCollected DEF ShaInv
<1>2. I /\ [Next]_vars => I'
  <2> SUFFICES ASSUME I, [Next]_vars, which' = "sha1"
               PROVE  ShaInv'
    OBVIOUS
  <2>1. which = "sha1" /\ [Sha!Next]_(Sha!vars)
    <3>1. CASE UNCHANGED vars
      BY <3>1 DEF vars, Sha!vars, Sha!object
    <3>2. CASE Next
      BY <3>2 DEF Next, AsContext, AsShake, AsMask, AsUtf, AsAddress, AsBuf, AsSha
    <3> QED
      BY <3>1, <3>2
  <2> QED
    BY <2>1, ShaStep
<1>3. I => DigestIsStandard
  BY DEF DigestIsStandard, ShaInv, Sha!DigestIsStandard
<1> QED
  BY <1>1, <1>2, <1>3, PTL DEF Spec
=============================================================================
