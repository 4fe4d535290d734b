-------------------------- MODULE PermessageDeflate --------------------------
(***************************************************************************)
(* PermessageDeflate.hpp, struct PermessageDeflate: the offer of the       *)
(* extension and the negotiation of its parameters with the header         *)
(* Sec-WebSocket-Extensions of the server's response.                      *)
(*                                                                         *)
(* A header is a sequence of segments, which ';' separates in the text: a  *)
(* key, and a value where there is a '='.  White space and the digits of a *)
(* number are abstracted; a value that is no number is -1.                 *)
(***************************************************************************)
EXTENDS Integers, Sequences

CONSTANT Bits   (* the numbers used as window sizes *)

default_max_window_bits == 15

(* The parameters of the struct; 0 window bits: not set. *)
Defs == [server_max_window_bits : (Bits \cap 8..15) \cup {0},
         client_max_window_bits : (Bits \cap 8..15) \cup {0},
         server_no_context_takeover : BOOLEAN,
         client_no_context_takeover : BOOLEAN]

NoValue == 0
Text == -1
Segment(key, value) == [key |-> key, value |-> value]

(* the segments of one optional parameter of a header *)
Optional(key, values) == {<<>>} \cup {<<Segment(key, v)>> : v \in values}

NoHeader == <<>>

(* The headers of the server's response: the extension is accepted or not,
   with each parameter at most once. *)
Headers ==
  {NoHeader} \cup
  {a \o b \o c \o d \o e :
     a \in Optional("permessage-deflate", {NoValue}),
     b \in Optional("server_no_context_takeover", {NoValue}),
     c \in Optional("client_no_context_takeover", {NoValue}),
     d \in Optional("server_max_window_bits", Bits \cup {Text}),
     e \in Optional("client_max_window_bits", Bits \cup {NoValue})}

-----------------------------------------------------------------------------

(* get_SecWebSocketExtensions_value: what is offered to the server *)
get_SecWebSocketExtensions_value(def) ==
  <<Segment("permessage-deflate", NoValue)>>
  \o (IF def.server_max_window_bits > 0
      THEN <<Segment("server_max_window_bits", def.server_max_window_bits)>> ELSE <<>>)
  \o (IF def.client_max_window_bits > 0
      THEN <<Segment("client_max_window_bits", def.client_max_window_bits)>> ELSE <<>>)
  \o (IF def.server_no_context_takeover
      THEN <<Segment("server_no_context_takeover", NoValue)>> ELSE <<>>)
  \o (IF def.client_no_context_takeover
      THEN <<Segment("client_no_context_takeover", NoValue)>> ELSE <<>>)

(* parse_WebSocketExtensions: a map from keys to values; the last segment
   with a key counts *)
Keys(header) == {header[i].key : i \in DOMAIN header}
parse_WebSocketExtensions(header) ==
  [key \in Keys(header) |->
     LET last == CHOOSE i \in DOMAIN header :
                   /\ header[i].key = key
                   /\ \A j \in DOMAIN header : header[j].key = key => j <= i
     IN  header[last].value]

(* parse_window_bits: a number from 8 to 15, else an error *)
parse_window_bits(value) == value \in 8..15

(* What a negotiate_* function returns: the parameters, or an error. *)
Agreed(def) == [ok |-> TRUE, def |-> def]
Refused(def) == [ok |-> FALSE, def |-> def]

(* Mutant: what was requested is taken for agreed. *)
negotiate_server_no_context_takeoverMutant(def, ext) ==
  Agreed([def EXCEPT !.server_no_context_takeover =
            @ \/ "server_no_context_takeover" \in DOMAIN ext])

negotiate_server_no_context_takeover(def, ext) ==
  Agreed([def EXCEPT !.server_no_context_takeover =
            "server_no_context_takeover" \in DOMAIN ext])

(* Mutant: the response is ignored. *)
negotiate_client_no_context_takeoverMutant(def, ext) == Agreed(def)

negotiate_client_no_context_takeover(def, ext) ==
  Agreed([def EXCEPT !.client_no_context_takeover =
            @ \/ "client_no_context_takeover" \in DOMAIN ext])

negotiate_server_max_window_bits(def, ext) ==
  LET requested == def.server_max_window_bits
      bits == ext["server_max_window_bits"]
  IN
  CASE "server_max_window_bits" \notin DOMAIN ext ->
         Agreed([def EXCEPT !.server_max_window_bits = default_max_window_bits])
    [] /\ "server_max_window_bits" \in DOMAIN ext
       /\ ~parse_window_bits(bits) \/ (requested > 0 /\ bits > requested) -> Refused(def)
    [] OTHER -> Agreed([def EXCEPT !.server_max_window_bits = bits])

negotiate_client_max_window_bits(def, ext) ==
  LET requested == def.client_max_window_bits
      bits == ext["client_max_window_bits"]
  IN
  CASE "client_max_window_bits" \notin DOMAIN ext ->
         Agreed([def EXCEPT !.client_max_window_bits = default_max_window_bits])
    [] /\ "client_max_window_bits" \in DOMAIN ext
       /\ ~parse_window_bits(bits) \/ (requested > 0 /\ bits > requested) -> Refused(def)
    [] OTHER -> Agreed([def EXCEPT !.client_max_window_bits = bits])

(* negotiate: whether the extension is on, off, or the response refused, and
   the parameters as the four functions have left them *)
negotiate(def, header) ==
  LET ext == parse_WebSocketExtensions(header)
      r1 == negotiate_server_no_context_takeover(def, ext)
      r2 == negotiate_client_no_context_takeover(r1.def, ext)
      r3 == negotiate_server_max_window_bits(r2.def, ext)
      r4 == negotiate_client_max_window_bits(r3.def, ext)
  IN
  CASE "permessage-deflate" \notin DOMAIN ext -> [on |-> "off", def |-> def]
    [] OTHER -> IF ~r3.ok THEN [on |-> "refused", def |-> r3.def]
                ELSE [on |-> IF r4.ok THEN "on" ELSE "refused", def |-> r4.def]
=============================================================================
