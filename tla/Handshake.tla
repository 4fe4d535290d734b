------------------------------- MODULE Handshake -------------------------------
(***************************************************************************)
(* Handshake.hpp, with HttpHeader.hpp and HttpParser.hpp: a Handshake      *)
(* object builds the upgrade request and checks the server's response,     *)
(* for one connection or, when the program connects again with the same    *)
(* object, for several.                                                    *)
(*                                                                         *)
(* HttpHeaderFields is a function from field names (which are compared     *)
(* without case) to the values given to the name, in order.  Keys are      *)
(* numbers in the order in which they were generated; the accept value of  *)
(* a key is that number, as SHA1 and base64 tell keys apart.  The value of *)
(* a list field is the set of its tokens.                                  *)
(***************************************************************************)
EXTENDS PermessageDeflate, FiniteSets

CONSTANTS
  Requests,   (* parameters the user may ask for, a subset of Defs *)
  MaxUses     (* connections made with one object (bound) *)

Names == {"Host", "Upgrade", "Connection", "Sec-WebSocket-Version", "Sec-WebSocket-Key",
          "Sec-WebSocket-Extensions", "User-Agent", "Sec-WebSocket-Accept"}

(* HttpHeaderFields *)
NoFields == [name \in Names |-> <<>>]
contains_key(fields, name) == fields[name] # <<>>
get_first(fields, name) == Head(fields[name])
add(fields, name, value) == [fields EXCEPT ![name] = Append(@, value)]
add_if_missing(fields, name, value) ==
  IF contains_key(fields, name) THEN fields ELSE add(fields, name, value)

(* Mutant: the fields with this name are not erased first. *)
setMutant(fields, name, value) == add(fields, name, value)
set(fields, name, value) == [fields EXCEPT ![name] = <<value>>]

(* permessage_deflate_ = std::nullopt *)
NoDeflate == [server_max_window_bits |-> 0, client_max_window_bits |-> 0,
              server_no_context_takeover |-> FALSE, client_no_context_takeover |-> FALSE,
              none |-> TRUE]
Some(def) == [f \in DOMAIN NoDeflate |-> IF f = "none" THEN FALSE ELSE def[f]]
Value(opt) == [f \in DOMAIN NoDeflate \ {"none"} |-> opt[f]]

VARIABLES
  fields,      (* request_header_.fields *)
  key,         (* request_SecWebSocketKey_ *)
  deflate,     (* permessage_deflate_ *)
  negotiated,  (* permessage_deflate_negotiated_ *)
  success,     (* success_ *)
  generated,   (* keys generated so far *)
  wire,        (* the request the server got *)
  response,    (* its response *)
  honest,      (* whether the response is one that RFC 6455 asks for *)
  pc, result

vars == <<fields, key, deflate, negotiated, success, generated, wire, response, honest,
          pc, result>>

NoResponse == [status |-> 0, malformed |-> FALSE, fields |-> NoFields]

Init ==
  /\ fields = NoFields /\ key = 0
  /\ deflate = NoDeflate /\ negotiated = FALSE /\ success = FALSE
  /\ generated = 0 /\ wire = NoFields
  /\ response = NoResponse /\ honest = FALSE
  /\ pc = "idle" /\ result = "none"

-----------------------------------------------------------------------------

set_permessage_deflate ==
  /\ pc = "idle"
  /\ \E def \in Requests : deflate' = Some(def)
  /\ UNCHANGED <<fields, key, negotiated, success, generated, wire, response, honest, pc,
                 result>>

(* get_request_header().fields.set(...): the user's own value of a field.  Host is a
   field that generate_request_message adds if it is missing, the key one that it
   overwrites; the others of both kinds are left out. *)
user_field ==
  /\ pc = "idle" /\ generated = 0
  /\ \/ fields' = set(fields, "Host", "user")
     \/ fields' = set(fields, "Sec-WebSocket-Key", 0)
  /\ UNCHANGED <<key, deflate, negotiated, success, generated, wire, response, honest, pc,
                 result>>

(* Mutant: a key is put into the request only once. *)
KeyFieldMutant(f, k) == add_if_missing(f, "Sec-WebSocket-Key", k)

(* generate_SecWebSocketKey for each request *)
KeyField(f, k) == set(f, "Sec-WebSocket-Key", k)

(* get_request_message *)
get_request_message ==
  /\ pc = "idle" /\ generated < MaxUses
  /\ generated' = generated + 1
  /\ key' = generated'
  /\ LET f1 == add_if_missing(fields, "Host", "url")
         f2 == add_if_missing(f1, "Upgrade", {"websocket"})
         f3 == add_if_missing(f2, "Connection", {"upgrade"})
         f4 == add_if_missing(f3, "Sec-WebSocket-Version", 13)
         f5 == KeyField(f4, key')
         f6 == IF ~deflate.none /\ ~contains_key(f5, "Sec-WebSocket-Extensions")
               THEN set(f5, "Sec-WebSocket-Extensions",
                        get_SecWebSocketExtensions_value(Value(deflate)))
               ELSE f5
     IN  fields' = add_if_missing(f6, "User-Agent", "websocketclient-cpp")
  /\ wire' = fields'
  /\ pc' = "sent"
  /\ result' = "none"
  /\ UNCHANGED <<deflate, negotiated, success, response, honest>>

-----------------------------------------------------------------------------
(* The server *)

(* The extension headers a server may answer an offer with: none, or the
   extension with parameters within the offer. *)
Offer == IF contains_key(wire, "Sec-WebSocket-Extensions")
         THEN parse_WebSocketExtensions(get_first(wire, "Sec-WebSocket-Extensions"))
         ELSE <<>>
WithinOffer(header) ==
  LET ext == parse_WebSocketExtensions(header) IN
  \/ header = NoHeader
  \/ /\ "permessage-deflate" \in DOMAIN Offer /\ "permessage-deflate" \in DOMAIN ext
     /\ \A k \in {"server_max_window_bits", "client_max_window_bits"} \cap DOMAIN ext :
          /\ parse_window_bits(ext[k])
          /\ k \in DOMAIN Offer => ext[k] <= Offer[k]
     /\ "client_max_window_bits" \in DOMAIN ext => "client_max_window_bits" \in DOMAIN Offer

Proper(header) ==
  [status |-> 101, malformed |-> FALSE,
   fields |-> [NoFields EXCEPT !["Upgrade"] = <<{"websocket"}>>,
                               !["Connection"] = <<{"keep-alive"}, {"upgrade"}>>,
                               !["Sec-WebSocket-Accept"] =
                                   <<get_first(wire, "Sec-WebSocket-Key")>>,
                               !["Sec-WebSocket-Extensions"] =
                                   IF header = NoHeader THEN <<>> ELSE <<header>>]]

ShortHeaders == {h \in Headers : Len(h) <= 2}

(* a response with one thing wrong, an accept value of an earlier key (a
   response from a cache) among them *)
Improper ==
  {[Proper(NoHeader) EXCEPT !.status = 404], [Proper(NoHeader) EXCEPT !.malformed = TRUE]}
  \cup {[Proper(NoHeader) EXCEPT !.fields["Upgrade"] = u] : u \in {<<>>, <<{"h2c"}>>}}
  \cup {[Proper(NoHeader) EXCEPT !.fields["Connection"] = c] : c \in {<<>>, <<{"upgrader"}>>}}
  \cup {[Proper(NoHeader) EXCEPT !.fields["Sec-WebSocket-Accept"] = a] :
          a \in {<<>>} \cup {<<k>> : k \in 0..(generated - 1)}}
  \cup {[Proper(NoHeader) EXCEPT !.fields["Sec-WebSocket-Version"] = <<8>>]}
  \cup {Proper(h) : h \in {g \in ShortHeaders : ~WithinOffer(g)}}

Server ==
  /\ pc = "sent"
  /\ \/ \E h \in {g \in ShortHeaders : WithinOffer(g)} : response' = Proper(h) /\ honest' = TRUE
     \/ response' \in Improper /\ honest' = FALSE
  /\ pc' = "response"
  /\ UNCHANGED <<fields, key, deflate, negotiated, success, generated, wire, result>>

-----------------------------------------------------------------------------
(* process_response *)

(* A field may be repeated, and each may be a list. *)
header_contains_token(f, name, token) == \E i \in DOMAIN f[name] : token \in f[name][i]

parse_request_status_line == response.status = 101
parse_header_fields == ~response.malformed
validate_UpgradeWebsocket == header_contains_token(response.fields, "Upgrade", "websocket")
validate_ConnectionUpgrade == header_contains_token(response.fields, "Connection", "upgrade")

(* Mutant: it is enough that there is an accept value. *)
validate_SecWebSocketAcceptMutant == contains_key(response.fields, "Sec-WebSocket-Accept")
validate_SecWebSocketAccept ==
  /\ contains_key(response.fields, "Sec-WebSocket-Accept")
  /\ get_first(response.fields, "Sec-WebSocket-Accept") = key

validate_SecWebSocketVersion ==
  contains_key(response.fields, "Sec-WebSocket-Version")
    => get_first(response.fields, "Sec-WebSocket-Version") = 13

Valid == /\ parse_request_status_line /\ parse_header_fields
         /\ validate_UpgradeWebsocket /\ validate_ConnectionUpgrade
         /\ validate_SecWebSocketAccept /\ validate_SecWebSocketVersion

ResponseExtensions ==
  IF contains_key(response.fields, "Sec-WebSocket-Extensions")
  THEN get_first(response.fields, "Sec-WebSocket-Extensions") ELSE NoHeader

(* Mutant: the flag is set when the extension is on, and never cleared. *)
CompressionFlagMutant(on) == negotiated \/ on

(* permessage_deflate_negotiated_ = *negotiate_res *)
CompressionFlag(on) == on

Return(r) == pc' = "idle" /\ result' = r

(* The negotiation changes the parameters also when it fails later on. *)
process_response ==
  /\ pc = "response"
  /\ LET agreed == negotiate(Value(deflate), ResponseExtensions) IN
     \/ ~Valid /\ Return("error") /\ UNCHANGED <<deflate, negotiated, success>>
     \/ /\ Valid /\ deflate.none
        /\ success' = TRUE /\ Return("ok")
        /\ UNCHANGED <<deflate, negotiated>>
     \/ /\ Valid /\ ~deflate.none
        /\ deflate' = Some(agreed.def)
        /\ IF agreed.on = "refused"
           THEN Return("error") /\ UNCHANGED <<negotiated, success>>
           ELSE /\ negotiated' = CompressionFlag(agreed.on = "on")
                /\ success' = TRUE
                /\ Return("ok")
  /\ UNCHANGED <<fields, key, generated, wire, response, honest>>

Next ==
  \/ set_permessage_deflate \/ user_field \/ get_request_message
  \/ Server
  \/ process_response

Spec == Init /\ [][Next]_vars

-----------------------------------------------------------------------------

(* Every request, also of an object that is used again or in which the user
   has set fields, has exactly one field of each kind the server needs. *)
RequestWellFormed ==
  pc # "idle" =>
    \A name \in {"Host", "Upgrade", "Connection", "Sec-WebSocket-Version", "Sec-WebSocket-Key"} :
      Len(wire[name]) = 1

(* A response is accepted only when it was made for the request just sent: a
   response to an earlier request of this object is not. *)
AcceptedIsOurs ==
  result = "ok" => /\ contains_key(response.fields, "Sec-WebSocket-Accept")
                   /\ get_first(response.fields, "Sec-WebSocket-Accept") = generated

(* After a successful handshake is_compression_negotiated() tells what this
   response says of an extension that was offered: the client compresses and
   takes compressed messages exactly when the server does. *)
CompressionAsAgreed ==
  result = "ok" /\ honest => (negotiated <=> ResponseExtensions # NoHeader)

(* A server that answers properly, with parameters within the offer it got,
   is not refused, whatever the user has asked for or put into the request;
   an object that was used before is excepted. *)
ProperIsAcceptedAtFirst == honest /\ generated = 1 => result # "error"

(* "Received server_max_window_bits {} greater than requested value of {}"
   and the other errors of the negotiation are reported of a response that
   exceeds the request, never of a proper one. *)
ProperIsAccepted == honest => result # "error"
=============================================================================
