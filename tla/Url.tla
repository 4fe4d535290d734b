--------------------------------- MODULE Url --------------------------------
(***************************************************************************)
(* URL: the constructor function parse, to_string, and parse again.  A URL *)
(* is the protocol in front of "://" and the characters behind it, one     *)
(* representative for each kind that parse tells apart.                    *)
(***************************************************************************)
EXTENDS Integers, SequencesExt

CONSTANTS
  Chars,     (* the characters of URLs *)
  MaxUrl,    (* bound on the characters behind "://" *)
  Ports      (* numbers written as ports of longer URLs *)

VARIABLES
  url,       (* the argument of parse *)
  parsed,    (* what parse has returned *)
  again      (* what it has returned for to_string of that *)

vars == <<url, parsed, again>>

None == [ok |-> FALSE, why |-> "not called"]
Error == [ok |-> FALSE, why |-> "url_error"]
npos == 0
Digits == <<"0", "1", "2", "3", "4", "5", "6", "7", "8", "9">>
Ends == {"/", "?", "#"}

(* std::to_string of a number; a port has five digits at most *)
MaxNumber == 99999
Decimal[n \in 0..MaxNumber] ==
  IF n < 10 THEN <<Digits[n + 1]>> ELSE Append(Decimal[n \div 10], Digits[(n % 10) + 1])

Strings == UNION {[1..n -> Chars] : n \in 0..MaxUrl}

(* "none" stands for a text without "://" *)
Protocols == {"ws", "WS", "bad", "none"}

Init ==
  /\ url \in      {[protocol |-> "ws", rest |-> s] : s \in Strings}
             \cup {[protocol |-> p, rest |-> <<"h">>] : p \in Protocols}
             \cup {[protocol |-> "ws", rest |-> <<"h", ":">> \o Decimal[n]] : n \in Ports}
  /\ parsed = None /\ again = None

-----------------------------------------------------------------------------

tolower(protocol) == IF protocol = "WS" THEN "ws" ELSE protocol

(* protocol_port_map, of which one entry is kept *)
get_default_port(protocol) == IF protocol = "ws" THEN 80 ELSE npos

(* string_view::find_first_of *)
find_first_of(s, chars, from) ==
  LET at == {k \in from..Len(s) : s[k] \in chars}
  IN  IF at = {} THEN npos ELSE CHOOSE k \in at : \A m \in at : k <= m

(* from_chars: the digits in front; a number that is no int is too large as well *)
DigitOf(c) == CHOOSE d \in 0..9 : Digits[d + 1] = c
Value(s) ==
  LET prefix[n \in 0..Len(s)] ==
        IF n = 0 THEN 0 ELSE 10 * prefix[n - 1] + DigitOf(s[n])
  IN  prefix[Len(s)]

(* npos when the text is no port *)
MaxPort == 65535
parse_port(s) ==
  IF ToSet(s) \subseteq ToSet(Digits) /\ Value(s) \in 1..MaxPort THEN Value(s) ELSE npos

(* an empty text after the colon is the default port *)
PortOf(s, default) == IF s = <<>> THEN default ELSE parse_port(s)

(* the position behind the last character of host and port *)
HostEnd(s, end) == IF end = npos THEN Len(s) + 1 ELSE end

Resource(s, end) ==
  IF end = npos \/ (end # npos /\ s[end] = "#") THEN <<"/">>
  ELSE LET fragment == find_first_of(s, {"#"}, end)
           text == SubSeq(s, end, HostEnd(s, fragment) - 1)
       IN  IF Head(text) = "?" THEN <<"/">> \o text ELSE text

Result(host, port, s, end, protocol) ==
  IF host = <<>> \/ port = npos THEN Error
  ELSE [ok |-> TRUE, protocol |-> protocol, host |-> host, port |-> port,
        resource |-> Resource(s, end)]

(* a host in brackets *)
parse_ipv6(s, protocol, default) ==
  LET close == find_first_of(s, {"]"}, 1)
      start == close + 1
      end == find_first_of(s, Ends, start)
      next == IF start <= Len(s) THEN s[start] ELSE "/"
  IN  IF close = npos \/ next \notin {":"} \cup Ends THEN Error
      ELSE Result(SubSeq(s, 2, close - 1),
                  IF next = ":" THEN PortOf(SubSeq(s, start + 1, HostEnd(s, end) - 1), default)
                                ELSE default,
                  s, end, protocol)

(* Mutant: any colon begins the port. *)
IsPortMutant(colon, end) == colon # npos

(* the colon belongs to the port, not to the resource *)
IsPort(colon, end) == colon # npos /\ (end = npos \/ colon < end)

parse_host(s, protocol, default) ==
  LET end == find_first_of(s, Ends, 1)
      colon == find_first_of(s, {":"}, 1)
  IN  IF IsPort(colon, end)
      THEN Result(SubSeq(s, 1, colon - 1),
                  PortOf(SubSeq(s, colon + 1, HostEnd(s, end) - 1), default), s, end, protocol)
      ELSE Result(SubSeq(s, 1, HostEnd(s, end) - 1), default, s, end, protocol)

parse(u) ==
  LET protocol == tolower(u.protocol)
      default == get_default_port(protocol)
  IN  IF u.protocol = "none" \/ default = npos THEN Error
      ELSE IF u.rest # <<>> /\ Head(u.rest) = "[" THEN parse_ipv6(u.rest, protocol, default)
      ELSE parse_host(u.rest, protocol, default)

authority(r) ==
  (IF ":" \in ToSet(r.host) THEN <<"[">> \o r.host \o <<"]">> ELSE r.host)
    \o <<":">> \o Decimal[r.port]

to_string(r) == [protocol |-> r.protocol, rest |-> authority(r) \o r.resource]

-----------------------------------------------------------------------------

Parse == parsed = None /\ parsed' = parse(url) /\ UNCHANGED <<url, again>>

ParseAgain ==
  /\ parsed.ok /\ again = None
  /\ again' = parse(to_string(parsed))
  /\ UNCHANGED <<url, parsed>>

Next == Parse \/ ParseAgain

Spec == Init /\ [][Next]_vars

-----------------------------------------------------------------------------

(* the text between brackets has no character that ends an authority, and no
   further opening bracket *)
Bracketed(s) == s # <<>> /\ Head(s) = "[" /\ "]" \in ToSet(s)
ProperHost(s) ==
  Bracketed(s) => LET close == find_first_of(s, {"]"}, 1)
                  IN  ToSet(SubSeq(s, 2, close - 1)) \cap (Ends \cup {"["}) = {}

(* The authority of a URL is what is in front of the first slash, question mark or
   number sign (RFC 3986, section 3.2). *)
UpTo(s, ends) == SubSeq(s, 1, CHOOSE n \in 0..Len(s) :
  /\ \A k \in 1..n : s[k] \notin ends
  /\ n < Len(s) => s[n + 1] \in ends)
Authority(s) == UpTo(s, Ends)

(* authority = [ userinfo "@" ] host [ ":" port ], the host being characters m to n:
   an address in brackets, in which colons are allowed, or a name. *)
Marks == {"@", "[", "]"}
Divides(s, end, m, n) ==
  /\ m = 1 \/ (s[m - 1] = "@" /\ \A k \in 1..(m - 2) : s[k] \notin Marks)
  /\ m <= n + 1
  /\ IF m <= n /\ s[m] = "["
     THEN m < n /\ s[n] = "]" /\ \A k \in (m + 1)..(n - 1) : s[k] \notin Marks
     ELSE \A k \in m..n : s[k] \notin Marks \cup {":"}
  /\ n = end \/ (s[n + 1] = ":" /\ \A k \in (n + 2)..end : s[k] \in ToSet(Digits))
Divisions(s) ==
  LET end == Len(Authority(s))
  IN  {w \in (1..(end + 1)) \X (0..end) : Divides(s, end, w[1], w[2])}

(* what is sent to the server: the path and the query *)
Target(s) ==
  LET tail == SubSeq(s, Len(Authority(s)) + 1, Len(s))
      text == UpTo(tail, {"#"})
  IN  IF text # <<>> /\ Head(text) = "/" THEN text ELSE <<"/">> \o text

(* the parts of the one division; the host of a connection is not empty *)
Split(s) ==
  IF Divisions(s) = {} THEN Error
  ELSE LET w == CHOOSE w \in Divisions(s) : TRUE
           host == IF w[1] <= w[2] /\ s[w[1]] = "[" THEN SubSeq(s, w[1] + 1, w[2] - 1)
                                                   ELSE SubSeq(s, w[1], w[2])
           text == SubSeq(s, w[2] + 2, Len(Authority(s)))
           port == IF text = <<>> THEN 80 ELSE Value(text)
       IN  IF host = <<>> \/ port \notin 1..MaxPort THEN Error
           ELSE [ok |-> TRUE, protocol |-> "ws", host |-> host, port |-> port,
                 resource |-> Target(s)]

(* no userinfo, which the URLs of RFC 6455 do not have, and in front of the port no
   brackets but those around the host *)
ProperAuthority(s) ==
  LET end == Len(Authority(s))
  IN  /\ ProperHost(s)
      /\ \A k \in 1..end : s[k] # "@"
      /\ s # <<>> /\ s[1] # "[" =>
           \A k \in 1..end : s[k] \in {"[", "]"} => \E j \in 1..(k - 1) : s[j] = ":"

(* A URL with a proper authority is divided, or refused, as RFC 3986 does it, wherever
   colons, slashes, question marks and number signs occur again; and what to_string
   makes of a result is parsed to the same result, with the host of an IPv6 address,
   too (URL::parse).  parse looks for neither userinfo nor stray brackets:
   HostIsHostPart and InvalidIsError are about those. *)
UrlIsSplit ==
  /\ parsed # None /\ tolower(url.protocol) = "ws" /\ ProperAuthority(url.rest)
       => parsed = Split(url.rest)
  /\ again # None /\ ProperHost(url.rest) => again = parsed

(* "return an error if the URL is invalid without using exceptions", the comment
   above URL::parse: a text with a stray bracket is no URL. *)
InvalidIsError ==
  parsed # None /\ tolower(url.protocol) = "ws" /\ Split(url.rest) = Error => ~parsed.ok

(* "Returns the host part of the URL." (URL::host): without the userinfo. *)
HostIsHostPart ==
  parsed # None /\ parsed.ok /\ Split(url.rest).ok => parsed.host = Split(url.rest).host
=============================================================================
