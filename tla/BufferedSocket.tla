--------------------------- MODULE BufferedSocket ---------------------------
(***************************************************************************)
(* BufferedSocket.hpp: reading exact amounts and up to a delimiter through *)
(* the ring of CircularBuffer, over a transport whose read_some hands over *)
(* any non-empty part of what has arrived, or fails.                       *)
(*                                                                         *)
(* A byte of the peer's stream is its offset 1, 2, 3, ...; 0 stands for    *)
(* memory nobody has written.  A step ends where the code calls the        *)
(* transport.  The calls come in the order in which WebSocketClient makes  *)
(* them: read_until the end of the HTTP response, read_exact of the        *)
(* delimiter itself, then read_exact and wait_readable for frames.         *)
(* After an error its user may only close the connection.                  *)
(***************************************************************************)
EXTENDS CircularBuffer

CONSTANTS
  StreamLen,   (* bytes the peer sends on this connection (bound) *)
  DelimLen,    (* delimiter.size() *)
  DelimAt,     (* where in the stream the first delimiter may start *)
  MaxSize,     (* max_size of the Buffer that read_until fills *)
  ReadSizes    (* lengths read_exact is called with once frames flow *)

ASSUME StreamAssumption ==
  /\ StreamLen \in Nat
  /\ Byte = 0..StreamLen
  /\ DelimLen \in Nat \ {0}
  /\ DelimAt \subseteq Nat \ {0}
  /\ DelimAt # {}
  /\ MaxSize \in Nat
  /\ ReadSizes \subseteq Nat \ {0}

VARIABLES
  pc,             (* the call in progress and how far it is *)
  stage,          (* which call of the client comes next *)
  delim,          (* offset of the first delimiter in the stream *)
  received,       (* bytes the transport has handed over *)
  taken,          (* bytes completed calls have handed to their callers *)
  got,            (* bytes in the destination of the call in progress *)
  remaining,      (* read_exact: bytes still missing *)
  search_offset   (* read_until: bytes already searched *)

callVars == <<pc, stage, delim, received, taken, got, remaining, search_offset>>
vars == <<ringVars, callVars>>

Idle == {"idle", "failed", "aborted"}
Busy == {"until_fill", "until_append", "until_search",
         "exact_fill", "exact_pop", "wait"}

(* The n bytes that follow the first i of the stream. *)
Stream(i, n) == [k \in 1..n |-> i + k]

DelimBytes == [k \in 1..DelimLen |-> delim + k - 1]

-----------------------------------------------------------------------------

Init ==
  /\ buffer = [i \in Index |-> 0]
  /\ head = 0 /\ tail = 0 /\ full = FALSE
  /\ given = <<>> /\ dest = <<>>
  /\ pc = "idle" /\ stage = "response"
  /\ delim \in DelimAt
  /\ received = 0 /\ taken = <<>> /\ got = <<>>
  /\ remaining = 0 /\ search_offset = 0

Fail ==
  /\ pc' = "failed"
  /\ UNCHANGED <<ringVars, stage, delim, received, taken, got, remaining, search_offset>>

(* fill_read_buffer(desired), then on to the step after it.  No socket call
   when the ring holds enough; otherwise read_some into the contiguous free
   span, which may return an error, and which reports an empty span, for
   which recv returns 0, as a closed connection. *)
fill_read_buffer(desired, then) ==
  \/ /\ size >= desired
     /\ pc' = then
     /\ UNCHANGED <<ringVars, stage, delim, received, taken, got, remaining, search_offset>>
  \/ /\ size < desired
     /\ \E n \in 1..Capacity :
          /\ received + n <= StreamLen
          /\ move_head(Stream(received, n))
          /\ received' = received + n
     /\ pc' = then
     /\ UNCHANGED <<stage, delim, taken, got, remaining, search_offset>>
  \/ /\ size < desired
     /\ Fail

(* A call of the client: read_exact(len) *)
read_exact ==
  /\ pc = "idle"
  /\ \/ stage = "delimiter" /\ remaining' = DelimLen
     \/ stage = "frames" /\ remaining' \in ReadSizes
  /\ got' = <<>>
  /\ pc' = "exact_fill"
  /\ UNCHANGED <<ringVars, stage, delim, received, taken, search_offset>>

read_exact_fill ==
  /\ pc = "exact_fill"
  /\ fill_read_buffer(remaining, "exact_pop")

(* Mutant: the destination is overwritten from its start each time round. *)
read_exact_popMutant ==
  LET n == Least(size, remaining)
  IN  /\ pc = "exact_pop"
      /\ pop(n)
      /\ remaining' = remaining - n
      /\ \/ n < remaining /\ pc' = "exact_fill" /\ got' = dest'
            /\ UNCHANGED <<taken, stage>>
         \/ n = remaining /\ pc' = "idle" /\ got' = <<>>
            /\ taken' = taken \o dest' /\ stage' = "frames"
      /\ UNCHANGED <<delim, received, search_offset>>

read_exact_pop ==
  LET n == Least(size, remaining)
  IN  /\ pc = "exact_pop"
      /\ pop(n)
      /\ remaining' = remaining - n
      /\ \/ n < remaining /\ pc' = "exact_fill" /\ got' = got \o dest'
            /\ UNCHANGED <<taken, stage>>
         \/ n = remaining /\ pc' = "idle" /\ got' = <<>>
            /\ taken' = taken \o got \o dest' /\ stage' = "frames"
      /\ UNCHANGED <<delim, received, search_offset>>

(* A call of the client: read_until(buffer, delimiter) *)
read_until ==
  /\ pc = "idle" /\ stage = "response"
  /\ search_offset' = 0
  /\ got' = <<>>
  /\ pc' = "until_fill"
  /\ UNCHANGED <<ringVars, stage, delim, received, taken, remaining>>

read_until_fill ==
  /\ pc = "until_fill"
  /\ fill_read_buffer(Capacity, "until_append")

(* Mutant: the bytes are copied to the buffer but stay in the ring. *)
read_until_appendMutant ==
  /\ pc = "until_append"
  /\ \/ /\ Len(got) + size <= MaxSize
        /\ got' = got \o Contents
        /\ pc' = "until_search"
        /\ UNCHANGED <<ringVars, stage, delim, received, taken, remaining, search_offset>>
     \/ /\ Len(got) + size > MaxSize
        /\ Fail

(* buffer.append(read_buffer_.size()), which fails at max_size, then pop of
   everything into the appended part *)
read_until_append ==
  /\ pc = "until_append"
  /\ \/ /\ Len(got) + size <= MaxSize
        /\ pop(size)
        /\ got' = got \o dest'
        /\ pc' = "until_search"
        /\ UNCHANGED <<stage, delim, received, taken, remaining, search_offset>>
     \/ /\ Len(got) + size > MaxSize
        /\ Fail

(* Mutant: only what the last fill brought is searched. *)
search_startMutant == search_offset

(* Bytes at the start of the buffer that std::search skips: those searched
   before, less the longest part of a delimiter they may end with. *)
search_start == search_offset - Least(search_offset, DelimLen - 1)

(* Where in the buffer std::search finds the delimiter. *)
Matches == {i \in (search_start + 1)..(Len(got) - DelimLen + 1) :
              SubSeq(got, i, i + DelimLen - 1) = DelimBytes}

(* Found: the delimiter and what follows go back into the ring, whose push
   asserts that they fit, and the buffer keeps what precedes. *)
read_until_found(res) ==
  LET rest == SubSeq(got, res, Len(got))
  IN  \/ /\ push(rest)
         /\ taken' = taken \o SubSeq(got, 1, res - 1)
         /\ got' = <<>>
         /\ stage' = "delimiter"
         /\ pc' = "idle"
         /\ UNCHANGED <<delim, received, remaining, search_offset>>
      \/ /\ Len(rest) > available
         /\ pc' = "aborted"
         /\ UNCHANGED <<ringVars, stage, delim, received, taken, got, remaining, search_offset>>

read_until_search ==
  /\ pc = "until_search"
  /\ \/ \E res \in Matches :
          /\ \A i \in Matches : res <= i
          /\ read_until_found(res)
     \/ /\ Matches = {}
        /\ search_offset' = Len(got)
        /\ pc' = "until_fill"
        /\ UNCHANGED <<ringVars, stage, delim, received, taken, got, remaining>>

(* Mutant: the transport is asked although the ring still holds bytes. *)
wait_readableMutant ==
  /\ pc = "idle" /\ stage = "frames"
  /\ pc' = "wait"
  /\ UNCHANGED <<ringVars, stage, delim, received, taken, got, remaining, search_offset>>

(* wait_readable: true at once while the ring holds bytes, otherwise the
   transport is asked, which blocks until it is readable or fails. *)
wait_readable ==
  /\ pc = "idle" /\ stage = "frames"
  /\ pc' = IF empty THEN "wait" ELSE "idle"
  /\ UNCHANGED <<ringVars, stage, delim, received, taken, got, remaining, search_offset>>

(* Mutant: select without a timeout. *)
wait_readable_returnMutant ==
  /\ pc = "wait"
  /\ received < StreamLen
  /\ pc' = "idle"
  /\ UNCHANGED <<ringVars, stage, delim, received, taken, got, remaining, search_offset>>

wait_readable_return ==
  /\ pc = "wait"
  /\ pc' \in {"idle", "failed"}
  /\ UNCHANGED <<ringVars, stage, delim, received, taken, got, remaining, search_offset>>

Caller == read_until \/ read_exact \/ wait_readable

Socket ==
  \/ read_exact_fill \/ read_exact_pop
  \/ read_until_fill \/ read_until_append \/ read_until_search
  \/ wait_readable_return

Next == Caller \/ Socket

Spec == Init /\ [][Next]_vars

(* A call in progress goes on: every call of the transport returns, at the
   latest when its timeout has expired. *)
FairSpec == Spec /\ WF_vars(Socket)

-----------------------------------------------------------------------------

TypeOK ==
  /\ RingTypeOK
  /\ pc \in Idle \cup Busy
  /\ stage \in {"response", "delimiter", "frames"}
  /\ delim \in DelimAt
  /\ received \in 0..StreamLen
  /\ taken \in Seq(Byte) /\ got \in Seq(Byte)
  /\ remaining \in Nat
  /\ search_offset \in Nat

(* Nothing is lost, repeated or reordered between the transport and the
   callers of read_until and read_exact: what completed calls have returned,
   what the current one has put into its destination, and what the ring
   still holds are, in this order, the stream as far as it was received.
   Pushing back after the delimiter, wrap-around and partial reads included. *)
StreamInOrder == taken \o got \o Contents = Stream(0, received)

(* read_until stops at the first delimiter even if it arrived in pieces: it
   asks for more only while the delimiter is not complete, and leaves
   exactly what precedes it. *)
DelimiterNotMissed ==
  /\ pc = "until_fill" => Len(got) < delim + DelimLen - 1
  /\ stage = "delimiter" /\ pc # "failed" =>
       Len(taken) + Len(got) + 1 \in delim..(delim + DelimLen - 1)
  /\ stage = "frames" => Len(taken) >= delim + DelimLen - 1

(* The transport is asked only for what it can give: never to fill an empty span,
   for which it would report the connection as closed, and wait_readable blocks
   on it only when its caller has been given everything that was received, as
   bytes in the ring make no socket readable. *)
NoUselessWait ==
  /\ pc = "exact_fill" /\ size < remaining => available_span > 0
  /\ pc = "until_fill" /\ size < Capacity => available_span > 0
  /\ pc = "wait" => taken = Stream(0, received)

(* A response that ends, with its delimiter, inside the first Capacity bytes
   never overflows the ring when its tail is pushed back. *)
ShortResponseFits == delim + DelimLen - 1 <= Capacity => pc # "aborted"

(* "assert(len <= available() && "CircularBuffer is full")" in
   CircularBuffer::push: what read_until pushes back after the delimiter
   fits into the ring. *)
PushBackFits == pc # "aborted"

(* Every call returns. *)
CallsReturn == pc \in Busy ~> pc \in Idle
=============================================================================
