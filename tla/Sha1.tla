-------------------------------- MODULE Sha1 ---------------------------------
(***************************************************************************)
(* SHA1 (utils/SHA1.hpp) as the handshake uses it: bytes are collected     *)
(* into blocks, whatever pieces update() gets them in, and final_bytes()   *)
(* pads the last one.  The compression function is not computed: a digest  *)
(* is the sequence of the blocks that went into it.                        *)
(*                                                                         *)
(* The code's block has 64 bytes, the last 8 of which hold the length of   *)
(* the message; here BLOCK_BYTES and LengthBytes.                          *)
(***************************************************************************)
EXTENDS Naturals, Sequences

CONSTANTS
  BLOCK_BYTES, LengthBytes,
  Values,        (* the bytes of messages *)
  MaxMessage,    (* bound on the bytes of a message *)
  MaxPiece,      (* bound on the bytes of one call of update() *)
  MaxMessages    (* bound on the messages hashed with one object *)

VARIABLES
  digest, buffer, transforms, (* the members *)
  is,            (* what update() has not read of its argument *)
  pc,            (* idle, update, or final: final_bytes() has returned *)
  result,        (* what it returned *)
  message,       (* the message of which it is to be the digest *)
  hashed         (* messages so far *)

object == <<digest, buffer, transforms>>
vars == <<object, is, pc, result, message, hashed>>

Reset == digest' = <<>> /\ buffer' = <<>> /\ transforms' = 0

Init ==
  /\ digest = <<>> /\ buffer = <<>> /\ transforms = 0
  /\ is = <<>> /\ pc = "idle" /\ result = <<>> /\ message = <<>> /\ hashed = 0

transform(d, block) == Append(d, block)
Zeros(n) == [i \in 1..n |-> 0]

(* update(s): what it reads from *)
update(s) ==
  /\ pc = "idle" /\ hashed < MaxMessages
  /\ Len(message) + Len(s) <= MaxMessage
  /\ is' = s /\ message' = message \o s /\ pc' = "update"
  /\ UNCHANGED <<object, result, hashed>>

(* one pass of its loop *)
UpdateLoopMutant ==
  /\ pc = "update"
  /\ LET want == BLOCK_BYTES - Len(buffer)
         n == IF Len(is) < want THEN Len(is) ELSE want
         filled == buffer \o SubSeq(is, 1, n)
     IN  /\ is' = SubSeq(is, n + 1, Len(is))
         /\ \/ /\ Len(filled) # BLOCK_BYTES
               /\ buffer' = filled /\ pc' = "idle" /\ UNCHANGED <<digest, transforms>>
            \/ /\ Len(filled) = BLOCK_BYTES
               /\ digest' = transform(digest, filled) /\ UNCHANGED transforms
               /\ buffer' = <<>> /\ pc' = pc
  /\ UNCHANGED <<result, message, hashed>>
UpdateLoop ==
  /\ pc = "update"
  /\ LET want == BLOCK_BYTES - Len(buffer)
         n == IF Len(is) < want THEN Len(is) ELSE want
         filled == buffer \o SubSeq(is, 1, n)
     IN  /\ is' = SubSeq(is, n + 1, Len(is))
         /\ \/ /\ Len(filled) # BLOCK_BYTES
               /\ buffer' = filled /\ pc' = "idle" /\ UNCHANGED <<digest, transforms>>
            \/ /\ Len(filled) = BLOCK_BYTES
               /\ digest' = transform(digest, filled) /\ transforms' = transforms + 1
               /\ buffer' = <<>> /\ pc' = pc
  /\ UNCHANGED <<result, message, hashed>>

(* final_bytes(): the length in bits takes the place of the last words *)
Last(words, total_bits) == SubSeq(words, 1, BLOCK_BYTES - LengthBytes) \o <<total_bits>>
final_bytes ==
  /\ pc = "idle" /\ hashed < MaxMessages
  /\ LET total_bits == (transforms * BLOCK_BYTES + Len(buffer)) * 8
         orig_size == Len(buffer) + 1
         block == buffer \o <<128>> \o Zeros(BLOCK_BYTES - orig_size)
     IN  result' =
           IF orig_size > BLOCK_BYTES - LengthBytes
           THEN transform(transform(digest, block), Last(Zeros(BLOCK_BYTES), total_bits))
           ELSE transform(digest, Last(block, total_bits))
  /\ Reset /\ pc' = "final" /\ hashed' = hashed + 1
  /\ UNCHANGED <<is, message>>

(* the caller starts another message with the object *)
NextMessage ==
  /\ pc = "final" /\ pc' = "idle" /\ message' = <<>> /\ result' = <<>>
  /\ UNCHANGED <<object, is, hashed>>

Next ==
  \/ \E n \in 0..MaxPiece : \E s \in [1..n -> Values] : update(s)
  \/ UpdateLoop \/ final_bytes \/ NextMessage

Spec == Init /\ [][Next]_vars

-----------------------------------------------------------------------------
(* The reference: the message, the byte 128, as few zeros as make whole blocks
   with the length behind them. *)
Padded(m) ==
  LET zeros == CHOOSE z \in 0..(BLOCK_BYTES - 1) :
                 (Len(m) + 1 + z + LengthBytes) % BLOCK_BYTES = 0
  IN  m \o <<128>> \o Zeros(zeros)
BlocksOf(m) ==
  LET p == Padded(m)
      n == (Len(p) + LengthBytes) \div BLOCK_BYTES
  IN  [k \in 1..n |->
         IF k < n THEN SubSeq(p, (k - 1) * BLOCK_BYTES + 1, k * BLOCK_BYTES)
                  ELSE SubSeq(p, (n - 1) * BLOCK_BYTES + 1, Len(p)) \o <<8 * Len(m)>>]

(* final_bytes() hashes the blocks the standard prescribes for the message,
   whatever pieces update() got it in, at every length around the boundary of
   a block, and with an object that has hashed other messages before. *)
DigestIsStandard == (pc = "final") => result = BlocksOf(message)
=============================================================================
