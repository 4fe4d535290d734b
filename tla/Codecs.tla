------------------------------- MODULE Codecs -------------------------------
(***************************************************************************)
(* The parts of the client that work on one object in memory and do no     *)
(* I/O: the opening handshake and the negotiation of permessage-deflate,   *)
(* the compression streams, masking, the check of UTF-8, URLs, the message *)
(* buffer and SHA-1.  They share no state, so each is explored by itself:  *)
(* Init chooses the part, the variables of the others stay Absent.         *)
(***************************************************************************)
EXTENDS Integers, Sequences

CONSTANTS
  DeflateBits,               (* window sizes in the negotiation before DeflateContext *)
  Inflated, Deflated,        (* sizes of messages and of compressed payloads *)
  BufMax, CompMax,           (* max_size of the buffers *)
  ShakeBits, MaxUses,        (* window sizes and uses of a handshake object *)
  Aligns, Addrs, MaxLen, MaxCalls,            (* builds, addresses, lengths, calls of mask() *)
  Bytes, MaxString, IntBits,                  (* strings to be validated, the width of int *)
  Chars, MaxUrl, Ports,                       (* URLs *)
  Buffers, Blocks, Values, MaxSize, MaxSizes, (* message buffers, their heap and sizes *)
  BLOCK_BYTES, LengthBytes, HashValues, MaxMessage, MaxPiece, MaxMessages (* SHA-1 *)

ASSUME CodecsAssumption ==
  /\ DeflateBits \cup ShakeBits \subseteq Nat
  /\ Inflated \subseteq Nat /\ Deflated \subseteq Nat \ {0}
  /\ Addrs \subseteq Nat /\ \A a \in Aligns : a \in Nat \ {0} /\ a % 4 = 0
  /\ Bytes \subseteq 0..255 /\ MaxSizes \subseteq 0..MaxSize /\ "null" \notin Blocks
  /\ HashValues \subseteq 1..127 /\ LengthBytes < BLOCK_BYTES
  /\ {BLOCK_BYTES, LengthBytes, MaxMessage, MaxPiece, MaxMessages, IntBits} \subseteq Nat \ {0}
  /\ {BufMax, CompMax, MaxUses, MaxLen, MaxCalls, MaxString, MaxUrl, MaxSize} \subseteq Nat
  /\ \A n \in Ports : n \in Nat /\ n <= 99999

VARIABLES
  which,                                                    (* the part *)
  request, header, def, phase, why, istate, ostate, server, (* DeflateContext *)
  pc, job,
  fields, key, deflate, negotiated, success, generated,     (* Handshake *)
  wire, response, honest, result,
  align, addr, len, data, i, calls,                         (* MaskKey *)
  s,                                                        (* Utf8 *)
  url, parsed, again,                                       (* Url *)
  obj, heap, shadow,                                        (* MessageBuffer *)
  digest, buffer, transforms, is, message, hashed           (* Sha1 *)

notContext == <<fields, key, deflate, negotiated, success, generated, wire, response,
                honest, result, align, addr, len, data, i, calls, s, url, parsed,
                again, obj, heap, shadow, digest, buffer, transforms, is, message,
                hashed>>
notShake == <<request, header, def, phase, why, istate, ostate, server, job, align,
              addr, len, data, i, calls, s, url, parsed, again, obj, heap, shadow,
              digest, buffer, transforms, is, message, hashed>>
notMask == <<request, header, def, phase, why, istate, ostate, server, job, fields,
             key, deflate, negotiated, success, generated, wire, response, honest,
             result, s, url, parsed, again, obj, heap, shadow, digest, buffer,
             transforms, is, message, hashed>>
notUtf == <<request, header, def, phase, why, istate, ostate, server, pc, job,
            fields, key, deflate, negotiated, success, generated, wire, response,
            honest, align, addr, len, data, calls, url, parsed, again, obj, heap,
            shadow, digest, buffer, transforms, is, message, hashed>>
notAddress == <<request, header, def, phase, why, istate, ostate, server, pc, job,
                fields, key, deflate, negotiated, success, generated, wire, response,
                honest, result, align, addr, len, data, i, calls, s, obj, heap,
                shadow, digest, buffer, transforms, is, message, hashed>>
notBuf == <<request, header, def, phase, why, istate, ostate, server, pc, job,
            fields, key, deflate, negotiated, success, generated, wire, response,
            honest, result, align, addr, len, data, i, calls, s, url, parsed, again,
            digest, buffer, transforms, is, message, hashed>>
notSha == <<request, header, def, phase, why, istate, ostate, server, job, fields,
            key, deflate, negotiated, success, generated, wire, response, honest,
            align, addr, len, data, i, calls, s, url, parsed, again, obj, heap,
            shadow>>
vars == <<which, request, header, def, phase, why, istate, ostate, server, pc, job,
          fields, key, deflate, negotiated, success, generated, wire, response,
          honest, result, align, addr, len, data, i, calls, s, url, parsed, again,
          obj, heap, shadow, digest, buffer, transforms, is, message, hashed>>

DeflateOffers == INSTANCE PermessageDeflate WITH Bits <- DeflateBits
ShakeOffers == INSTANCE PermessageDeflate WITH Bits <- ShakeBits
Context == INSTANCE DeflateContext WITH Bits <- DeflateBits, Requests <- DeflateOffers!Defs,
                                        FinalBlocks <- FALSE, EmptyMessages <- FALSE
Shake == INSTANCE Handshake WITH Bits <- ShakeBits, Requests <- ShakeOffers!Defs
Mask == INSTANCE MaskKey
Utf == INSTANCE Utf8 WITH MaxSize <- MaxString
Address == INSTANCE Url
Buf == INSTANCE MessageBuffer
Sha == INSTANCE Sha1 WITH Values <- HashValues

Absent == "-"

InitContext ==
  /\ which = "context" /\ Context!Init
  /\ fields = Absent /\ key = Absent /\ deflate = Absent /\ negotiated = Absent /\ success = Absent
  /\ generated = Absent /\ wire = Absent /\ response = Absent /\ honest = Absent /\ result = Absent
  /\ align = Absent /\ addr = Absent /\ len = Absent /\ data = Absent /\ i = Absent
  /\ calls = Absent /\ s = Absent /\ url = Absent /\ parsed = Absent /\ again = Absent
  /\ obj = Absent /\ heap = Absent /\ shadow = Absent /\ digest = Absent /\ buffer = Absent
  /\ transforms = Absent /\ is = Absent /\ message = Absent /\ hashed = Absent

InitShake ==
  /\ which = "handshake" /\ Shake!Init
  /\ request = Absent /\ header = Absent /\ def = Absent /\ phase = Absent /\ why = Absent
  /\ istate = Absent /\ ostate = Absent /\ server = Absent /\ job = Absent /\ align = Absent
  /\ addr = Absent /\ len = Absent /\ data = Absent /\ i = Absent /\ calls = Absent
  /\ s = Absent /\ url = Absent /\ parsed = Absent /\ again = Absent /\ obj = Absent
  /\ heap = Absent /\ shadow = Absent /\ digest = Absent /\ buffer = Absent /\ transforms = Absent
  /\ is = Absent /\ message = Absent /\ hashed = Absent

InitMask ==
  /\ which = "mask" /\ Mask!Init
  /\ request = Absent /\ header = Absent /\ def = Absent /\ phase = Absent /\ why = Absent
  /\ istate = Absent /\ ostate = Absent /\ server = Absent /\ job = Absent /\ fields = Absent
  /\ key = Absent /\ deflate = Absent /\ negotiated = Absent /\ success = Absent /\ generated = Absent
  /\ wire = Absent /\ response = Absent /\ honest = Absent /\ result = Absent /\ s = Absent
  /\ url = Absent /\ parsed = Absent /\ again = Absent /\ obj = Absent /\ heap = Absent
  /\ shadow = Absent /\ digest = Absent /\ buffer = Absent /\ transforms = Absent /\ is = Absent
  /\ message = Absent /\ hashed = Absent

InitUtf ==
  /\ which = "utf8" /\ Utf!Init
  /\ request = Absent /\ header = Absent /\ def = Absent /\ phase = Absent /\ why = Absent
  /\ istate = Absent /\ ostate = Absent /\ server = Absent /\ pc = Absent /\ job = Absent
  /\ fields = Absent /\ key = Absent /\ deflate = Absent /\ negotiated = Absent /\ success = Absent
  /\ generated = Absent /\ wire = Absent /\ response = Absent /\ honest = Absent /\ align = Absent
  /\ addr = Absent /\ len = Absent /\ data = Absent /\ calls = Absent /\ url = Absent
  /\ parsed = Absent /\ again = Absent /\ obj = Absent /\ heap = Absent /\ shadow = Absent
  /\ digest = Absent /\ buffer = Absent /\ transforms = Absent /\ is = Absent /\ message = Absent
  /\ hashed = Absent

InitAddress ==
  /\ which = "url" /\ Address!Init
  /\ request = Absent /\ header = Absent /\ def = Absent /\ phase = Absent /\ why = Absent
  /\ istate = Absent /\ ostate = Absent /\ server = Absent /\ pc = Absent /\ job = Absent
  /\ fields = Absent /\ key = Absent /\ deflate = Absent /\ negotiated = Absent /\ success = Absent
  /\ generated = Absent /\ wire = Absent /\ response = Absent /\ honest = Absent /\ result = Absent
  /\ align = Absent /\ addr = Absent /\ len = Absent /\ data = Absent /\ i = Absent
  /\ calls = Absent /\ s = Absent /\ obj = Absent /\ heap = Absent /\ shadow = Absent
  /\ digest = Absent /\ buffer = Absent /\ transforms = Absent /\ is = Absent /\ message = Absent
  /\ hashed = Absent

InitBuf ==
  /\ which = "buffer" /\ Buf!Init
  /\ request = Absent /\ header = Absent /\ def = Absent /\ phase = Absent /\ why = Absent
  /\ istate = Absent /\ ostate = Absent /\ server = Absent /\ pc = Absent /\ job = Absent
  /\ fields = Absent /\ key = Absent /\ deflate = Absent /\ negotiated = Absent /\ success = Absent
  /\ generated = Absent /\ wire = Absent /\ response = Absent /\ honest = Absent /\ result = Absent
  /\ align = Absent /\ addr = Absent /\ len = Absent /\ data = Absent /\ i = Absent
  /\ calls = Absent /\ s = Absent /\ url = Absent /\ parsed = Absent /\ again = Absent
  /\ digest = Absent /\ buffer = Absent /\ transforms = Absent /\ is = Absent /\ message = Absent
  /\ hashed = Absent

InitSha ==
  /\ which = "sha1" /\ Sha!Init
  /\ request = Absent /\ header = Absent /\ def = Absent /\ phase = Absent /\ why = Absent
  /\ istate = Absent /\ ostate = Absent /\ server = Absent /\ job = Absent /\ fields = Absent
  /\ key = Absent /\ deflate = Absent /\ negotiated = Absent /\ success = Absent /\ generated = Absent
  /\ wire = Absent /\ response = Absent /\ honest = Absent /\ align = Absent /\ addr = Absent
  /\ len = Absent /\ data = Absent /\ i = Absent /\ calls = Absent /\ s = Absent
  /\ url = Absent /\ parsed = Absent /\ again = Absent /\ obj = Absent /\ heap = Absent
  /\ shadow = Absent

Init == InitContext \/ InitShake \/ InitMask \/ InitUtf \/ InitAddress \/ InitBuf \/ InitSha

AsContext == which = "context" /\ UNCHANGED <<which, notContext>>
AsShake == which = "handshake" /\ UNCHANGED <<which, notShake>>
AsMask == which = "mask" /\ UNCHANGED <<which, notMask>>
AsUtf == which = "utf8" /\ UNCHANGED <<which, notUtf>>
AsAddress == which = "url" /\ UNCHANGED <<which, notAddress>>
AsBuf == which = "buffer" /\ UNCHANGED <<which, notBuf>>
AsSha == which = "sha1" /\ UNCHANGED <<which, notSha>>

Next ==
  \/ AsContext /\ Context!Next
  \/ AsShake /\ Shake!Next
  \/ AsMask /\ Mask!Next
  \/ AsUtf /\ Utf!Next
  \/ AsAddress /\ Address!Next
  \/ AsBuf /\ Buf!Next
  \/ AsSha /\ Sha!Next

Spec == Init /\ [][Next]_vars

(* the interchangeable values of MessageBuffer; no other part has them *)
Symmetry == Buf!Symmetry

-----------------------------------------------------------------------------

(* permessage-deflate: whatever response was accepted, inflate never rejects a
   message that the server has compressed as it announced, and the server gets
   each of our messages whole and can inflate it with the window and history its
   response told us to use, which is not what the comment's table says of an
   unrequested client_no_context_takeover (UnrequestedTakeoverIsAllowed). *)
StreamsFit == which = "context" => Context!ServerMessagesInflate /\ Context!OurMessagesInflate

(* decompress() returns all bytes of the message and no others, over all rounds
   of enlarging the output buffer. *)
InflatedWhole == which = "context" => Context!InflatedWhole

(* Handshake: a response is accepted only when it was made for the request just
   sent, not for an earlier one of this object, and the client then compresses
   exactly when this response says so of an extension that was offered. *)
AcceptedIsOurs == which = "handshake" => Shake!AcceptedIsOurs /\ Shake!CompressionAsAgreed

(* Handshake: every request has exactly one field of each kind, also of an object
   that is used again or in which the user has set fields; at its first use, a
   server that answers within the offer it got is not refused. *)
ProperIsAcceptedAtFirst == which = "handshake" => Shake!RequestWellFormed /\ Shake!ProperIsAcceptedAtFirst

(* mask(): byte n of a payload at a multiple of four carries key byte n modulo 4,
   whichever of the three loops reaches it.  At every address and length the
   chunks are aligned, as their instructions require, and nothing outside of the
   payload is written. *)
MaskingIsRight ==
  which = "mask" =>
    /\ addr % 4 = 0 => Mask!MaskedWithKey
    /\ Mask!ChunksAreAligned /\ Mask!OnlyThePayload

(* is_valid_utf8(): the verdict is that of the definition of UTF-8. *)
VerdictIsRight == which = "utf8" => Utf!VerdictIsRight

(* URL: parse divides, or refuses, as RFC 3986 does a URL whose authority has no
   userinfo and no stray brackets, and what to_string makes of a result is parsed
   to the same result. *)
UrlIsSplit == which = "url" => Address!UrlIsSplit

(* Buffer: every block has one owner and every pointer an allocated block that is
   as large as the object believes, and what a caller has written stays in place
   until it is cut off, through moves, resets and failed reallocations. *)
BufferIsSound ==
  which = "buffer" => Buf!BlocksAreOwned /\ Buf!CapacityIsReal /\ Buf!ContentKept

(* SHA1: final_bytes() hashes the blocks the standard prescribes, whatever pieces
   update() got, at every length around the boundary of a block, again with an
   object that was used before. *)
DigestIsStandard == which = "sha1" => Sha!DigestIsStandard
=============================================================================
