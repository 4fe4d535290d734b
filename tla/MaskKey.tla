------------------------------- MODULE MaskKey -------------------------------
(***************************************************************************)
(* MaskKey::mask (MaskKey.hpp): XOR a payload with the four bytes of a     *)
(* key, byte by byte up to an aligned address, then in chunks, then byte   *)
(* by byte to the end.  One action per pass of a loop.                     *)
(*                                                                         *)
(* A byte of memory is the set of key bytes XORed into it an odd number of *)
(* times, so that the payload the caller passed is {} everywhere.  data    *)
(* is indexed by the offset from the start of the payload and extends one  *)
(* chunk beyond it on both sides.                                          *)
(***************************************************************************)
EXTENDS Integers

CONSTANTS
  Aligns,     (* chunk sizes of the builds: 16 with SSE2 or NEON, 8 without *)
  Addrs,      (* addresses of the payload *)
  MaxLen,     (* bound on the length of the payload *)
  MaxCalls    (* bound on how often the payload is masked *)

KeyBytes == 4

VARIABLES
  align, addr, len,  (* the build and the payload *)
  data,              (* the memory *)
  i,                 (* the loops' index *)
  pc,                (* the loop that runs, or idle *)
  calls              (* calls of mask() so far *)

payload == <<align, addr, len>>
vars == <<payload, data, i, pc, calls>>

Init ==
  /\ align \in Aligns /\ addr \in Addrs /\ len \in 0..MaxLen
  /\ data = [o \in -align..(len + align - 1) |-> {}]
  /\ i = 0 /\ pc = "idle" /\ calls = 0

xor(b, k) == (b \cup {k}) \ (b \cap {k})

(* mask_func: the chunk at p with the key repeated over it *)
mask_func(p) ==
  [o \in DOMAIN data |-> IF o \in p..(p + align - 1)
                         THEN xor(data[o], (o - p) % KeyBytes) ELSE data[o]]

(* bytes up to the next aligned address, or up to the end *)
unalignedMutant == LET u == addr % align IN IF u > len THEN len ELSE u
unaligned ==
  LET past == addr % align
      u == IF past # 0 THEN align - past ELSE 0
  IN  IF u > len THEN len ELSE u

(* data[i] ^= key_bytes[i & 3] *)
NaiveByte == data' = [data EXCEPT ![i] = xor(@, i % KeyBytes)]

mask ==
  /\ pc = "idle" /\ calls < MaxCalls
  /\ calls' = calls + 1 /\ i' = 0 /\ pc' = "lead"
  /\ UNCHANGED <<payload, data>>

Leading ==
  /\ pc = "lead"
  /\ \/ i < unaligned /\ NaiveByte /\ i' = i + 1 /\ pc' = pc
     \/ i >= unaligned /\ pc' = "chunks" /\ UNCHANGED <<data, i>>
  /\ UNCHANGED <<payload, calls>>

ChunksMutant ==
  /\ pc = "chunks"
  /\ \/ i + align - 1 <= len /\ data' = mask_func(i) /\ i' = i + align /\ pc' = pc
     \/ i + align - 1 > len /\ pc' = "trail" /\ UNCHANGED <<data, i>>
  /\ UNCHANGED <<payload, calls>>
Chunks ==
  /\ pc = "chunks"
  /\ \/ i + align <= len /\ data' = mask_func(i) /\ i' = i + align /\ pc' = pc
     \/ i + align > len /\ pc' = "trail" /\ UNCHANGED <<data, i>>
  /\ UNCHANGED <<payload, calls>>

TrailingMutant ==
  /\ pc = "trail"
  /\ \/ i < len - 1 /\ NaiveByte /\ i' = i + 1 /\ pc' = pc
     \/ i >= len - 1 /\ pc' = "idle" /\ UNCHANGED <<data, i>>
  /\ UNCHANGED <<payload, calls>>
Trailing ==
  /\ pc = "trail"
  /\ \/ i < len /\ NaiveByte /\ i' = i + 1 /\ pc' = pc
     \/ i >= len /\ pc' = "idle" /\ UNCHANGED <<data, i>>
  /\ UNCHANGED <<payload, calls>>

Done == pc = "idle" /\ calls = MaxCalls /\ UNCHANGED vars

Next == mask \/ Leading \/ Chunks \/ Trailing \/ Done
Spec == Init /\ [][Next]_vars

-----------------------------------------------------------------------------
Offsets == 0..(len - 1)

(* Byte n of a masked payload carries key byte n modulo 4, as the server that
   unmasks it expects, and nothing else (mask_aligned, whatever mixture of
   its three loops reaches the byte). *)
MaskedWithKey ==
  (pc = "idle" /\ calls % 2 = 1) => \A o \in Offsets : data[o] = {o % KeyBytes}

(* The chunks, which are loaded by instructions that require it, lie at
   aligned addresses (mask_func in mask_aligned). *)
ChunksAreAligned ==
  (pc = "chunks" /\ i + align <= len) => (addr + i) % align = 0

(* No loop writes outside of the payload, although mask_func always writes a
   whole chunk. *)
OnlyThePayload ==
  \A o \in DOMAIN data \ Offsets : data[o] = {}
=============================================================================
