----------------------------- MODULE CodecsProofs -----------------------------
(***************************************************************************)
(* Theorems about the parts of Codecs, for every build, address, length,   *)
(* size and content.  The parts share no state: each has an invariant of   *)
(* its own, which holds while that part is the one that runs.              *)
(***************************************************************************)
EXTENDS Codecs, WellFoundedInduction, TLAPS

-----------------------------------------------------------------------------
(* Remainders. *)

LEMMA ModOfMultiple ==
  ASSUME NEW d \in Nat \ {0}, NEW q \in Int
  PROVE  (d * q) % d = 0
BY Z3

LEMMA DivMod ==
  ASSUME NEW d \in Nat \ {0}, NEW a \in Nat
  PROVE  \E q \in Int : a = d * q + (a % d) /\ (a % d) \in 0..(d - 1)
<1> DEFINE q == a \div d
<1>1. a = d * q + (a % d) /\ q \in Int /\ (a % d) \in 0..(d - 1)
  BY Z3
<1> QED
  BY <1>1

LEMMA ModAdd ==
  ASSUME NEW d \in Nat \ {0}, NEW a \in Nat, a % d = 0
  PROVE  (a + d) % d = 0
<1>1. PICK q \in Int : a = d * q
  <2>1. PICK q \in Int : a = d * q + 0
    BY DivMod
  <2> QED
    BY <2>1
<1>2. a + d = d * (q + 1) /\ q + 1 \in Int
  BY <1>1
<1>3. (d * (q + 1)) % d = 0
  BY <1>2, ModOfMultiple
<1> QED
  BY <1>2, <1>3

LEMMA NextMultiple ==
  ASSUME NEW d \in Nat \ {0}, NEW a \in Nat
  PROVE  /\ a % d \in 0..(d - 1)
         /\ (a + (d - (a % d))) % d = 0
<1> DEFINE r == a % d
<1>1. PICK q \in Int : a = d * q + r /\ r \in 0..(d - 1)
  BY DivMod
<1> HIDE DEF r
<1>2. a + (d - r) = d * (q + 1) /\ q + 1 \in Int
  BY <1>1
<1>3. (d * (q + 1)) % d = 0
  BY <1>2, ModOfMultiple
<1> QED
  BY <1>1, <1>2, <1>3 DEF r

(* A multiple of a chunk is a multiple of the four bytes of the key. *)
LEMMA ModFour ==
  ASSUME NEW d \in Nat \ {0}, d % 4 = 0, NEW a \in Nat, a % 4 = 0
  PROVE  (a % d) % 4 = 0
<1>1. PICK m \in Int : d = 4 * m
  <2>1. d = 4 * (d \div 4) /\ d \div 4 \in Int
    OBVIOUS
  <2> QED
    BY <2>1
<1>2. PICK q \in Int : a = d * q + (a % d) /\ (a % d) \in 0..(d - 1)
  BY DivMod
<1>3. d * q = 4 * (m * q) /\ m * q \in Int
  BY <1>1, <1>2
<1> DEFINE z == m * q
<1>4. z \in Int /\ a = 4 * z + (a % d)
  BY <1>2, <1>3
<1> HIDE DEF z
<1> QED
  BY <1>2, <1>4, Z3

-----------------------------------------------------------------------------
(* Masking *)

MaskTyped ==
  /\ align \in Nat \ {0} /\ align % 4 = 0
  /\ addr \in Nat /\ len \in Nat /\ i \in Nat /\ calls \in Nat
  /\ pc \in {"idle", "lead", "chunks", "trail"}
  /\ data = [o \in -align..(len + align - 1) |-> data[o]]

(* Where the index of a loop is a place at which a chunk may begin: at an
   aligned address, and with the key at its first byte if the payload begins
   at a multiple of four. *)
Aligned(n) == (addr + n) % align = 0 /\ (addr % 4 = 0 => n % 4 = 0)

MaskIndex ==
  /\ pc = "lead" => i <= Mask!unaligned
  /\ pc = "chunks" => i <= len /\ (i = len \/ Aligned(i))
  /\ pc = "trail" => i <= len

(* What the bytes carry: those below the index have been masked once more than
   those above it, an odd number of times or an even one. *)
Carried(o) == IF calls % 2 = 1 <=> (pc = "idle" \/ o < i) THEN {o % 4} ELSE {}

MaskKeyed == addr % 4 = 0 => \A o \in Mask!Offsets : data[o] = Carried(o)

MaskInv == MaskTyped /\ MaskIndex /\ MaskKeyed /\ Mask!OnlyThePayload

(* The bytes before the first chunk. *)
LEMMA LeadType ==
  ASSUME MaskTyped
  PROVE  /\ Mask!unaligned \in 0..len
         /\ Mask!unaligned = len \/ Aligned(Mask!unaligned)
<1>0. align \in Nat \ {0} /\ align % 4 = 0 /\ addr \in Nat /\ len \in Nat
  BY DEF MaskTyped
<1> DEFINE r == addr % align
           u == IF r # 0 THEN align - r ELSE 0
<1>1. /\ r \in 0..(align - 1)
      /\ (addr + (align - r)) % align = 0
  BY <1>0, NextMultiple
<1>2. addr % 4 = 0 => r % 4 = 0
  BY <1>0, ModFour
<1>3. u \in Nat /\ (addr + u) % align = 0
  <2> HIDE DEF r
  <2>1. CASE r # 0
    BY <1>0, <1>1, <2>1
  <2>2. CASE r = 0
    BY <1>0, <2>2 DEF r
  <2> QED
    BY <2>1, <2>2
<1>4. addr % 4 = 0 => u % 4 = 0
  <2> HIDE DEF r
  <2>1. CASE r # 0
    <3>1. u = align - r
      BY <2>1
    <3> HIDE DEF u
    <3> QED
      BY <1>0, <1>1, <1>2, <3>1
  <2>2. CASE r = 0
    BY <2>2
  <2> QED
    BY <2>1, <2>2
<1>5. Mask!unaligned = IF u > len THEN len ELSE u
  BY DEF Mask!unaligned
<1> HIDE DEF u, r
<1> QED
  BY <1>0, <1>3, <1>4, <1>5 DEF Aligned

LEMMA XorOnce ==
  ASSUME NEW k
  PROVE  Mask!xor({}, k) = {k} /\ Mask!xor({k}, k) = {}
BY DEF Mask!xor

(* A step that masks the bytes from i up to j, byte o with byte k[o] of the
   key, and no others. *)
LEMMA MaskRange ==
  ASSUME MaskInv, NEW k, NEW j \in Nat, i <= j, j <= len,
         i' = j, UNCHANGED <<align, addr, len, calls>>,
         pc # "idle", pc' \in {"lead", "chunks", "trail"},
         data' = [o \in DOMAIN data |->
                    IF o \in i..(j - 1) THEN Mask!xor(data[o], k[o]) ELSE data[o]],
         addr % 4 = 0 => \A o \in i..(j - 1) : k[o] = o % 4
  PROVE  MaskTyped' /\ MaskKeyed' /\ Mask!OnlyThePayload'
<1> USE DEF MaskInv, MaskTyped
<1>1. DOMAIN data = -align..(len + align - 1)
  OBVIOUS
<1>2. MaskTyped'
  BY <1>1
<1>3. Mask!OnlyThePayload'
  BY <1>1 DEF Mask!OnlyThePayload, Mask!Offsets
<1>4. ASSUME addr % 4 = 0, NEW o \in Mask!Offsets
      PROVE  data'[o] = Carried(o)'
  <2>1. /\ o \in 0..(len - 1) /\ o \in DOMAIN data
        /\ data[o] = IF calls % 2 = 1 <=> o < i THEN {o % 4} ELSE {}
    <3>1. o \in 0..(len - 1) /\ data[o] = Carried(o)
      BY <1>4 DEF MaskKeyed, Mask!Offsets
    <3>2. o \in DOMAIN data
      BY <1>1, <3>1, SMTT(40)
    <3> QED
      BY <3>1, <3>2 DEF Carried
  <2>2. Carried(o)' = IF calls % 2 = 1 <=> o < j THEN {o % 4} ELSE {}
    BY DEF Carried
  <2>3. CASE o \in i..(j - 1)
    <3>1. data'[o] = Mask!xor(data[o], o % 4)
      BY <1>4, <2>1, <2>3
    <3>2. o < j /\ ~(o < i)
      BY <2>1, <2>3, SMTT(40)
    <3> QED
      BY <2>1, <2>2, <3>1, <3>2, XorOnce
  <2>4. CASE o \notin i..(j - 1)
    <3>1. data'[o] = data[o] /\ (o < j <=> o < i)
      BY <2>1, <2>4, SMTT(40)
    <3> QED
      BY <2>1, <2>2, <3>1
  <2> QED
    BY <2>3, <2>4
<1>5. MaskKeyed'
  BY <1>4 DEF MaskKeyed, Mask!Offsets
<1> QED
  BY <1>2, <1>3, <1>5

LEMMA MaskStep ==
  ASSUME MaskInv, [Mask!Next]_(Mask!vars)
  PROVE  MaskInv'
<1> USE DEF MaskTyped
<1>1. MaskTyped /\ MaskIndex
  BY DEF MaskInv
<1>2. CASE Mask!mask
  <2>1. /\ UNCHANGED <<align, addr, len, data>>
        /\ calls' = calls + 1 /\ i' = 0 /\ pc = "idle" /\ pc' = "lead"
    BY <1>2 DEF Mask!mask, Mask!payload
  <2>2. MaskTyped'
    BY <1>1, <2>1
  <2>3. Mask!OnlyThePayload'
    BY <2>1 DEF MaskInv, Mask!OnlyThePayload, Mask!Offsets
  <2>4. MaskIndex'
    <3>1. Mask!unaligned \in 0..len /\ Mask!unaligned' = Mask!unaligned
      BY <1>1, <2>1, LeadType DEF Mask!unaligned
    <3> QED
      BY <2>1, <3>1 DEF MaskIndex
  <2>5. MaskKeyed'
    <3> SUFFICES ASSUME addr % 4 = 0, NEW o \in Mask!Offsets
                 PROVE  data[o] = Carried(o)'
      BY <2>1 DEF MaskKeyed, Mask!Offsets
    <3>0. MaskKeyed
      BY DEF MaskInv
    <3>1. o \in Nat /\ data[o] = Carried(o)
      <4>1. data[o] = Carried(o)
        <5> HIDE DEF MaskTyped
        <5> QED
          BY <3>0 DEF MaskKeyed
      <4>2. o \in Nat
        BY <1>1 DEF Mask!Offsets
      <4> QED
        BY <4>1, <4>2
    <3>2. calls' % 2 = 1 <=> ~(calls % 2 = 1)
      <4>1. calls \in Nat
        BY <1>1
      <4> QED
        BY ONLY <2>1, <4>1
    <3>3. Carried(o) = IF calls % 2 = 1 THEN {o % 4} ELSE {}
      BY <2>1 DEF Carried
    <3>4. Carried(o)' = IF calls' % 2 = 1 THEN {} ELSE {o % 4}
      <4>1. ~(pc' = "idle" \/ o < i')
        BY <2>1, <3>1
      <4> QED
        BY <4>1 DEF Carried
    <3> QED
      BY <3>1, <3>2, <3>3, <3>4
  <2> QED
    BY <2>2, <2>3, <2>4, <2>5 DEF MaskInv
<1>3. ASSUME Mask!NaiveByte, i < len, i' = i + 1, pc \in {"lead", "trail"}, pc' = pc,
             UNCHANGED <<align, addr, len, calls>>
      PROVE  MaskTyped' /\ MaskKeyed' /\ Mask!OnlyThePayload'
  <2> DEFINE k == [o \in Int |-> o % 4]
  <2>1. i + 1 \in Nat /\ i <= i + 1 /\ i + 1 <= len
    BY <1>1, <1>3
  <2>2. data' = [o \in DOMAIN data |->
                   IF o \in i..((i + 1) - 1) THEN Mask!xor(data[o], k[o]) ELSE data[o]]
    <3>1. \A o \in DOMAIN data : o \in i..((i + 1) - 1) <=> o = i
      BY <1>1
    <3>2. data' = [o \in DOMAIN data |-> IF o = i THEN Mask!xor(data[i], i % 4) ELSE data[o]]
      BY <1>3 DEF Mask!NaiveByte, Mask!KeyBytes
    <3>3. k[i] = i % 4
      BY <1>1
    <3> QED
      BY <3>1, <3>2, <3>3
  <2>3. \A o \in i..((i + 1) - 1) : k[o] = o % 4
    BY <1>1
  <2> HIDE DEF k
  <2> QED
    BY <1>3, <2>1, <2>2, <2>3, MaskRange
<1>4. CASE Mask!Leading
  <2>1. /\ pc = "lead" /\ i <= Mask!unaligned /\ Mask!unaligned \in 0..len
        /\ Mask!unaligned = len \/ Aligned(Mask!unaligned)
        /\ UNCHANGED <<align, addr, len, calls>>
    BY <1>1, <1>4, LeadType DEF Mask!Leading, MaskIndex, Mask!payload
  <2>2. CASE i < Mask!unaligned /\ Mask!NaiveByte /\ i' = i + 1 /\ pc' = pc
    <3>1. i < len
      BY <1>1, <2>1, <2>2
    <3>2. MaskTyped' /\ MaskKeyed' /\ Mask!OnlyThePayload'
      BY <1>3, <2>1, <2>2, <3>1
    <3>3. Mask!unaligned' = Mask!unaligned
      BY <2>1 DEF Mask!unaligned
    <3>4. MaskIndex'
      BY <1>1, <2>1, <2>2, <3>3 DEF MaskIndex
    <3> QED
      BY <3>2, <3>4 DEF MaskInv
  <2>3. CASE i >= Mask!unaligned /\ pc' = "chunks" /\ UNCHANGED <<data, i>>
    <3>1. i = Mask!unaligned
      BY <1>1, <2>1, <2>3
    <3>2. MaskIndex'
      BY <2>1, <2>3, <3>1 DEF MaskIndex, Aligned
    <3>3. MaskTyped' /\ Mask!OnlyThePayload'
      BY <1>1, <2>1, <2>3 DEF MaskInv, Mask!OnlyThePayload, Mask!Offsets
    <3>4. MaskKeyed'
      BY <2>1, <2>3 DEF MaskInv, MaskKeyed, Mask!Offsets, Carried
    <3> QED
      BY <3>2, <3>3, <3>4 DEF MaskInv
  <2> QED
    BY <1>4, <2>2, <2>3 DEF Mask!Leading
<1>5. CASE Mask!Chunks
  <2>1. /\ pc = "chunks" /\ i <= len /\ (i = len \/ Aligned(i))
        /\ UNCHANGED <<align, addr, len, calls>>
    BY <1>1, <1>5 DEF Mask!Chunks, MaskIndex, Mask!payload
  <2>2. CASE i + align <= len /\ data' = Mask!mask_func(i) /\ i' = i + align /\ pc' = pc
    <3> DEFINE k == [o \in Int |-> (o - i) % 4]
    <3>1. Aligned(i)
      BY <1>1, <2>1, <2>2
    <3>2. i + align \in Nat /\ i <= i + align
      BY <1>1
    <3>3. data' = [o \in DOMAIN data |->
                     IF o \in i..((i + align) - 1) THEN Mask!xor(data[o], k[o]) ELSE data[o]]
      BY <1>1, <2>2 DEF Mask!mask_func, Mask!KeyBytes
    <3>4. ASSUME addr % 4 = 0, NEW o \in i..((i + align) - 1)
          PROVE  k[o] = o % 4
      <4>1. i % 4 = 0 /\ i \in Nat /\ o \in Nat
        BY <1>1, <3>1, <3>4 DEF Aligned
      <4>2. (o - i) % 4 = o % 4
        <5>1. PICK q \in Int : i = 4 * q
          <6>1. i = 4 * (i \div 4) /\ i \div 4 \in Int
            BY <4>1
          <6> QED
            BY <6>1
        <5> QED
          BY <4>1, <5>1
      <4>3. k[o] = (o - i) % 4
        BY <4>1
      <4> QED
        BY <4>2, <4>3
    <3> HIDE DEF k
    <3>5. MaskTyped' /\ MaskKeyed' /\ Mask!OnlyThePayload'
      BY <2>1, <2>2, <3>2, <3>3, <3>4, MaskRange
    <3>6. Aligned(i + align)
      <4>1. ((addr + i) + align) % align = 0
        <5>1. align \in Nat \ {0} /\ addr + i \in Nat /\ (addr + i) % align = 0
          BY <1>1, <3>1 DEF Aligned
        <5> HIDE DEF MaskTyped
        <5> QED
          BY <5>1, ModAdd
      <4>2. (addr + i) + align = addr + (i + align)
        BY <1>1
      <4>3. i % 4 = 0 => (i + align) % 4 = 0
        BY <1>1
      <4> QED
        BY <3>1, <4>1, <4>2, <4>3 DEF Aligned
    <3>7. MaskIndex'
      BY <2>1, <2>2, <3>6 DEF MaskIndex, Aligned
    <3> QED
      BY <3>5, <3>7 DEF MaskInv
  <2>3. CASE pc' = "trail" /\ UNCHANGED <<data, i>>
    <3>1. MaskTyped' /\ MaskIndex' /\ Mask!OnlyThePayload'
      BY <1>1, <2>1, <2>3 DEF MaskInv, MaskIndex, Mask!OnlyThePayload, Mask!Offsets
    <3>2. MaskKeyed'
      BY <2>1, <2>3 DEF MaskInv, MaskKeyed, Mask!Offsets, Carried
    <3> QED
      BY <3>1, <3>2 DEF MaskInv
  <2> QED
    BY <1>5, <2>2, <2>3 DEF Mask!Chunks
<1>6. CASE Mask!Trailing
  <2>1. pc = "trail" /\ i <= len /\ UNCHANGED <<align, addr, len, calls>>
    BY <1>1, <1>6 DEF Mask!Trailing, MaskIndex, Mask!payload
  <2>2. CASE i < len /\ Mask!NaiveByte /\ i' = i + 1 /\ pc' = pc
    <3>1. MaskTyped' /\ MaskKeyed' /\ Mask!OnlyThePayload'
      BY <1>3, <2>1, <2>2
    <3>2. MaskIndex'
      BY <1>1, <2>1, <2>2 DEF MaskIndex
    <3> QED
      BY <3>1, <3>2 DEF MaskInv
  <2>3. CASE i >= len /\ pc' = "idle" /\ UNCHANGED <<data, i>>
    <3>1. MaskTyped' /\ MaskIndex' /\ Mask!OnlyThePayload'
      BY <1>1, <2>1, <2>3 DEF MaskInv, MaskIndex, Mask!OnlyThePayload, Mask!Offsets
    <3>2. \A o \in Mask!Offsets : o < i
      BY <1>1, <2>1, <2>3 DEF Mask!Offsets
    <3>3. MaskKeyed'
      BY <2>1, <2>3, <3>2 DEF MaskInv, MaskKeyed, Mask!Offsets, Carried
    <3> QED
      BY <3>1, <3>3 DEF MaskInv
  <2> QED
    BY <1>6, <2>2, <2>3 DEF Mask!Trailing
<1>7. CASE UNCHANGED Mask!vars
  <2>1. UNCHANGED <<align, addr, len, data, i, pc, calls>>
    BY <1>7 DEF Mask!vars, Mask!payload
  <2>2. MaskTyped' /\ MaskIndex'
    BY <1>1, <2>1 DEF MaskIndex, Mask!unaligned, Aligned
  <2>3. MaskKeyed' /\ Mask!OnlyThePayload'
    BY <2>1 DEF MaskInv, MaskKeyed, Mask!OnlyThePayload, Mask!Offsets, Carried
  <2> QED
    BY <2>2, <2>3 DEF MaskInv
<1> QED
  BY <1>2, <1>4, <1>5, <1>6, <1>7 DEF Mask!Next, Mask!Done

LEMMA MaskInit ==
  ASSUME Mask!Init
  PROVE  MaskInv
<1>1. MaskTyped
  <2>1. align \in Nat \ {0} /\ align % 4 = 0 /\ addr \in Nat
    BY CodecsAssumption DEF Mask!Init
  <2>2. len \in Nat /\ i \in Nat /\ calls \in Nat /\ pc = "idle"
    BY CodecsAssumption DEF Mask!Init
  <2>3. data = [o \in -align..(len + align - 1) |-> data[o]]
    BY DEF Mask!Init
  <2> QED
    BY <2>1, <2>2, <2>3 DEF MaskTyped
<1>2. MaskIndex
  BY DEF Mask!Init, MaskIndex
<1>3. \A o \in -align..(len + align - 1) : data[o] = {}
  BY DEF Mask!Init
<1>4. MaskKeyed
  <2>1. ASSUME NEW o \in Mask!Offsets
        PROVE  data[o] = Carried(o)
    <3>1. data[o] = {}
      BY <1>1, <1>3, <2>1 DEF MaskTyped, Mask!Offsets
    <3>2. ~(calls % 2 = 1) /\ pc = "idle"
      BY DEF Mask!Init
    <3> QED
      BY <3>1, <3>2 DEF Carried
  <2> QED
    BY <2>1 DEF MaskKeyed
<1>5. Mask!OnlyThePayload
  BY <1>1, <1>3 DEF MaskTyped, Mask!OnlyThePayload, Mask!Offsets
<1> QED
  BY <1>1, <1>2, <1>4, <1>5 DEF MaskInv

LEMMA MaskImplies ==
  ASSUME MaskInv
  PROVE  /\ addr % 4 = 0 => Mask!MaskedWithKey
         /\ Mask!ChunksAreAligned /\ Mask!OnlyThePayload
<1>1. MaskTyped /\ MaskIndex /\ MaskKeyed /\ Mask!OnlyThePayload
  BY DEF MaskInv
<1>2. ASSUME addr % 4 = 0, pc = "idle", calls % 2 = 1, NEW o \in Mask!Offsets
      PROVE  data[o] = {o % 4}
  <2>1. data[o] = Carried(o)
    BY <1>1, <1>2 DEF MaskKeyed
  <2> QED
    BY <1>2, <2>1 DEF Carried
<1>3. ASSUME pc = "chunks", i + align <= len
      PROVE  (addr + i) % align = 0
  <2>1. i # len
    BY <1>1, <1>3 DEF MaskTyped
  <2> QED
    BY <1>1, <1>3, <2>1 DEF MaskIndex, Aligned
<1> QED
  BY <1>1, <1>2, <1>3 DEF Mask!MaskedWithKey, Mask!ChunksAreAligned, Mask!KeyBytes

(* MaskKey::mask (MaskKey.hpp): for every build, address and length, and
   however often the payload is masked, byte n of a payload that begins at a
   multiple of four carries byte n modulo 4 of the key, the chunks of a build
   with vector instructions are aligned, and no byte outside of the payload
   is changed. *)
THEOREM CodecsMaskingIsRight == Spec => []MaskingIsRight
<1> DEFINE I == which = "mask" => MaskInv
<1>1. Init => I
  BY MaskInit DEF Init, InitContext, InitShake, InitMask, InitUtf, InitAddress, InitBuf, InitSha
<1>2. I /\ [Next]_vars => I'
  <2> SUFFICES ASSUME I, [Next]_vars, which' = "mask"
               PROVE  MaskInv'
    OBVIOUS
  <2>1. which = "mask" /\ [Mask!Next]_(Mask!vars)
    <3>1. CASE UNCHANGED vars
      BY <3>1 DEF vars, Mask!vars, Mask!payload
    <3>2. CASE Next
      BY <3>2 DEF Next, AsContext, AsShake, AsMask, AsUtf, AsAddress, AsBuf, AsSha
    <3> QED
      BY <3>1, <3>2
  <2> QED
    BY <2>1, MaskStep
<1>3. I => MaskingIsRight
  BY MaskImplies DEF MaskingIsRight
<1> QED
  BY <1>1, <1>2, <1>3, PTL DEF Spec

-----------------------------------------------------------------------------
(* The opening handshake: the fields of a header *)

(* A header with at most one field of each name. *)
OneEach(f) ==
  /\ f = [name \in Shake!Names |-> f[name]]
  /\ \A name \in Shake!Names : f[name] = <<>> \/ \E v : f[name] = <<v>>

LEMMA SetField ==
  ASSUME NEW f, OneEach(f), NEW name \in Shake!Names, NEW v
  PROVE  /\ OneEach(Shake!set(f, name, v))
         /\ Shake!set(f, name, v)[name] = <<v>>
         /\ \A m \in Shake!Names \ {name} : Shake!set(f, name, v)[m] = f[m]
<1> DEFINE g == Shake!set(f, name, v)
<1>1. g = [m \in Shake!Names |-> IF m = name THEN <<v>> ELSE f[m]]
  BY DEF OneEach, Shake!set
<1> HIDE DEF g
<1>2. g[name] = <<v>> /\ \A m \in Shake!Names \ {name} : g[m] = f[m]
  BY <1>1
<1>3. OneEach(g)
  BY <1>1, <1>2 DEF OneEach
<1> QED
  BY <1>2, <1>3 DEF g

LEMMA AddField ==
  ASSUME NEW f, OneEach(f), NEW name \in Shake!Names, NEW v
  PROVE  LET g == Shake!add_if_missing(f, name, v) IN
         /\ OneEach(g) /\ g[name] # <<>>
         /\ f[name] # <<>> => g[name] = f[name]
         /\ \A m \in Shake!Names \ {name} : g[m] = f[m]
<1> DEFINE g == Shake!add_if_missing(f, name, v)
<1>1. CASE f[name] # <<>>
  BY <1>1 DEF Shake!add_if_missing, Shake!contains_key
<1>2. CASE f[name] = <<>>
  <2>1. Append(f[name], v) = <<v>> /\ <<v>> # <<>>
    BY <1>2
  <2>2. g = Shake!set(f, name, v)
    BY <1>2, <2>1 DEF Shake!add_if_missing, Shake!contains_key, Shake!add, Shake!set, OneEach
  <2> HIDE DEF g
  <2>3. OneEach(g) /\ g[name] = <<v>> /\ \A m \in Shake!Names \ {name} : g[m] = f[m]
    BY <2>2, SetField
  <2> QED
    BY <1>2, <2>1, <2>3 DEF g
<1> QED
  BY <1>1, <1>2

Needed == {"Host", "Upgrade", "Connection", "Sec-WebSocket-Version", "Sec-WebSocket-Key"}
KEY == "Sec-WebSocket-Key"
EXT == "Sec-WebSocket-Extensions"

(* What the offer says of the extension, if the user has asked for it. *)
Offered == IF deflate.none THEN <<>>
           ELSE <<Shake!get_SecWebSocketExtensions_value(Shake!Value(deflate))>>

-----------------------------------------------------------------------------
(* The opening handshake: the invariant *)

ShakeTyped ==
  /\ OneEach(fields) /\ OneEach(wire)
  /\ generated \in Nat
  /\ pc \in {"idle", "sent", "response"} /\ result \in {"none", "ok", "error"}
  /\ deflate.none \in BOOLEAN /\ honest \in BOOLEAN /\ negotiated \in BOOLEAN

(* The request that is under way is the object's latest. *)
Requested ==
  pc # "idle" => /\ result = "none" /\ key = generated
                 /\ generated # 0 /\ wire[KEY] = <<generated>>
                 /\ \A name \in Needed : wire[name] # <<>>

(* Before the first response nothing has changed the parameters since the offer
   was made of them, and the user has not set the extension field. *)
AtFirst ==
  /\ generated = 0 => fields[EXT] = <<>>
  /\ generated = 0 => ~honest
  /\ (generated = 0 \/ (generated = 1 /\ pc # "idle")) =>
       deflate.none \/ \E d \in Shake!Defs : deflate = Shake!Some(d)
  /\ (generated = 1 /\ pc # "idle") => wire[EXT] = Offered

(* As long as the user has not asked for the extension, it is in no request. *)
NotAsked == deflate.none => ~negotiated /\ fields[EXT] = <<>> /\ (pc # "idle" => wire[EXT] = <<>>)

(* An honest response answers the request. *)
Answered ==
  (pc = "response" /\ honest) =>
    \E h \in Shake!Headers : Shake!WithinOffer(h) /\ response = Shake!Proper(h)

ShakeInv ==
  /\ ShakeTyped /\ Requested /\ AtFirst /\ NotAsked /\ Answered
  /\ Shake!AcceptedIsOurs /\ Shake!CompressionAsAgreed /\ Shake!ProperIsAcceptedAtFirst

LEMMA SomeValue ==
  ASSUME NEW d
  PROVE  /\ Shake!Some(d).none = FALSE
         /\ Shake!Value(Shake!Some(d)).server_max_window_bits = d.server_max_window_bits
         /\ Shake!Value(Shake!Some(d)).client_max_window_bits = d.client_max_window_bits
<1>1. DOMAIN Shake!NoDeflate =
        {"server_max_window_bits", "client_max_window_bits", "server_no_context_takeover",
         "client_no_context_takeover", "none"}
  BY DEF Shake!NoDeflate
<1> QED
  BY <1>1 DEF Shake!Some, Shake!Value

LEMMA ShakeInit ==
  ASSUME Shake!Init
  PROVE  ShakeInv
<1>1. /\ \A name \in Shake!Names : Shake!NoFields[name] = <<>>
      /\ OneEach(Shake!NoFields)
  BY DEF Shake!NoFields, OneEach
<1>2. deflate.none = TRUE
  BY DEF Shake!Init, Shake!NoDeflate
<1>3. EXT \in Shake!Names
  BY DEF Shake!Names, EXT
<1>4. ShakeTyped
  BY <1>1, <1>2 DEF Shake!Init, ShakeTyped
<1>5. Requested /\ AtFirst /\ NotAsked /\ Answered
  BY <1>1, <1>2, <1>3 DEF Shake!Init, Requested, AtFirst, NotAsked, Answered
<1>6. Shake!AcceptedIsOurs /\ Shake!CompressionAsAgreed /\ Shake!ProperIsAcceptedAtFirst
  BY DEF Shake!Init, Shake!AcceptedIsOurs, Shake!CompressionAsAgreed,
         Shake!ProperIsAcceptedAtFirst
<1> QED
  BY <1>4, <1>5, <1>6 DEF ShakeInv

(* The user asks for the extension, or sets a field. *)
LEMMA ShakeIdle ==
  ASSUME ShakeInv, Shake!set_permessage_deflate \/ Shake!user_field
  PROVE  ShakeInv'
<1>1. /\ ShakeTyped /\ Requested /\ AtFirst /\ NotAsked /\ Answered
      /\ Shake!AcceptedIsOurs /\ Shake!CompressionAsAgreed /\ Shake!ProperIsAcceptedAtFirst
  BY DEF ShakeInv
<1>2. /\ pc = "idle" /\ pc' = "idle"
      /\ UNCHANGED <<key, negotiated, success, generated, wire, response, honest, result>>
  BY DEF Shake!set_permessage_deflate, Shake!user_field
<1>3. \/ /\ \E d \in Shake!Defs : deflate' = Shake!Some(d)
         /\ UNCHANGED fields
      \/ /\ generated = 0 /\ UNCHANGED deflate
         /\ OneEach(fields') /\ fields'[EXT] = fields[EXT]
  <2>1. CASE Shake!set_permessage_deflate
    <3>1. PICK d \in ShakeOffers!Defs : deflate' = Shake!Some(d)
      BY <2>1 DEF Shake!set_permessage_deflate
    <3>2. d \in Shake!Defs
      BY <3>1 DEF ShakeOffers!Defs, Shake!Defs
    <3> QED
      BY <2>1, <3>1, <3>2 DEF Shake!set_permessage_deflate
  <2>2. CASE Shake!user_field
    <3>1. /\ generated = 0 /\ UNCHANGED deflate
          /\ \/ fields' = Shake!set(fields, "Host", "user")
             \/ fields' = Shake!set(fields, "Sec-WebSocket-Key", 0)
      BY <2>2 DEF Shake!user_field
    <3>2. OneEach(fields)
      BY <1>1 DEF ShakeTyped
    <3>3. {"Host", "Sec-WebSocket-Key", EXT} \subseteq Shake!Names
      BY DEF Shake!Names, EXT
    <3>4. EXT # "Host" /\ EXT # "Sec-WebSocket-Key"
      BY DEF EXT
    <3>5. OneEach(fields') /\ fields'[EXT] = fields[EXT]
      BY <3>1, <3>2, <3>3, <3>4, SetField
    <3> QED
      BY <3>1, <3>5
  <2> QED
    BY <2>1, <2>2
<1>4. ShakeTyped'
  <2>1. (deflate.none \in BOOLEAN)'
    BY <1>1, <1>3, SomeValue DEF ShakeTyped
  <2>2. OneEach(fields')
    BY <1>1, <1>3 DEF ShakeTyped
  <2> QED
    BY <1>1, <1>2, <2>1, <2>2 DEF ShakeTyped, OneEach
<1>5. Requested' /\ Answered'
  BY <1>2 DEF Requested, Answered
<1>6. AtFirst' /\ NotAsked'
  <2>1. fields'[EXT] = fields[EXT]
    BY <1>3
  <2>2. deflate' = deflate \/ deflate'.none = FALSE
    BY <1>3, SomeValue
  <2>3. AtFirst'
    BY <1>1, <1>2, <1>3, <2>1 DEF AtFirst
  <2>4. NotAsked'
    BY <1>1, <1>2, <2>1, <2>2 DEF NotAsked
  <2> QED
    BY <2>3, <2>4
<1>7. Shake!AcceptedIsOurs' /\ Shake!CompressionAsAgreed' /\ Shake!ProperIsAcceptedAtFirst'
  BY <1>1, <1>2 DEF Shake!AcceptedIsOurs, Shake!CompressionAsAgreed,
         Shake!ProperIsAcceptedAtFirst, Shake!ResponseExtensions
<1> QED
  BY <1>4, <1>5, <1>6, <1>7 DEF ShakeInv

LEMMA ShakeRequest ==
  ASSUME ShakeInv, Shake!get_request_message
  PROVE  ShakeInv'
<1>1. /\ ShakeTyped /\ Requested /\ AtFirst /\ NotAsked /\ Answered
      /\ Shake!AcceptedIsOurs /\ Shake!CompressionAsAgreed /\ Shake!ProperIsAcceptedAtFirst
  BY DEF ShakeInv
<1>2. /\ pc = "idle" /\ pc' = "sent" /\ result' = "none"
      /\ generated \in Nat /\ generated' = generated + 1 /\ key' = generated'
      /\ wire' = fields'
      /\ UNCHANGED <<deflate, negotiated, success, response, honest>>
  BY <1>1 DEF Shake!get_request_message, ShakeTyped
<1> DEFINE f1 == Shake!add_if_missing(fields, "Host", "url")
           f2 == Shake!add_if_missing(f1, "Upgrade", {"websocket"})
           f3 == Shake!add_if_missing(f2, "Connection", {"upgrade"})
           f4 == Shake!add_if_missing(f3, "Sec-WebSocket-Version", 13)
           f5 == Shake!set(f4, KEY, key')
           f6 == IF ~deflate.none /\ ~Shake!contains_key(f5, EXT)
                 THEN Shake!set(f5, EXT, Shake!get_SecWebSocketExtensions_value(
                                           Shake!Value(deflate)))
                 ELSE f5
           f7 == Shake!add_if_missing(f6, "User-Agent", "websocketclient-cpp")
<1>3. fields' = f7
  BY DEF Shake!get_request_message, Shake!KeyField, KEY, EXT
<1>4. OneEach(fields) /\ deflate.none \in BOOLEAN
  BY <1>1 DEF ShakeTyped
<1>5. /\ {"Host", "Upgrade", "Connection", "Sec-WebSocket-Version", KEY, EXT, "User-Agent"}
           \subseteq Shake!Names
      /\ KEY = "Sec-WebSocket-Key" /\ EXT = "Sec-WebSocket-Extensions"
  BY DEF Shake!Names, KEY, EXT
<1> HIDE DEF f7
<1>f1. /\ OneEach(f1) /\ f1["Host"] # <<>> /\ f1[EXT] = fields[EXT]
  BY <1>4, <1>5, AddField
<1> HIDE DEF f1
<1>f2. /\ OneEach(f2) /\ f2["Host"] # <<>> /\ f2["Upgrade"] # <<>>
       /\ f2[EXT] = fields[EXT]
  BY <1>f1, <1>5, AddField
<1> HIDE DEF f2
<1>f3. /\ OneEach(f3) /\ f3["Host"] # <<>> /\ f3["Upgrade"] # <<>> /\ f3["Connection"] # <<>>
       /\ f3[EXT] = fields[EXT]
  BY <1>f2, <1>5, AddField
<1> HIDE DEF f3
<1>f4. /\ OneEach(f4) /\ f4["Host"] # <<>> /\ f4["Upgrade"] # <<>> /\ f4["Connection"] # <<>>
       /\ f4["Sec-WebSocket-Version"] # <<>> /\ f4[EXT] = fields[EXT]
  BY <1>f3, <1>5, AddField
<1> HIDE DEF f4
<1>f5. /\ OneEach(f5) /\ f5["Host"] # <<>> /\ f5["Upgrade"] # <<>> /\ f5["Connection"] # <<>>
       /\ f5["Sec-WebSocket-Version"] # <<>> /\ f5[KEY] = <<key'>> /\ f5[EXT] = fields[EXT]
  BY <1>f4, <1>5, SetField
<1> HIDE DEF f5
<1>f6. /\ OneEach(f6) /\ f6["Host"] # <<>> /\ f6["Upgrade"] # <<>> /\ f6["Connection"] # <<>>
       /\ f6["Sec-WebSocket-Version"] # <<>> /\ f6[KEY] = <<key'>>
       /\ deflate.none => f6[EXT] = fields[EXT]
       /\ fields[EXT] = <<>> => f6[EXT] = Offered
  <2>1. CASE ~deflate.none /\ ~Shake!contains_key(f5, EXT)
    BY <1>4, <1>f5, <1>5, <2>1, SetField DEF Shake!contains_key, Offered
  <2>2. CASE ~(~deflate.none /\ ~Shake!contains_key(f5, EXT))
    BY <1>4, <1>f5, <2>2 DEF Shake!contains_key, Offered
  <2> QED
    BY <2>1, <2>2
<1> HIDE DEF f6
<1>f7. /\ OneEach(f7) /\ f7["Host"] # <<>> /\ f7["Upgrade"] # <<>> /\ f7["Connection"] # <<>>
       /\ f7["Sec-WebSocket-Version"] # <<>> /\ f7[KEY] = <<key'>>
       /\ deflate.none => f7[EXT] = fields[EXT]
       /\ fields[EXT] = <<>> => f7[EXT] = Offered
  BY <1>f6, <1>5, AddField DEF f7
<1>6. ShakeTyped'
  <2>1. OneEach(fields') /\ OneEach(wire')
    BY <1>2, <1>3, <1>f7
  <2> QED
    BY <1>1, <1>2, <2>1 DEF ShakeTyped, OneEach
<1>7. Requested'
  <2>1. \A name \in Needed : f7[name] # <<>>
    BY <1>f7, <1>5 DEF Needed
  <2> QED
    BY <1>2, <1>3, <1>f7, <2>1 DEF Requested
<1>8. AtFirst'
  <2>1. generated' # 0 /\ (generated' = 1 => generated = 0)
    BY <1>2
  <2>2. Offered' = Offered
    BY <1>2 DEF Offered
  <2>3. generated = 0 => wire'[EXT] = Offered
    BY <1>1, <1>2, <1>3, <1>f7 DEF AtFirst
  <2> QED
    BY <1>1, <1>2, <2>1, <2>2, <2>3 DEF AtFirst
<1>9. NotAsked'
  BY <1>1, <1>2, <1>3, <1>f7 DEF NotAsked
<1>10. Answered'
  BY <1>2 DEF Answered
<1>11. Shake!AcceptedIsOurs' /\ Shake!CompressionAsAgreed' /\ Shake!ProperIsAcceptedAtFirst'
  BY <1>2 DEF Shake!AcceptedIsOurs, Shake!CompressionAsAgreed, Shake!ProperIsAcceptedAtFirst
<1> QED
  BY <1>6, <1>7, <1>8, <1>9, <1>10, <1>11 DEF ShakeInv

LEMMA ShakeServer ==
  ASSUME ShakeInv, Shake!Server
  PROVE  ShakeInv'
<1>1. /\ ShakeTyped /\ Requested /\ AtFirst /\ NotAsked
  BY DEF ShakeInv
<1>2. /\ pc = "sent" /\ pc' = "response"
      /\ UNCHANGED <<fields, key, deflate, negotiated, success, generated, wire, result>>
      /\ \/ \E h \in {g \in Shake!ShortHeaders : Shake!WithinOffer(g)} :
              response' = Shake!Proper(h) /\ honest' = TRUE
         \/ honest' = FALSE
  BY DEF Shake!Server
<1>3. honest' \in BOOLEAN
  BY <1>2
<1>4. ShakeTyped'
  BY <1>1, <1>2, <1>3 DEF ShakeTyped, OneEach
<1>5. Requested'
  BY <1>1, <1>2 DEF Requested
<1>6. generated # 0 /\ result = "none"
  BY <1>1, <1>2 DEF Requested
<1>7. AtFirst'
  <2>1. Offered' = Offered
    BY <1>2 DEF Offered
  <2> QED
    BY <1>1, <1>2, <1>6, <2>1 DEF AtFirst
<1>8. NotAsked'
  BY <1>1, <1>2 DEF NotAsked
<1>9. Answered'
  <2>1. CASE honest' = FALSE
    BY <2>1 DEF Answered
  <2>2. ASSUME NEW h \in {g \in Shake!ShortHeaders : Shake!WithinOffer(g)},
               response' = Shake!Proper(h)
        PROVE  Answered'
    <3>1. h \in Shake!Headers /\ Shake!WithinOffer(h)
      BY <2>2 DEF Shake!ShortHeaders
    <3>2. Shake!WithinOffer(h)' /\ Shake!Proper(h)' = Shake!Proper(h)
      BY <1>2, <3>1 DEF Shake!WithinOffer, Shake!Offer, Shake!Proper
    <3>3. (\E g \in Shake!Headers : Shake!WithinOffer(g) /\ response = Shake!Proper(g))'
      BY <2>2, <3>1, <3>2
    <3> QED
      BY <3>3 DEF Answered
  <2> QED
    BY <1>2, <2>1, <2>2
<1>10. Shake!AcceptedIsOurs' /\ Shake!CompressionAsAgreed' /\ Shake!ProperIsAcceptedAtFirst'
  BY <1>2, <1>6 DEF Shake!AcceptedIsOurs, Shake!CompressionAsAgreed,
         Shake!ProperIsAcceptedAtFirst
<1> QED
  BY <1>4, <1>5, <1>7, <1>8, <1>9, <1>10 DEF ShakeInv

-----------------------------------------------------------------------------
(* The opening handshake: what an offer says *)

ParameterNames ==
  {"permessage-deflate", "server_max_window_bits", "client_max_window_bits",
   "server_no_context_takeover", "client_no_context_takeover"}
Segments == [key : ParameterNames, value : Int]

Without(h, k) == h \in Seq(Segments) /\ \A j \in 1..Len(h) : h[j].key # k

(* The key k occurs in the header h once, with the value v. *)
Says(h, k, v) ==
  /\ h \in Seq(Segments)
  /\ \E m \in 1..Len(h) : /\ h[m].key = k /\ h[m].value = v
                          /\ \A j \in 1..Len(h) : h[j].key = k => j = m

Joined(h, t) == h \o t

LEMMA JoinedAt ==
  ASSUME NEW h \in Seq(Segments), NEW t \in Seq(Segments)
  PROVE  /\ Joined(h, t) \in Seq(Segments)
         /\ \A j \in 1..Len(h) : j \in 1..Len(Joined(h, t)) /\ Joined(h, t)[j] = h[j]
         /\ \A j \in 1..Len(t) : /\ Len(h) + j \in 1..Len(Joined(h, t))
                                 /\ Joined(h, t)[Len(h) + j] = t[j]
         /\ \A j \in 1..Len(Joined(h, t)) :
              j \in 1..Len(h) \/ \E l \in 1..Len(t) : j = Len(h) + l
<1>1. /\ Joined(h, t) \in Seq(Segments) /\ Len(Joined(h, t)) = Len(h) + Len(t)
      /\ Len(h) \in Nat /\ Len(t) \in Nat
  BY DEF Joined
<1>2. \A j \in 1..Len(h) : j \in 1..Len(Joined(h, t)) /\ Joined(h, t)[j] = h[j]
  BY <1>1 DEF Joined
<1>3. \A j \in 1..Len(t) : /\ Len(h) + j \in 1..Len(Joined(h, t))
                           /\ Joined(h, t)[Len(h) + j] = t[j]
  BY <1>1 DEF Joined
<1>4. ASSUME NEW j \in 1..Len(Joined(h, t)), j \notin 1..Len(h)
      PROVE  \E l \in 1..Len(t) : j = Len(h) + l
  <2>1. j - Len(h) \in 1..Len(t) /\ j = Len(h) + (j - Len(h))
    BY <1>1, <1>4
  <2> QED
    BY <2>1
<1> QED
  BY <1>1, <1>2, <1>3, <1>4

LEMMA WithoutBoth ==
  ASSUME NEW k, NEW h, Without(h, k), NEW t, Without(t, k)
  PROVE  Without(Joined(h, t), k)
<1> DEFINE g == Joined(h, t)
<1>1. /\ h \in Seq(Segments) /\ \A j \in 1..Len(h) : h[j].key # k
      /\ t \in Seq(Segments) /\ \A j \in 1..Len(t) : t[j].key # k
  BY DEF Without
<1>2. g \in Seq(Segments)
  BY <1>1, JoinedAt
<1>3. ASSUME NEW j \in 1..Len(g)
      PROVE  g[j].key # k
  <2>1. j \in 1..Len(h) \/ \E l \in 1..Len(t) : j = Len(h) + l
    BY <1>1, <1>3, JoinedAt
  <2>2. CASE j \in 1..Len(h)
    BY <1>1, <2>2, JoinedAt
  <2>3. ASSUME NEW l \in 1..Len(t), j = Len(h) + l
        PROVE  g[j].key # k
    BY <1>1, <2>3, JoinedAt, ZenonT(60)
  <2> QED
    BY <2>1, <2>2, <2>3
<1> HIDE DEF g
<1>4. Without(g, k)
  BY <1>2, <1>3 DEF Without
<1> QED
  BY <1>4 DEF g

LEMMA SaysBefore ==
  ASSUME NEW k, NEW v, NEW h, Says(h, k, v), NEW t, Without(t, k)
  PROVE  Says(Joined(h, t), k, v)
<1> DEFINE g == Joined(h, t)
<1>1. h \in Seq(Segments) /\ t \in Seq(Segments) /\ \A j \in 1..Len(t) : t[j].key # k
  BY DEF Says, Without
<1>2. PICK m \in 1..Len(h) : /\ h[m].key = k /\ h[m].value = v
                             /\ \A j \in 1..Len(h) : h[j].key = k => j = m
  BY DEF Says
<1>3. /\ g \in Seq(Segments) /\ m \in 1..Len(g) /\ g[m] = h[m]
  BY <1>1, <1>2, JoinedAt
<1>4. ASSUME NEW j \in 1..Len(g), g[j].key = k
      PROVE  j = m
  <2>1. j \in 1..Len(h) \/ \E l \in 1..Len(t) : j = Len(h) + l
    BY <1>1, <1>4, JoinedAt
  <2>2. CASE j \in 1..Len(h)
    <3>1. g[j] = h[j]
      BY <1>1, <2>2, JoinedAt
    <3> QED
      BY <1>1, <1>2, <1>4, <2>2, <3>1
  <2>3. ASSUME NEW l \in 1..Len(t), j = Len(h) + l
        PROVE  j = m
    <3>1. g[j] = t[l]
      BY <1>1, <2>3, JoinedAt
    <3> QED
      BY <1>1, <1>2, <1>4, <2>3, <3>1
  <2> QED
    BY <2>1, <2>2, <2>3
<1> HIDE DEF g
<1>5. Says(g, k, v)
  BY <1>2, <1>3, <1>4 DEF Says
<1> QED
  BY <1>5 DEF g

LEMMA SaysBehind ==
  ASSUME NEW k, NEW v, NEW h, Without(h, k), NEW t, Says(t, k, v)
  PROVE  Says(Joined(h, t), k, v)
<1> DEFINE g == Joined(h, t)
<1>1. h \in Seq(Segments) /\ t \in Seq(Segments) /\ \A j \in 1..Len(h) : h[j].key # k
  BY DEF Says, Without
<1>2. PICK m \in 1..Len(t) : /\ t[m].key = k /\ t[m].value = v
                             /\ \A j \in 1..Len(t) : t[j].key = k => j = m
  BY DEF Says
<1>3. /\ g \in Seq(Segments) /\ Len(h) + m \in 1..Len(g) /\ g[Len(h) + m] = t[m]
  BY <1>1, <1>2, JoinedAt
<1>4. ASSUME NEW j \in 1..Len(g), g[j].key = k
      PROVE  j = Len(h) + m
  <2>1. j \in 1..Len(h) \/ \E l \in 1..Len(t) : j = Len(h) + l
    BY <1>1, <1>4, JoinedAt
  <2>2. CASE j \in 1..Len(h)
    <3>1. g[j] = h[j]
      BY <1>1, <2>2, JoinedAt
    <3> QED
      BY <1>1, <1>2, <1>4, <2>2, <3>1
  <2>3. ASSUME NEW l \in 1..Len(t), j = Len(h) + l
        PROVE  j = Len(h) + m
    <3>1. g[j] = t[l]
      BY <1>1, <2>3, JoinedAt
    <3> QED
      BY <1>1, <1>2, <1>4, <2>3, <3>1
  <2> QED
    BY <2>1, <2>2, <2>3
<1> HIDE DEF g
<1>5. Says(g, k, v)
  BY <1>2, <1>3, <1>4 DEF Says
<1> QED
  BY <1>5 DEF g

LEMMA ParseSays ==
  ASSUME NEW h, NEW k, NEW v, Says(h, k, v)
  PROVE  /\ k \in DOMAIN Shake!parse_WebSocketExtensions(h)
         /\ Shake!parse_WebSocketExtensions(h)[k] = v
<1> DEFINE P(i0) == h[i0].key = k /\ \A j \in DOMAIN h : h[j].key = k => j <= i0
           last == CHOOSE i0 \in DOMAIN h : P(i0)
<1>1. DOMAIN h = 1..Len(h)
  BY DEF Says
<1>2. PICK m \in 1..Len(h) : /\ h[m].key = k /\ h[m].value = v
                             /\ \A j \in 1..Len(h) : h[j].key = k => j = m
  BY DEF Says
<1>3. m \in DOMAIN h /\ P(m)
  BY <1>1, <1>2
<1>4. last \in DOMAIN h /\ P(last)
  BY <1>3
<1>5. last = m
  BY <1>1, <1>2, <1>4
<1>6. k \in Shake!Keys(h)
  BY <1>3 DEF Shake!Keys
<1>7. Shake!parse_WebSocketExtensions(h)[k] = h[last].value
  BY <1>6 DEF Shake!parse_WebSocketExtensions
<1> QED
  BY <1>2, <1>5, <1>6, <1>7 DEF Shake!parse_WebSocketExtensions

LEMMA OneSegment ==
  ASSUME NEW k \in ParameterNames, NEW v \in Int
  PROVE  /\ Says(<<Shake!Segment(k, v)>>, k, v)
         /\ \A l : l # k => Without(<<Shake!Segment(k, v)>>, l)
<1> DEFINE g == Shake!Segment(k, v)
<1>1. g \in Segments /\ g.key = k /\ g.value = v
  BY DEF Shake!Segment, Segments
<1> HIDE DEF g
<1>2. <<g>> \in Seq(Segments) /\ Len(<<g>>) = 1 /\ <<g>>[1] = g
  BY <1>1
<1>3. 1 \in 1..Len(<<g>>) /\ \A j \in 1..Len(<<g>>) : j = 1
  BY <1>2
<1>4. Says(<<g>>, k, v)
  BY <1>1, <1>2, <1>3 DEF Says
<1>5. \A l : l # k => Without(<<g>>, l)
  BY <1>1, <1>2, <1>3 DEF Without
<1> QED
  BY <1>4, <1>5 DEF g

LEMMA NoSegment == \A k : Without(<<>>, k)
BY DEF Without

(* A window size the user has asked for is in the offer. *)
LEMMA OfferedWindow ==
  ASSUME NEW d, d.server_max_window_bits \in Nat, d.client_max_window_bits \in Nat
  PROVE  LET h == Shake!get_SecWebSocketExtensions_value(d) IN
         /\ d.server_max_window_bits > 0 =>
              Says(h, "server_max_window_bits", d.server_max_window_bits)
         /\ d.client_max_window_bits > 0 =>
              Says(h, "client_max_window_bits", d.client_max_window_bits)
<1> DEFINE S == "server_max_window_bits"
           C == "client_max_window_bits"
           ds == d.server_max_window_bits
           dc == d.client_max_window_bits
           a == <<Shake!Segment("permessage-deflate", Shake!NoValue)>>
           b == IF ds > 0 THEN <<Shake!Segment(S, ds)>> ELSE <<>>
           c == IF dc > 0 THEN <<Shake!Segment(C, dc)>> ELSE <<>>
           e == IF d.server_no_context_takeover
                THEN <<Shake!Segment("server_no_context_takeover", Shake!NoValue)>> ELSE <<>>
           f == IF d.client_no_context_takeover
                THEN <<Shake!Segment("client_no_context_takeover", Shake!NoValue)>> ELSE <<>>
           h == Shake!get_SecWebSocketExtensions_value(d)
<1>1. h = Joined(Joined(Joined(Joined(a, b), c), e), f)
  BY DEF Shake!get_SecWebSocketExtensions_value, Joined
<1>2. /\ S \in ParameterNames /\ C \in ParameterNames /\ S # C
      /\ "permessage-deflate" \in ParameterNames \ {S, C}
      /\ "server_no_context_takeover" \in ParameterNames \ {S, C}
      /\ "client_no_context_takeover" \in ParameterNames \ {S, C}
  BY DEF ParameterNames
<1>3. Shake!NoValue \in Int /\ ds \in Int /\ dc \in Int
  BY DEF Shake!NoValue
<1>4. ASSUME NEW k \in {S, C}
      PROVE  Without(a, k) /\ Without(e, k) /\ Without(f, k)
  <2> DEFINE s1 == <<Shake!Segment("server_no_context_takeover", Shake!NoValue)>>
             s2 == <<Shake!Segment("client_no_context_takeover", Shake!NoValue)>>
  <2>1. Without(a, k) /\ Without(s1, k) /\ Without(s2, k)
    BY <1>2, <1>3, OneSegment
  <2>2. (e = s1 \/ e = <<>>) /\ (f = s2 \/ f = <<>>)
    OBVIOUS
  <2> HIDE DEF s1, s2, a, e, f
  <2> QED
    BY <2>1, <2>2, NoSegment
<1>5. Without(b, C) /\ (ds > 0 => Says(b, S, ds))
  <2>1. b = <<>> \/ b = <<Shake!Segment(S, ds)>>
    OBVIOUS
  <2>2. ds > 0 => b = <<Shake!Segment(S, ds)>>
    OBVIOUS
  <2> HIDE DEF b, S, C, ds
  <2>3. /\ Says(<<Shake!Segment(S, ds)>>, S, ds)
        /\ Without(<<Shake!Segment(S, ds)>>, C) /\ Without(<<>>, C)
    BY <1>2, <1>3, OneSegment, NoSegment
  <2>4. Without(b, C)
    BY <2>1, <2>3
  <2>5. ds > 0 => Says(b, S, ds)
    BY <2>2, <2>3
  <2> QED
    BY <2>4, <2>5
<1>6. Without(c, S) /\ (dc > 0 => Says(c, C, dc))
  <2>1. c = <<>> \/ c = <<Shake!Segment(C, dc)>>
    OBVIOUS
  <2>2. dc > 0 => c = <<Shake!Segment(C, dc)>>
    OBVIOUS
  <2> HIDE DEF c, S, C, dc
  <2>3. /\ Says(<<Shake!Segment(C, dc)>>, C, dc)
        /\ Without(<<Shake!Segment(C, dc)>>, S) /\ Without(<<>>, S)
    BY <1>2, <1>3, OneSegment, NoSegment
  <2>4. Without(c, S)
    BY <2>1, <2>3
  <2>5. dc > 0 => Says(c, C, dc)
    BY <2>2, <2>3
  <2> QED
    BY <2>4, <2>5
<1>7. S \in {S, C} /\ C \in {S, C}
  OBVIOUS
<1> HIDE DEF S, C, ds, dc, a, b, c, e, f, h
<1>8. ASSUME ds > 0
      PROVE  Says(h, S, ds)
  <2>1. Says(Joined(a, b), S, ds)
    BY <1>4, <1>5, <1>7, <1>8, SaysBehind
  <2>2. Says(Joined(Joined(a, b), c), S, ds)
    BY <2>1, <1>6, SaysBefore
  <2>3. Says(Joined(Joined(Joined(a, b), c), e), S, ds)
    BY <2>2, <1>4, <1>7, SaysBefore
  <2> QED
    BY <1>1, <2>3, <1>4, <1>7, SaysBefore
<1>9. ASSUME dc > 0
      PROVE  Says(h, C, dc)
  <2>1. Without(Joined(a, b), C)
    BY <1>4, <1>5, <1>7, WithoutBoth
  <2>2. Says(Joined(Joined(a, b), c), C, dc)
    BY <2>1, <1>6, <1>9, SaysBehind
  <2>3. Says(Joined(Joined(Joined(a, b), c), e), C, dc)
    BY <2>2, <1>4, <1>7, SaysBefore
  <2> QED
    BY <1>1, <2>3, <1>4, <1>7, SaysBefore
<1> QED
  BY <1>8, <1>9 DEF h, S, C, ds, dc

-----------------------------------------------------------------------------
(* The opening handshake: the response *)

(* The fields of a proper response. *)
LEMMA ProperFields ==
  ASSUME NEW h
  PROVE  LET r == Shake!Proper(h) IN
         /\ r.status = 101 /\ r.malformed = FALSE
         /\ r.fields["Upgrade"] = <<{"websocket"}>>
         /\ r.fields["Connection"] = <<{"keep-alive"}, {"upgrade"}>>
         /\ r.fields["Sec-WebSocket-Accept"] = <<Shake!get_first(wire, "Sec-WebSocket-Key")>>
         /\ r.fields["Sec-WebSocket-Version"] = <<>>
         /\ r.fields["Sec-WebSocket-Extensions"] =
              IF h = Shake!NoHeader THEN <<>> ELSE <<h>>
BY DEF Shake!Proper, Shake!NoFields, Shake!Names

LEMMA ProperIsValid ==
  ASSUME ShakeInv, pc = "response", NEW h, response = Shake!Proper(h)
  PROVE  Shake!Valid /\ Shake!ResponseExtensions = h
<1>1. wire["Sec-WebSocket-Key"] = <<generated>> /\ key = generated
  BY DEF ShakeInv, Requested, KEY
<1>2. Shake!get_first(wire, "Sec-WebSocket-Key") = key
  BY <1>1 DEF Shake!get_first
<1>3. Shake!parse_request_status_line /\ Shake!parse_header_fields
  BY ProperFields DEF Shake!parse_request_status_line, Shake!parse_header_fields
<1>4. Shake!validate_UpgradeWebsocket
  <2>1. response.fields["Upgrade"] = <<{"websocket"}>>
    BY ProperFields
  <2>2. 1 \in DOMAIN <<{"websocket"}>> /\ "websocket" \in <<{"websocket"}>>[1]
    OBVIOUS
  <2> QED
    BY <2>1, <2>2 DEF Shake!validate_UpgradeWebsocket, Shake!header_contains_token
<1>5. Shake!validate_ConnectionUpgrade
  <2> DEFINE c == <<{"keep-alive"}, {"upgrade"}>>
  <2>1. response.fields["Connection"] = c
    BY ProperFields
  <2>2. 2 \in DOMAIN c /\ "upgrade" \in c[2]
    OBVIOUS
  <2> HIDE DEF c
  <2> QED
    BY <2>1, <2>2 DEF Shake!validate_ConnectionUpgrade, Shake!header_contains_token
<1>6. Shake!validate_SecWebSocketAccept
  <2>1. response.fields["Sec-WebSocket-Accept"] = <<key>>
    BY <1>2, ProperFields
  <2> QED
    BY <2>1 DEF Shake!validate_SecWebSocketAccept, Shake!contains_key, Shake!get_first
<1>7. Shake!validate_SecWebSocketVersion
  <2>1. response.fields["Sec-WebSocket-Version"] = <<>>
    BY ProperFields
  <2> QED
    BY <2>1 DEF Shake!validate_SecWebSocketVersion, Shake!contains_key
<1>8. Shake!ResponseExtensions = h
  <2>1. response.fields["Sec-WebSocket-Extensions"] =
          IF h = Shake!NoHeader THEN <<>> ELSE <<h>>
    BY ProperFields
  <2>2. CASE h = Shake!NoHeader
    BY <2>1, <2>2 DEF Shake!ResponseExtensions, Shake!contains_key
  <2>3. CASE h # Shake!NoHeader
    BY <2>1, <2>3 DEF Shake!ResponseExtensions, Shake!contains_key, Shake!get_first
  <2> QED
    BY <2>2, <2>3
<1> QED
  BY <1>3, <1>4, <1>5, <1>6, <1>7, <1>8 DEF Shake!Valid

(* Whether the negotiation switches the extension on. *)
LEMMA NegotiatedOn ==
  ASSUME NEW d, NEW h
  PROVE  LET agreed == Shake!negotiate(d, h) IN
         /\ agreed.on \in {"on", "off", "refused"}
         /\ (agreed.on # "refused" =>
               (agreed.on = "on" <=>
                  "permessage-deflate" \in DOMAIN Shake!parse_WebSocketExtensions(h)))
<1> DEFINE ext == Shake!parse_WebSocketExtensions(h)
           r1 == Shake!negotiate_server_no_context_takeover(d, ext)
           r2 == Shake!negotiate_client_no_context_takeover(r1.def, ext)
           r3 == Shake!negotiate_server_max_window_bits(r2.def, ext)
           r4 == Shake!negotiate_client_max_window_bits(r3.def, ext)
           agreed == Shake!negotiate(d, h)
<1>1. agreed = CASE "permessage-deflate" \notin DOMAIN ext -> [on |-> "off", def |-> d]
                 [] OTHER -> IF ~r3.ok THEN [on |-> "refused", def |-> r3.def]
                             ELSE [on |-> IF r4.ok THEN "on" ELSE "refused", def |-> r4.def]
  BY DEF Shake!negotiate
<1> HIDE DEF ext, r1, r2, r3, r4, agreed
<1>2. CASE "permessage-deflate" \notin DOMAIN ext
  BY <1>1, <1>2 DEF ext, agreed
<1>3. CASE "permessage-deflate" \in DOMAIN ext /\ ~r3.ok
  BY <1>1, <1>3 DEF ext, agreed
<1>4. CASE "permessage-deflate" \in DOMAIN ext /\ r3.ok /\ r4.ok
  BY <1>1, <1>4 DEF ext, agreed
<1>5. CASE "permessage-deflate" \in DOMAIN ext /\ r3.ok /\ ~r4.ok
  BY <1>1, <1>5 DEF ext, agreed
<1> QED
  BY <1>2, <1>3, <1>4, <1>5

(* A server that keeps within the first offer is not refused. *)
LEMMA FirstNotRefused ==
  ASSUME ShakeInv, pc = "response", generated = 1, deflate.none = FALSE,
         NEW h, Shake!WithinOffer(h)
  PROVE  Shake!negotiate(Shake!Value(deflate), h).on # "refused"
<1> DEFINE v == Shake!Value(deflate)
           ext == Shake!parse_WebSocketExtensions(h)
           r1 == Shake!negotiate_server_no_context_takeover(v, ext)
           r2 == Shake!negotiate_client_no_context_takeover(r1.def, ext)
           r3 == Shake!negotiate_server_max_window_bits(r2.def, ext)
           r4 == Shake!negotiate_client_max_window_bits(r3.def, ext)
           S == "server_max_window_bits"
           C == "client_max_window_bits"
<1>1. PICK d \in Shake!Defs : deflate = Shake!Some(d)
  BY DEF ShakeInv, AtFirst
<1>2. /\ d.server_max_window_bits \in Nat /\ d.client_max_window_bits \in Nat
      /\ v.server_max_window_bits = d.server_max_window_bits
      /\ v.client_max_window_bits = d.client_max_window_bits
  <2>1. d.server_max_window_bits \in Nat /\ d.client_max_window_bits \in Nat
    BY DEF Shake!Defs
  <2> QED
    BY <1>1, <2>1, SomeValue
<1>3. /\ DOMAIN v = DOMAIN Shake!NoDeflate \ {"none"}
      /\ v = [f \in DOMAIN Shake!NoDeflate \ {"none"} |-> v[f]]
  BY DEF Shake!Value
<1>4. DOMAIN Shake!NoDeflate \ {"none"} =
        {S, C, "server_no_context_takeover", "client_no_context_takeover"}
  BY DEF Shake!NoDeflate
<1>5. Shake!Offer = Shake!parse_WebSocketExtensions(Shake!get_SecWebSocketExtensions_value(v))
  <2>1. wire[EXT] = <<Shake!get_SecWebSocketExtensions_value(v)>>
    BY DEF ShakeInv, AtFirst, Offered
  <2> HIDE DEF v
  <2> QED
    BY <2>1 DEF Shake!Offer, Shake!contains_key, Shake!get_first, EXT
<1> HIDE DEF v
<1>6. /\ v.server_max_window_bits > 0 =>
           S \in DOMAIN Shake!Offer /\ Shake!Offer[S] = v.server_max_window_bits
      /\ v.client_max_window_bits > 0 =>
           C \in DOMAIN Shake!Offer /\ Shake!Offer[C] = v.client_max_window_bits
  <2>1. v.server_max_window_bits \in Nat /\ v.client_max_window_bits \in Nat
    BY <1>2
  <2> QED
    BY <1>5, <2>1, OfferedWindow, ParseSays
<1>7. CASE "permessage-deflate" \notin DOMAIN ext
  <2>1. Shake!negotiate(v, h) = [on |-> "off", def |-> v]
    BY <1>7 DEF Shake!negotiate
  <2> QED
    BY <2>1 DEF v
<1>8. CASE "permessage-deflate" \in DOMAIN ext
  <2>1. \A k \in {S, C} \cap DOMAIN ext :
          /\ ext[k] \in 8..15
          /\ k \in DOMAIN Shake!Offer => ext[k] <= Shake!Offer[k]
    <3>1. h # Shake!NoHeader
      BY <1>8 DEF Shake!NoHeader, Shake!parse_WebSocketExtensions, Shake!Keys
    <3> QED
      BY <3>1 DEF Shake!WithinOffer, Shake!parse_window_bits
  <2>2. /\ r2.def.server_max_window_bits = v.server_max_window_bits
        /\ r2.def.client_max_window_bits = v.client_max_window_bits
        /\ DOMAIN r2.def = DOMAIN v
    <3>1. r1.def = [v EXCEPT !.server_no_context_takeover =
                                "server_no_context_takeover" \in DOMAIN ext]
      BY DEF Shake!negotiate_server_no_context_takeover, Shake!Agreed
    <3>2. /\ DOMAIN r1.def = DOMAIN v
          /\ r1.def[S] = v[S] /\ r1.def[C] = v[C]
      BY <1>3, <1>4, <3>1
    <3> HIDE DEF r1
    <3>3. r2.def = [r1.def EXCEPT !.client_no_context_takeover =
                                     @ \/ "client_no_context_takeover" \in DOMAIN ext]
      BY DEF Shake!negotiate_client_no_context_takeover, Shake!Agreed
    <3>4. /\ DOMAIN r2.def = DOMAIN r1.def
          /\ r2.def[S] = r1.def[S] /\ r2.def[C] = r1.def[C]
      BY <1>3, <1>4, <3>2, <3>3
    <3> QED
      BY <3>2, <3>4
  <2>3. /\ r3.ok = TRUE /\ r3.def.client_max_window_bits = v.client_max_window_bits
    <3> DEFINE d2 == r2.def
    <3>1. /\ d2.server_max_window_bits = v.server_max_window_bits
          /\ d2.client_max_window_bits = v.client_max_window_bits
          /\ C \in DOMAIN d2
      BY <1>3, <1>4, <2>2
    <3> HIDE DEF d2, ext
    <3>2. CASE S \notin DOMAIN ext
      <4>1. Shake!negotiate_server_max_window_bits(d2, ext)
              = Shake!Agreed([d2 EXCEPT !.server_max_window_bits = 15])
        BY <3>2 DEF Shake!negotiate_server_max_window_bits, Shake!default_max_window_bits
      <4> QED
        BY <3>1, <4>1 DEF Shake!Agreed, d2
    <3>3. CASE S \in DOMAIN ext
      <4>1. /\ ext[S] \in 8..15
            /\ ~(d2.server_max_window_bits > 0 /\ ext[S] > d2.server_max_window_bits)
        BY <1>2, <1>6, <2>1, <3>1, <3>3
      <4>2. Shake!negotiate_server_max_window_bits(d2, ext)
              = Shake!Agreed([d2 EXCEPT !.server_max_window_bits = ext[S]])
        BY <3>3, <4>1 DEF Shake!negotiate_server_max_window_bits, Shake!parse_window_bits
      <4> QED
        BY <3>1, <4>2 DEF Shake!Agreed, d2
    <3> QED
      BY <3>2, <3>3
  <2>4. r4.ok = TRUE
    <3> DEFINE d3 == r3.def
    <3>1. d3.client_max_window_bits = v.client_max_window_bits
      BY <2>3
    <3> HIDE DEF d3, ext
    <3>2. CASE C \notin DOMAIN ext
      <4>1. Shake!negotiate_client_max_window_bits(d3, ext)
              = Shake!Agreed([d3 EXCEPT !.client_max_window_bits = 15])
        BY <3>2 DEF Shake!negotiate_client_max_window_bits, Shake!default_max_window_bits
      <4> QED
        BY <4>1 DEF Shake!Agreed, d3
    <3>3. CASE C \in DOMAIN ext
      <4>1. /\ ext[C] \in 8..15
            /\ ~(d3.client_max_window_bits > 0 /\ ext[C] > d3.client_max_window_bits)
        BY <1>2, <1>6, <2>1, <3>1, <3>3
      <4>2. Shake!negotiate_client_max_window_bits(d3, ext)
              = Shake!Agreed([d3 EXCEPT !.client_max_window_bits = ext[C]])
        BY <3>3, <4>1 DEF Shake!negotiate_client_max_window_bits, Shake!parse_window_bits
      <4> QED
        BY <4>2 DEF Shake!Agreed, d3
    <3> QED
      BY <3>2, <3>3
  <2> HIDE DEF r1, r2, r3, r4
  <2>5. Shake!negotiate(v, h) = [on |-> "on", def |-> r4.def]
    BY <1>8, <2>3, <2>4 DEF Shake!negotiate, r1, r2, r3, r4
  <2> QED
    BY <2>5 DEF v
<1> QED
  BY <1>7, <1>8

LEMMA ShakeResponse ==
  ASSUME ShakeInv, Shake!process_response
  PROVE  ShakeInv'
<1> DEFINE agreed == Shake!negotiate(Shake!Value(deflate), Shake!ResponseExtensions)
<1>1. /\ ShakeTyped /\ Requested /\ AtFirst /\ NotAsked /\ Answered
      /\ Shake!AcceptedIsOurs /\ Shake!CompressionAsAgreed /\ Shake!ProperIsAcceptedAtFirst
  BY DEF ShakeInv
<1>2. /\ pc = "response" /\ pc' = "idle" /\ result' \in {"ok", "error"}
      /\ UNCHANGED <<fields, key, generated, wire, response, honest>>
  BY DEF Shake!process_response, Shake!Return
<1>3. \/ ~Shake!Valid /\ result' = "error" /\ UNCHANGED <<deflate, negotiated>>
      \/ Shake!Valid /\ deflate.none /\ result' = "ok" /\ UNCHANGED <<deflate, negotiated>>
      \/ /\ Shake!Valid /\ deflate.none = FALSE /\ deflate'.none = FALSE
         /\ IF agreed.on = "refused"
            THEN result' = "error" /\ UNCHANGED negotiated
            ELSE negotiated' = (agreed.on = "on") /\ result' = "ok"
  <2> HIDE DEF agreed
  <2>1. deflate.none \in BOOLEAN
    BY <1>1 DEF ShakeTyped
  <2>2. \/ ~Shake!Valid /\ result' = "error" /\ UNCHANGED <<deflate, negotiated>>
        \/ Shake!Valid /\ deflate.none /\ result' = "ok" /\ UNCHANGED <<deflate, negotiated>>
        \/ /\ Shake!Valid /\ ~deflate.none /\ deflate' = Shake!Some(agreed.def)
           /\ IF agreed.on = "refused"
              THEN result' = "error" /\ UNCHANGED negotiated
              ELSE negotiated' = (agreed.on = "on") /\ result' = "ok"
    BY DEF Shake!process_response, Shake!Return, Shake!CompressionFlag, agreed
  <2>3. \A d : Shake!Some(d).none = FALSE
    BY SomeValue
  <2> QED
    BY <2>1, <2>2, <2>3
<1>4. generated # 0 /\ key = generated
  BY <1>1, <1>2 DEF Requested
<1> HIDE DEF agreed
<1>5. ShakeTyped'
  <2>1. (deflate.none \in BOOLEAN /\ negotiated \in BOOLEAN)'
    BY <1>1, <1>3 DEF ShakeTyped
  <2> QED
    BY <1>1, <1>2, <2>1 DEF ShakeTyped, OneEach
<1>6. Requested' /\ Answered'
  BY <1>2 DEF Requested, Answered
<1>7. AtFirst'
  BY <1>2, <1>4 DEF AtFirst
<1>8. NotAsked'
  BY <1>1, <1>2, <1>3 DEF NotAsked
<1>9. Shake!AcceptedIsOurs'
  BY <1>2, <1>3, <1>4 DEF Shake!AcceptedIsOurs, Shake!Valid, Shake!validate_SecWebSocketAccept
<1>10. CASE honest = FALSE
  <2>1. Shake!CompressionAsAgreed' /\ Shake!ProperIsAcceptedAtFirst'
    BY <1>2, <1>10 DEF Shake!CompressionAsAgreed, Shake!ProperIsAcceptedAtFirst
  <2> QED
    BY <1>5, <1>6, <1>7, <1>8, <1>9, <2>1 DEF ShakeInv
<1>11. CASE honest = TRUE
  <2>1. PICK h \in Shake!Headers : Shake!WithinOffer(h) /\ response = Shake!Proper(h)
    BY <1>1, <1>2, <1>11 DEF Answered
  <2>2. Shake!Valid /\ Shake!ResponseExtensions = h
    BY <1>2, <2>1, ProperIsValid
  <2>3. Shake!ResponseExtensions' = Shake!ResponseExtensions
    BY <1>2 DEF Shake!ResponseExtensions
  <2>4. Shake!ProperIsAcceptedAtFirst'
    <3>1. generated = 1 /\ deflate.none = FALSE => agreed.on # "refused"
      BY <1>2, <2>1, <2>2, FirstNotRefused DEF agreed
    <3>2. generated = 1 => result' # "error"
      BY <1>3, <2>2, <3>1
    <3> QED
      BY <1>2, <3>2 DEF Shake!ProperIsAcceptedAtFirst
  <2>5. ASSUME result' = "ok"
        PROVE  negotiated' <=> h # Shake!NoHeader
    <3>1. CASE deflate.none = TRUE
      <4>1. ~negotiated' /\ wire[EXT] = <<>>
        BY <1>1, <1>2, <1>3, <3>1 DEF NotAsked
      <4>2. Shake!Offer = <<>>
        BY <4>1 DEF Shake!Offer, Shake!contains_key, EXT
      <4>3. h = Shake!NoHeader
        BY <2>1, <4>2 DEF Shake!WithinOffer
      <4> QED
        BY <4>1, <4>3
    <3>2. CASE deflate.none = FALSE
      <4>1. agreed.on # "refused" /\ negotiated' = (agreed.on = "on")
        BY <1>3, <2>2, <2>5, <3>2
      <4>2. agreed.on = "on" <=>
              "permessage-deflate" \in DOMAIN Shake!parse_WebSocketExtensions(h)
        BY <2>2, <4>1, NegotiatedOn DEF agreed
      <4>3. h = Shake!NoHeader =>
              "permessage-deflate" \notin DOMAIN Shake!parse_WebSocketExtensions(h)
        BY DEF Shake!NoHeader, Shake!parse_WebSocketExtensions, Shake!Keys
      <4>4. h # Shake!NoHeader =>
              "permessage-deflate" \in DOMAIN Shake!parse_WebSocketExtensions(h)
        BY <2>1 DEF Shake!WithinOffer
      <4> QED
        BY <4>1, <4>2, <4>3, <4>4
    <3> QED
      BY <1>1, <3>1, <3>2 DEF ShakeTyped
  <2>6. Shake!CompressionAsAgreed'
    BY <2>2, <2>3, <2>5 DEF Shake!CompressionAsAgreed, Shake!NoHeader
  <2> QED
    BY <1>5, <1>6, <1>7, <1>8, <1>9, <2>4, <2>6 DEF ShakeInv
<1> QED
  BY <1>1, <1>10, <1>11 DEF ShakeTyped

LEMMA ShakeStep ==
  ASSUME ShakeInv, [Shake!Next]_(Shake!vars)
  PROVE  ShakeInv'
<1>1. CASE UNCHANGED Shake!vars
  <2>1. UNCHANGED <<fields, key, deflate, negotiated, success, generated, wire, response,
                    honest, pc, result>>
    BY <1>1 DEF Shake!vars
  <2>2. ShakeTyped' /\ Requested' /\ AtFirst' /\ NotAsked'
    BY <2>1 DEF ShakeInv, ShakeTyped, OneEach, Requested, AtFirst, NotAsked, Offered
  <2>3. Answered'
    BY <2>1 DEF ShakeInv, Answered, Shake!WithinOffer, Shake!Offer, Shake!Proper
  <2>4. Shake!AcceptedIsOurs' /\ Shake!CompressionAsAgreed' /\ Shake!ProperIsAcceptedAtFirst'
    BY <2>1 DEF ShakeInv, Shake!AcceptedIsOurs, Shake!CompressionAsAgreed,
           Shake!ProperIsAcceptedAtFirst, Shake!ResponseExtensions
  <2> QED
    BY <2>2, <2>3, <2>4 DEF ShakeInv
<1> QED
  BY <1>1, ShakeIdle, ShakeRequest, ShakeServer, ShakeResponse DEF Shake!Next

(* The invariant holds while the handshake is the part that runs. *)
LEMMA ShakeAlways == Spec => [](which = "handshake" => ShakeInv)
<1> DEFINE I == which = "handshake" => ShakeInv
<1>1. Init => I
  BY ShakeInit DEF Init, InitContext, InitShake, InitMask, InitUtf, InitAddress, InitBuf, InitSha
<1>2. I /\ [Next]_vars => I'
  <2> SUFFICES ASSUME I, [Next]_vars, which' = "handshake"
               PROVE  ShakeInv'
    OBVIOUS
  <2>1. which = "handshake" /\ [Shake!Next]_(Shake!vars)
    <3>1. CASE UNCHANGED vars
      BY <3>1 DEF vars, Shake!vars
    <3>2. CASE Next
      BY <3>2 DEF Next, AsContext, AsShake, AsMask, AsUtf, AsAddress, AsBuf, AsSha
    <3> QED
      BY <3>1, <3>2
  <2> QED
    BY <2>1, ShakeStep
<1> QED
  BY <1>1, <1>2, PTL DEF Spec

(* Handshake::process_response (Handshake.hpp): for every choice of parameters
   and any number of uses of the object, only a response to the latest request
   is accepted, and the client then compresses exactly when an honest response
   says so. *)
THEOREM CodecsAcceptedIsOurs == Spec => []AcceptedIsOurs
<1>1. (which = "handshake" => ShakeInv) => AcceptedIsOurs
  BY DEF ShakeInv, AcceptedIsOurs
<1> QED
  BY <1>1, ShakeAlways, PTL

(* Handshake::get_request_message and PermessageDeflate::negotiate: each request
   of an object has exactly one field of each required name, and a server that
   keeps within the first offer it got is not refused, whatever window sizes
   the user has asked for. *)
THEOREM CodecsProperIsAcceptedAtFirst == Spec => []ProperIsAcceptedAtFirst
<1>1. ShakeInv => Shake!RequestWellFormed
  <2> SUFFICES ASSUME ShakeInv, pc # "idle", NEW name \in Needed
               PROVE  Len(wire[name]) = 1
    BY DEF Shake!RequestWellFormed, Needed
  <2>1. wire[name] # <<>> /\ name \in Shake!Names
    BY DEF ShakeInv, Requested, Needed, Shake!Names
  <2>2. PICK v : wire[name] = <<v>>
    BY <2>1 DEF ShakeInv, ShakeTyped, OneEach
  <2> QED
    BY <2>2
<1>2. (which = "handshake" => ShakeInv) => ProperIsAcceptedAtFirst
  BY <1>1 DEF ShakeInv, ProperIsAcceptedAtFirst
<1> QED
  BY <1>2, ShakeAlways, PTL

-----------------------------------------------------------------------------
(* The message buffer: its operators *)

Contents == Seq(Values \cup {Buf!Junk})
Objects == [max : Nat, cap : Nat, used : Nat, ptr : Blocks \cup {Buf!Null}]

LEMMA SmallerOfTwo ==
  ASSUME NEW a \in Nat, NEW b \in Nat
  PROVE  Buf!Min({a, b}) = IF a <= b THEN a ELSE b
<1> DEFINE m == IF a <= b THEN a ELSE b
<1>1. m \in {a, b} /\ \A y \in {a, b} : m <= y
  OBVIOUS
<1>2. \A n \in {a, b} : (\A y \in {a, b} : n <= y) => n = m
  OBVIOUS
<1> HIDE DEF m
<1> QED
  BY <1>1, <1>2 DEF Buf!Min, m

LEMMA LargerOfOne ==
  ASSUME NEW b \in Nat
  PROVE  Buf!Max({1, b}) = IF b = 0 THEN 1 ELSE b
<1> DEFINE m == IF b = 0 THEN 1 ELSE b
<1>1. m \in {1, b} /\ \A y \in {1, b} : m >= y
  OBVIOUS
<1>2. \A n \in {1, b} : (\A y \in {1, b} : n >= y) => n = m
  OBVIOUS
<1> HIDE DEF m
<1> QED
  BY <1>1, <1>2 DEF Buf!Max, m

LEMMA ResizedType ==
  ASSUME NEW c \in Contents, NEW n \in Nat
  PROVE  /\ Buf!Resized(c, n) \in Contents /\ Len(Buf!Resized(c, n)) = n
         /\ \A j \in 1..n : Buf!Resized(c, n)[j] = IF j <= Len(c) THEN c[j] ELSE Buf!Junk
<1>1. \A j \in 1..n : (IF j <= Len(c) THEN c[j] ELSE Buf!Junk) \in Values \cup {Buf!Junk}
  BY DEF Contents
<1>2. Buf!Resized(c, n) \in [1..n -> Values \cup {Buf!Junk}]
  BY <1>1 DEF Buf!Resized
<1>3. Buf!Resized(c, n) \in Contents /\ Len(Buf!Resized(c, n)) = n
  BY <1>2 DEF Contents
<1> QED
  BY <1>3 DEF Buf!Resized

-----------------------------------------------------------------------------
(* The message buffer: the invariant *)

(* What the object o may rely on: the block it points at is allocated and as
   large as o believes, and holds what the caller has written. *)
Good(o, written, memory) ==
  /\ o \in Objects /\ written \in Contents
  /\ o.ptr \in DOMAIN memory \cup {Buf!Null}
  /\ o.used <= o.cap
  /\ o.cap <= IF o.ptr \in DOMAIN memory THEN Len(memory[o.ptr]) ELSE 0
  /\ Len(written) = o.used
  /\ \A j \in 1..Len(written) : written[j] # Buf!Junk => memory[o.ptr][j] = written[j]

BufTyped ==
  /\ obj = [x \in DOMAIN obj |-> obj[x]]
  /\ shadow = [x \in DOMAIN obj |-> shadow[x]]
  /\ heap = [b \in DOMAIN heap |-> heap[b]]
  /\ DOMAIN heap \subseteq Blocks /\ \A b \in DOMAIN heap : heap[b] \in Contents

BufInv ==
  /\ BufTyped
  /\ \A x \in DOMAIN obj : Good(obj[x], shadow[x], heap)
  /\ Buf!BlocksAreOwned

(* The memory changes from old to new for an object whose pointer was p and
   becomes q: no other block is touched, and p is freed if it is given up. *)
Exchanged(old, new, p, q) ==
  /\ new = [b \in DOMAIN new |-> new[b]]
  /\ DOMAIN new \subseteq Blocks /\ \A b \in DOMAIN new : new[b] \in Contents
  /\ \A b : b \notin {p, q} => (b \in DOMAIN new <=> b \in DOMAIN old)
  /\ \A b \in DOMAIN old \ {p, q} : new[b] = old[b]
  /\ q # p => p \notin DOMAIN new /\ q \notin DOMAIN old
  /\ q \in DOMAIN new \cup {Buf!Null}

LEMMA NullIsNoBlock == Buf!Null \notin Blocks
BY CodecsAssumption DEF Buf!Null

(* An object does not notice what happens to the blocks of others. *)
LEMMA GoodElsewhere ==
  ASSUME NEW o, NEW written, NEW old, NEW new, Good(o, written, old),
         o.ptr \in DOMAIN old <=> o.ptr \in DOMAIN new,
         o.ptr \in DOMAIN old => new[o.ptr] = old[o.ptr]
  PROVE  Good(o, written, new)
<1>1. CASE o.ptr \in DOMAIN old
  BY <1>1 DEF Good
<1>2. CASE o.ptr \notin DOMAIN old
  <2>1. o.ptr = Buf!Null /\ o.cap = 0 /\ o.used = 0
    BY <1>2 DEF Good, Objects
  <2>2. Len(written) = 0
    BY <2>1 DEF Good
  <2> QED
    BY <1>2, <2>1, <2>2 DEF Good
<1> QED
  BY <1>1, <1>2

(* A step of one object, which may be a new one. *)
LEMMA BufUpdate ==
  ASSUME BufInv, NEW x, NEW o, NEW written,
         obj' = Buf!Put(obj, x, o), shadow' = Buf!Put(shadow, x, written),
         Good(o, written, heap'),
         Exchanged(heap, heap', IF x \in DOMAIN obj THEN obj[x].ptr ELSE Buf!Null, o.ptr)
  PROVE  BufInv'
<1> DEFINE p == IF x \in DOMAIN obj THEN obj[x].ptr ELSE Buf!Null
           q == o.ptr
<1>1. BufTyped /\ Buf!BlocksAreOwned /\ \A y \in DOMAIN obj : Good(obj[y], shadow[y], heap)
  BY DEF BufInv
<1>2. /\ DOMAIN obj' = DOMAIN obj \cup {x}
      /\ obj'[x] = o /\ shadow'[x] = written
      /\ \A y \in DOMAIN obj \ {x} : obj'[y] = obj[y] /\ shadow'[y] = shadow[y]
      /\ obj' = [y \in DOMAIN obj' |-> obj'[y]]
      /\ shadow' = [y \in DOMAIN obj' |-> shadow'[y]]
  <2>1. DOMAIN shadow = DOMAIN obj
    BY <1>1 DEF BufTyped
  <2> QED
    BY <2>1 DEF Buf!Put
<1>3. /\ heap' = [b \in DOMAIN heap' |-> heap'[b]]
      /\ DOMAIN heap' \subseteq Blocks /\ \A b \in DOMAIN heap' : heap'[b] \in Contents
      /\ \A b : b \notin {p, q} => (b \in DOMAIN heap' <=> b \in DOMAIN heap)
      /\ \A b \in DOMAIN heap \ {p, q} : heap'[b] = heap[b]
      /\ q # p => p \notin DOMAIN heap' /\ q \notin DOMAIN heap
      /\ q \in DOMAIN heap' \cup {Buf!Null}
  BY DEF Exchanged
<1>4. /\ DOMAIN heap \subseteq Blocks /\ Buf!Null \notin Blocks
  BY <1>1, NullIsNoBlock DEF BufTyped
<1>5. \A y, z \in DOMAIN obj : (obj[y].ptr = obj[z].ptr /\ obj[y].ptr # Buf!Null) => y = z
  BY <1>1 DEF Buf!BlocksAreOwned
<1>6. \A y \in DOMAIN obj : obj[y].ptr \in DOMAIN heap \cup {Buf!Null}
  BY <1>1 DEF Buf!BlocksAreOwned
<1>7. \A b \in DOMAIN heap : \E y \in DOMAIN obj : obj[y].ptr = b
  BY <1>1 DEF Buf!BlocksAreOwned
<1>8. ASSUME NEW y \in DOMAIN obj \ {x}, obj[y].ptr # Buf!Null
      PROVE  obj[y].ptr \notin {p, q} /\ obj[y].ptr \in DOMAIN heap
  <2>1. obj[y].ptr \in DOMAIN heap
    BY <1>6, <1>8
  <2>2. obj[y].ptr # p
    BY <1>5, <1>8
  <2> QED
    BY <1>3, <2>1, <2>2
<1>9. BufTyped'
  BY <1>2, <1>3 DEF BufTyped
<1>10. \A y \in DOMAIN obj' : Good(obj'[y], shadow'[y], heap')
  <2> SUFFICES ASSUME NEW y \in DOMAIN obj \ {x}
               PROVE  Good(obj[y], shadow[y], heap')
    BY <1>2
  <2>1. Good(obj[y], shadow[y], heap)
    BY <1>1
  <2>2. CASE obj[y].ptr = Buf!Null
    BY <1>3, <1>4, <2>1, <2>2, GoodElsewhere
  <2>3. CASE obj[y].ptr # Buf!Null
    BY <1>3, <1>8, <2>1, <2>3, GoodElsewhere
  <2> QED
    BY <2>2, <2>3
<1>11. Buf!BlocksAreOwned'
  <2>1. \A b \in DOMAIN heap' : \E y \in DOMAIN obj' : obj'[y].ptr = b
    <3> SUFFICES ASSUME NEW b \in DOMAIN heap'
                 PROVE  \E y \in DOMAIN obj' : obj'[y].ptr = b
      OBVIOUS
    <3>1. CASE b = q
      BY <1>2, <3>1
    <3>2. CASE b # q
      <4>1. b # p /\ b \in DOMAIN heap
        BY <1>3, <1>4, <3>2
      <4>2. PICK y \in DOMAIN obj : obj[y].ptr = b
        BY <1>7, <4>1
      <4>3. y # x
        BY <4>1, <4>2
      <4> QED
        BY <1>2, <4>2, <4>3
    <3> QED
      BY <3>1, <3>2
  <2>2. \A y \in DOMAIN obj' : obj'[y].ptr \in DOMAIN heap' \cup {Buf!Null}
    <3> SUFFICES ASSUME NEW y \in DOMAIN obj \ {x}, obj[y].ptr # Buf!Null
                 PROVE  obj[y].ptr \in DOMAIN heap'
      BY <1>2, <1>3
    <3> QED
      BY <1>3, <1>8
  <2>3. \A y, z \in DOMAIN obj' : (obj'[y].ptr = obj'[z].ptr /\ obj'[y].ptr # Buf!Null) => y = z
    <3>1. \A y \in DOMAIN obj \ {x} : obj[y].ptr # Buf!Null => obj[y].ptr # q
      BY <1>8
    <3> HIDE DEF q
    <3>2. obj'[x].ptr = q
      BY <1>2 DEF q
    <3>3. \A y \in DOMAIN obj' : y = x \/ (y \in DOMAIN obj \ {x} /\ obj'[y].ptr = obj[y].ptr)
      BY <1>2
    <3> QED
      BY <1>5, <3>1, <3>2, <3>3
  <2> QED
    BY <2>1, <2>2, <2>3 DEF Buf!BlocksAreOwned
<1> QED
  BY <1>9, <1>10, <1>11 DEF BufInv

-----------------------------------------------------------------------------
(* The message buffer: reallocation *)

(* What reserving size bytes for the object o, in which written has been
   written, leads to: nothing, or room for them with the contents kept. *)
Outcome(o, written, r, size) ==
  /\ Exchanged(heap, r.heap, o.ptr, r.o.ptr) /\ r.o \in Objects
  /\ \/ r.ok = FALSE /\ r.o = o /\ r.heap = heap
     \/ /\ r.ok = TRUE /\ size <= r.o.cap
        /\ r.o.cap <= IF r.o.ptr \in DOMAIN r.heap THEN Len(r.heap[r.o.ptr]) ELSE 0
        /\ \A j \in 1..r.o.cap :
             (j <= Len(written) /\ written[j] # Buf!Junk) => r.heap[r.o.ptr][j] = written[j]
        /\ o.used <= size => r.o.used = o.used

LEMMA OutcomeSame ==
  ASSUME BufTyped, NEW o, NEW written, Good(o, written, heap),
         NEW size \in Nat, NEW r, r.o = o, r.heap = heap, r.ok \in BOOLEAN,
         r.ok = TRUE => size <= o.cap
  PROVE  Outcome(o, written, r, size)
<1>1. Exchanged(heap, r.heap, o.ptr, r.o.ptr)
  BY DEF Exchanged, BufTyped, Good
<1>2. \A j \in 1..o.cap :
        (j <= Len(written) /\ written[j] # Buf!Junk) => heap[o.ptr][j] = written[j]
  BY DEF Good, Contents, Objects
<1> QED
  BY <1>1, <1>2 DEF Outcome, Good

LEMMA OutcomeGrown ==
  ASSUME BufTyped, NEW o, NEW written, Good(o, written, heap), NEW size \in Nat,
         NEW n \in Nat, size <= n, n # 0, NEW q \in Blocks,
         q \notin DOMAIN heap \/ q = o.ptr, NEW r, r.ok = TRUE,
         r.heap = Buf!Put(Buf!free(o.ptr), q,
                          Buf!Resized(IF o.ptr = Buf!Null THEN <<>> ELSE heap[o.ptr], n)),
         r.o = [o EXCEPT !.ptr = q, !.cap = size, !.used = Buf!Min({o.used, size})]
  PROVE  Outcome(o, written, r, size)
<1> DEFINE old == IF o.ptr = Buf!Null THEN <<>> ELSE heap[o.ptr]
           c == Buf!Resized(old, n)
<1>1. /\ o \in Objects /\ written \in Contents /\ o.ptr \in DOMAIN heap \cup {Buf!Null}
      /\ DOMAIN heap \subseteq Blocks /\ Buf!Null \notin Blocks
      /\ \A b \in DOMAIN heap : heap[b] \in Contents
  BY NullIsNoBlock DEF Good, BufTyped
<1>2. old \in Contents /\ o.cap <= Len(old)
  <2>1. CASE o.ptr = Buf!Null
    BY <1>1, <2>1 DEF Good, Contents
  <2>2. CASE o.ptr # Buf!Null
    BY <1>1, <2>2 DEF Good
  <2> QED
    BY <2>1, <2>2
<1>3. \A j \in 1..Len(written) : written[j] # Buf!Junk => old[j] = written[j]
  <2>1. CASE o.ptr = Buf!Null
    <3>1. Len(written) = 0
      BY <1>1, <2>1 DEF Good, Objects, Contents
    <3> QED
      BY <3>1
  <2>2. CASE o.ptr # Buf!Null
    BY <2>2 DEF Good
  <2> QED
    BY <2>1, <2>2
<1> HIDE DEF old
<1>4. /\ c \in Contents /\ Len(c) = n
      /\ \A j \in 1..n : c[j] = IF j <= Len(old) THEN old[j] ELSE Buf!Junk
  BY <1>2, ResizedType
<1> HIDE DEF c
<1>5. r.heap = Buf!Put(Buf!free(o.ptr), q, c)
  BY DEF old, c
<1>6. /\ DOMAIN r.heap = (DOMAIN heap \ {o.ptr}) \cup {q} /\ r.heap[q] = c
      /\ r.heap = [b \in DOMAIN r.heap |-> r.heap[b]]
      /\ \A b \in DOMAIN heap \ {o.ptr, q} : r.heap[b] = heap[b]
  BY ONLY <1>5 DEF Buf!Put, Buf!free, Buf!Drop
<1>7. /\ r.o \in Objects /\ r.o.ptr = q /\ r.o.cap = size
      /\ r.o.used = IF o.used <= size THEN o.used ELSE size
  <2>1. o.used \in Nat
    BY <1>1 DEF Objects
  <2>2. Buf!Min({o.used, size}) = (IF o.used <= size THEN o.used ELSE size)
    BY <2>1, SmallerOfTwo
  <2> QED
    BY <1>1, <2>1, <2>2, ZenonT(60) DEF Objects
<1>8. Exchanged(heap, r.heap, o.ptr, q)
  <2>1. \A b : b \notin {o.ptr, q} => (b \in DOMAIN r.heap <=> b \in DOMAIN heap)
    BY <1>6
  <2> QED
    BY <1>1, <1>4, <1>6, <2>1 DEF Exchanged
<1>9. \A j \in 1..size :
        (j <= Len(written) /\ written[j] # Buf!Junk) => r.heap[q][j] = written[j]
  <2> SUFFICES ASSUME NEW j \in 1..size, j <= Len(written), written[j] # Buf!Junk
               PROVE  c[j] = written[j]
    BY <1>6
  <2>1. Len(written) = o.used /\ o.used <= o.cap /\ o.used \in Nat /\ o.cap \in Nat
    BY <1>1 DEF Good, Objects
  <2>2. j \in 1..n /\ j <= Len(old) /\ j \in 1..Len(written)
    BY <1>2, <2>1 DEF Contents
  <2> QED
    BY <1>3, <1>4, <2>2
<1> QED
  BY <1>4, <1>6, <1>7, <1>8, <1>9 DEF Outcome

LEMMA OutcomeReserve ==
  ASSUME BufTyped, NEW o, NEW written, Good(o, written, heap), NEW size \in Nat,
         NEW r \in Buf!internal_reserve(o, size)
  PROVE  Outcome(o, written, r, size)
<1> DEFINE n == Buf!Max({1, size})
           u == Buf!Unchanged(o)
<1>1. n \in Nat /\ size <= n /\ n # 0
  BY LargerOfOne
<1>2. u.ok = FALSE /\ u.o = o /\ u.heap = heap
  BY DEF Buf!Unchanged
<1>3. ASSUME r = [u EXCEPT !.heap = heap]
      PROVE  Outcome(o, written, r, size)
  <2>1. r.ok = FALSE /\ r.o = o /\ r.heap = heap
    BY <1>3 DEF Buf!Unchanged
  <2> QED
    BY <2>1, OutcomeSame
<1>4. CASE size > o.max
  <2>1. r = u
    BY <1>4 DEF Buf!internal_reserve
  <2> QED
    BY <1>2, <2>1, OutcomeSame
<1>5. CASE ~(size > o.max)
  <2>1. PICK e \in Buf!realloc(o.ptr, n) :
          r = IF e.ptr = Buf!Null THEN [u EXCEPT !.heap = e.heap] ELSE Buf!Grown(o, size, e)
    BY <1>5 DEF Buf!internal_reserve
  <2>2. \/ e = [ptr |-> Buf!Null, heap |-> heap]
        \/ \E q \in (Blocks \ DOMAIN heap) \cup ({o.ptr} \ {Buf!Null}) :
             e = [ptr |-> q,
                  heap |-> Buf!Put(Buf!free(o.ptr), q,
                             Buf!Resized(IF o.ptr = Buf!Null THEN <<>> ELSE heap[o.ptr], n))]
    <3> HIDE DEF n
    <3> QED
      BY <1>1 DEF Buf!realloc
  <2>3. CASE e = [ptr |-> Buf!Null, heap |-> heap]
    <3>1. r = [u EXCEPT !.heap = heap]
      BY <2>1, <2>3
    <3> QED
      BY <1>3, <3>1
  <2>4. ASSUME NEW q \in (Blocks \ DOMAIN heap) \cup ({o.ptr} \ {Buf!Null}),
               e = [ptr |-> q,
                    heap |-> Buf!Put(Buf!free(o.ptr), q,
                               Buf!Resized(IF o.ptr = Buf!Null THEN <<>> ELSE heap[o.ptr], n))]
        PROVE  Outcome(o, written, r, size)
    <3>1. q \in Blocks /\ q # Buf!Null /\ (q \notin DOMAIN heap \/ q = o.ptr)
      BY NullIsNoBlock, <2>4 DEF Good, Objects
    <3>2. r = Buf!Grown(o, size, e) /\ e.ptr = q
      BY <2>1, <2>4, <3>1
    <3>3. /\ r.ok = TRUE
          /\ r.o = [o EXCEPT !.ptr = q, !.cap = size, !.used = Buf!Min({o.used, size})]
          /\ r.heap = e.heap
      BY <3>2 DEF Buf!Grown
    <3> HIDE DEF n
    <3>4. r.heap = Buf!Put(Buf!free(o.ptr), q,
                     Buf!Resized(IF o.ptr = Buf!Null THEN <<>> ELSE heap[o.ptr], n))
      BY <2>4, <3>3
    <3> QED
      BY <1>1, <3>1, <3>3, <3>4, OutcomeGrown
  <2> QED
    BY <2>2, <2>3, <2>4
<1> QED
  BY <1>4, <1>5

LEMMA OutcomeOk ==
  ASSUME BufTyped, NEW o, NEW written, Good(o, written, heap), NEW size \in Nat,
         size <= o.cap, NEW r \in Buf!Ok(o)
  PROVE  Outcome(o, written, r, size)
<1>1. r.ok = TRUE /\ r.o = o /\ r.heap = heap
  BY DEF Buf!Ok
<1> QED
  BY <1>1, OutcomeSame

-----------------------------------------------------------------------------
(* The message buffer: its operations *)

(* An operation of x that may fail. *)
LEMMA BufApply ==
  ASSUME BufInv, NEW x \in DOMAIN obj, NEW r, NEW n, NEW c, Buf!Apply(x, r, n, c),
         \/ r.ok = FALSE /\ r.o = obj[x] /\ r.heap = heap
         \/ /\ r.ok = TRUE /\ Exchanged(heap, r.heap, obj[x].ptr, r.o.ptr)
            /\ r.o \in Objects /\ Good([r.o EXCEPT !.used = n], c, r.heap)
  PROVE  BufInv'
<1>1. /\ obj = [y \in DOMAIN obj |-> obj[y]]
      /\ shadow = [y \in DOMAIN obj |-> shadow[y]]
  BY DEF BufInv, BufTyped
<1>2. CASE r.ok = FALSE /\ r.o = obj[x] /\ r.heap = heap
  <2>1. obj' = [obj EXCEPT ![x] = r.o] /\ shadow' = shadow /\ heap' = heap
    BY <1>2 DEF Buf!Apply
  <2>2. obj' = obj
    BY <1>1, <1>2, <2>1
  <2> QED
    BY <2>1, <2>2 DEF BufInv, BufTyped, Buf!BlocksAreOwned
<1>3. CASE /\ r.ok = TRUE /\ Exchanged(heap, r.heap, obj[x].ptr, r.o.ptr)
           /\ r.o \in Objects /\ Good([r.o EXCEPT !.used = n], c, r.heap)
  <2> DEFINE o == [r.o EXCEPT !.used = n]
  <2>1. heap' = r.heap /\ obj' = [obj EXCEPT ![x] = o] /\ shadow' = [shadow EXCEPT ![x] = c]
    BY <1>3 DEF Buf!Apply
  <2>2. o.ptr = r.o.ptr
    BY <1>3 DEF Objects
  <2> HIDE DEF o
  <2>3. DOMAIN shadow = DOMAIN obj
    BY <1>1
  <2>4. obj' = Buf!Put(obj, x, o) /\ shadow' = Buf!Put(shadow, x, c)
    BY <1>1, <2>1, <2>3 DEF Buf!Put
  <2>5. Good(o, c, heap')
    BY <1>3, <2>1 DEF o
  <2>6. Exchanged(heap, heap', IF x \in DOMAIN obj THEN obj[x].ptr ELSE Buf!Null, o.ptr)
    BY <1>3, <2>1, <2>2
  <2> QED
    BY <2>4, <2>5, <2>6, BufUpdate
<1> QED
  BY <1>2, <1>3

LEMMA BufReserve ==
  ASSUME BufInv, NEW x \in DOMAIN obj, NEW size \in Nat, Buf!reserve(x, size)
  PROVE  BufInv'
<1>1. BufTyped /\ Good(obj[x], shadow[x], heap)
  BY DEF BufInv
<1>2. PICK r \in Buf!Reserved(obj[x], size) : Buf!Apply(x, r, r.o.used, shadow[x])
  BY DEF Buf!reserve
<1>3. /\ obj[x].cap \in Nat /\ obj[x].used \in Nat /\ obj[x].used <= obj[x].cap
      /\ shadow[x] \in Contents /\ Len(shadow[x]) = obj[x].used
  BY <1>1 DEF Good, Objects
<1>4. /\ Outcome(obj[x], shadow[x], r, size)
      /\ r.ok = TRUE => r.o.used = obj[x].used /\ obj[x].used <= r.o.cap
  <2>1. CASE size > obj[x].cap
    <3>1. Outcome(obj[x], shadow[x], r, size)
      BY <1>1, <1>2, <2>1, OutcomeReserve DEF Buf!Reserved
    <3>2. obj[x].used <= size
      BY <1>3, <2>1
    <3>3. r.ok = TRUE => r.o.used = obj[x].used /\ size <= r.o.cap /\ r.o.cap \in Nat
      BY <3>1, <3>2 DEF Outcome, Objects
    <3> QED
      BY <1>3, <3>1, <3>2, <3>3
  <2>2. CASE ~(size > obj[x].cap)
    <3>1. r \in Buf!Ok(obj[x]) /\ size <= obj[x].cap
      BY <1>2, <1>3, <2>2 DEF Buf!Reserved
    <3>2. Outcome(obj[x], shadow[x], r, size)
      BY <1>1, <3>1, OutcomeOk
    <3>3. r.o = obj[x]
      BY <3>1 DEF Buf!Ok
    <3> QED
      BY <1>3, <3>2, <3>3
  <2> QED
    BY <2>1, <2>2
<1>5. CASE r.ok = TRUE
  <2>1. Good([r.o EXCEPT !.used = r.o.used], shadow[x], r.heap)
    <3>1. /\ r.o \in Objects /\ r.o.used = Len(shadow[x]) /\ r.o.used <= r.o.cap
          /\ r.o.ptr \in DOMAIN r.heap \cup {Buf!Null}
          /\ r.o.cap <= (IF r.o.ptr \in DOMAIN r.heap THEN Len(r.heap[r.o.ptr]) ELSE 0)
      BY <1>3, <1>4, <1>5 DEF Outcome, Exchanged
    <3>2. [r.o EXCEPT !.used = r.o.used] = r.o
      BY <3>1 DEF Objects
    <3>3. \A j \in 1..Len(shadow[x]) :
            shadow[x][j] # Buf!Junk => r.heap[r.o.ptr][j] = shadow[x][j]
      <4>1. \A j \in 1..Len(shadow[x]) : j \in 1..r.o.cap /\ j <= Len(shadow[x])
        BY <1>3, <3>1 DEF Objects
      <4> QED
        BY <1>4, <1>5, <4>1 DEF Outcome
    <3> QED
      BY <1>3, <3>1, <3>2, <3>3 DEF Good
  <2> QED
    BY <1>2, <1>4, <1>5, <2>1, BufApply DEF Outcome
<1>6. CASE r.ok = FALSE
  BY <1>2, <1>4, <1>6, BufApply DEF Outcome
<1> QED
  BY <1>4, <1>5, <1>6 DEF Outcome

(* After an outcome with room for n bytes the buffer may be said to hold what it
   held, cut off or continued with bytes of any value. *)
LEMMA GoodResized ==
  ASSUME NEW o, NEW written, Good(o, written, heap), NEW n \in Nat, NEW r,
         Outcome(o, written, r, n), r.ok = TRUE
  PROVE  Good([r.o EXCEPT !.used = n], Buf!Resized(written, n), r.heap)
<1> DEFINE c == Buf!Resized(written, n)
           p == [r.o EXCEPT !.used = n]
<1>1. written \in Contents
  BY DEF Good
<1>2. c \in Contents /\ Len(c) = n
      /\ \A j \in 1..n : c[j] = IF j <= Len(written) THEN written[j] ELSE Buf!Junk
  BY <1>1, ResizedType
<1>3. /\ r.o \in Objects /\ n <= r.o.cap
      /\ r.o.ptr \in DOMAIN r.heap \cup {Buf!Null}
      /\ r.o.cap <= (IF r.o.ptr \in DOMAIN r.heap THEN Len(r.heap[r.o.ptr]) ELSE 0)
      /\ \A j \in 1..r.o.cap :
           (j <= Len(written) /\ written[j] # Buf!Junk) => r.heap[r.o.ptr][j] = written[j]
  BY DEF Outcome, Exchanged
<1>4. p \in Objects /\ p.ptr = r.o.ptr /\ p.cap = r.o.cap /\ p.used = n
  BY <1>3 DEF Objects
<1> HIDE DEF c, p
<1>5. \A j \in 1..n : c[j] # Buf!Junk => r.heap[p.ptr][j] = c[j]
  <2> SUFFICES ASSUME NEW j \in 1..n, c[j] # Buf!Junk
               PROVE  r.heap[r.o.ptr][j] = c[j]
    BY <1>4
  <2>1. j <= Len(written) /\ c[j] = written[j]
    BY <1>2
  <2>2. j \in 1..r.o.cap
    BY <1>3 DEF Objects
  <2> QED
    BY <1>3, <2>1, <2>2
<1>6. Good(p, c, r.heap)
  BY <1>2, <1>3, <1>4, <1>5 DEF Good
<1> QED
  BY <1>6 DEF c, p

LEMMA BufResize ==
  ASSUME BufInv, NEW x \in DOMAIN obj, NEW size \in Nat, Buf!resize(x, size) \/ Buf!append(x, size)
  PROVE  BufInv'
<1>1. BufTyped /\ Good(obj[x], shadow[x], heap)
  BY DEF BufInv
<1>2. obj[x].cap \in Nat /\ obj[x].used \in Nat
  BY <1>1 DEF Good, Objects
<1>3. \E n \in Nat : \E r : /\ Buf!Apply(x, r, n, Buf!Resized(shadow[x], n))
                            /\ Outcome(obj[x], shadow[x], r, n)
  <2>1. CASE Buf!resize(x, size)
    <3>1. PICK r \in IF size # obj[x].cap THEN Buf!internal_reserve(obj[x], size)
                     ELSE Buf!Ok(obj[x]) :
            Buf!Apply(x, r, size, Buf!Resized(shadow[x], size))
      BY <2>1 DEF Buf!resize
    <3>2. Outcome(obj[x], shadow[x], r, size)
      <4>1. CASE size # obj[x].cap
        BY <1>1, <3>1, <4>1, OutcomeReserve
      <4>2. CASE size = obj[x].cap
        BY <1>1, <1>2, <3>1, <4>2, OutcomeOk
      <4> QED
        BY <4>1, <4>2
    <3> QED
      BY <3>1, <3>2
  <2>2. CASE Buf!append(x, size)
    <3> DEFINE n == obj[x].used + size
    <3>0. n \in Nat
      BY <1>2
    <3>1. PICK r \in IF n > obj[x].cap THEN Buf!internal_reserve(obj[x], n) ELSE Buf!Ok(obj[x]) :
            Buf!Apply(x, r, n, Buf!Resized(shadow[x], n))
      BY <2>2 DEF Buf!append
    <3> HIDE DEF n
    <3>2. Outcome(obj[x], shadow[x], r, n)
      <4>1. CASE n > obj[x].cap
        BY <1>1, <3>0, <3>1, <4>1, OutcomeReserve
      <4>2. CASE ~(n > obj[x].cap)
        BY <1>1, <1>2, <3>0, <3>1, <4>2, OutcomeOk
      <4> QED
        BY <4>1, <4>2
    <3> QED
      BY <3>0, <3>1, <3>2
  <2> QED
    BY <2>1, <2>2
<1>4. PICK n \in Nat : \E r : /\ Buf!Apply(x, r, n, Buf!Resized(shadow[x], n))
                              /\ Outcome(obj[x], shadow[x], r, n)
  BY <1>3
<1>r. PICK r : Buf!Apply(x, r, n, Buf!Resized(shadow[x], n)) /\ Outcome(obj[x], shadow[x], r, n)
  BY <1>4
<1>5. CASE r.ok = TRUE
  <2>1. Good([r.o EXCEPT !.used = n], Buf!Resized(shadow[x], n), r.heap)
    BY <1>1, <1>r, <1>5, GoodResized
  <2> QED
    BY <1>r, <1>5, <2>1, BufApply DEF Outcome
<1>6. CASE r.ok = FALSE
  BY <1>r, <1>6, BufApply DEF Outcome
<1> QED
  BY <1>r, <1>5, <1>6 DEF Outcome

LEMMA BufAppendData ==
  ASSUME BufInv, NEW x \in DOMAIN obj, NEW l \in Nat, NEW d \in [1..l -> Values],
         Buf!append_data(x, d)
  PROVE  BufInv'
<1> DEFINE n == obj[x].used + Len(d)
           w == shadow[x]
           c == w \o d
<1>1. BufTyped /\ Good(obj[x], w, heap)
  BY DEF BufInv
<1>2. d \in Contents /\ Len(d) = l
  BY DEF Contents
<1>3. /\ obj[x].cap \in Nat /\ obj[x].used \in Nat /\ n \in Nat /\ n = obj[x].used + l
      /\ w \in Contents /\ Len(w) = obj[x].used
  BY <1>1, <1>2 DEF Good, Objects
<1>4. PICK r \in IF n > obj[x].cap THEN Buf!internal_reserve(obj[x], n) ELSE Buf!Ok(obj[x]) :
        Buf!Apply(x, Buf!Copied(r, obj[x].used, d), n, c)
  BY DEF Buf!append_data
<1> HIDE DEF n
<1>5. Outcome(obj[x], w, r, n)
  <2>1. CASE n > obj[x].cap
    BY <1>1, <1>3, <1>4, <2>1, OutcomeReserve
  <2>2. CASE ~(n > obj[x].cap)
    BY <1>1, <1>3, <1>4, <2>2, OutcomeOk
  <2> QED
    BY <2>1, <2>2
<1>6. /\ c \in Contents /\ Len(c) = n
      /\ \A j \in 1..n : c[j] = IF j <= Len(w) THEN w[j] ELSE d[j - Len(w)]
  <2>1. w \in Seq(Values \cup {Buf!Junk}) /\ d \in Seq(Values \cup {Buf!Junk})
        /\ n = Len(w) + Len(d)
    BY <1>2, <1>3 DEF Contents, n
  <2>2. c \in Seq(Values \cup {Buf!Junk}) /\ Len(c) = Len(w) + Len(d)
        /\ \A j \in 1..(Len(w) + Len(d)) : c[j] = IF j <= Len(w) THEN w[j] ELSE d[j - Len(w)]
    BY ONLY <2>1
  <2> QED
    BY <2>1, <2>2 DEF Contents
<1> HIDE DEF c, w
<1>7. CASE r.ok = FALSE
  <2>1. Buf!Copied(r, obj[x].used, d) = r
    BY <1>7 DEF Buf!Copied
  <2> QED
    BY <1>4, <1>5, <1>7, <2>1, BufApply DEF Outcome
<1>8. CASE r.ok = TRUE
  <2> DEFINE q == r.o.ptr
             p == [r.o EXCEPT !.used = n]
             copied == Buf!Copied(r, obj[x].used, d)
             h == copied.heap
  <2>1. /\ r.o \in Objects /\ n <= r.o.cap
        /\ q \in DOMAIN r.heap \cup {Buf!Null}
        /\ r.o.cap <= (IF q \in DOMAIN r.heap THEN Len(r.heap[q]) ELSE 0)
        /\ \A j \in 1..r.o.cap :
             (j <= Len(w) /\ w[j] # Buf!Junk) => r.heap[q][j] = w[j]
        /\ Exchanged(heap, r.heap, obj[x].ptr, q)
    BY <1>5, <1>8 DEF Outcome, Exchanged
  <2>2. p \in Objects /\ p.ptr = q /\ p.cap = r.o.cap /\ p.used = n
    BY <1>3, <2>1 DEF Objects
  <2>3. CASE d = <<>>
    <3>1. copied = r /\ l = 0
      BY <1>2, <2>3 DEF Buf!Copied
    <3> HIDE DEF copied, p
    <3>2. n = Len(w)
      BY <1>3, <3>1
    <3>3. \A j \in 1..n : c[j] # Buf!Junk => r.heap[q][j] = c[j]
      <4> SUFFICES ASSUME NEW j \in 1..n, c[j] # Buf!Junk
                   PROVE  r.heap[q][j] = c[j]
        OBVIOUS
      <4>1. j <= Len(w) /\ j \in 1..r.o.cap
        BY <1>3, <2>1, <3>2 DEF Objects
      <4>2. c[j] = w[j]
        BY <1>6, <4>1
      <4> QED
        BY <2>1, <4>1, <4>2
    <3>4. Good(p, c, r.heap)
      BY <1>6, <2>1, <2>2, <3>3 DEF Good
    <3>5. Buf!Apply(x, r, n, c)
      BY <1>4, <3>1 DEF copied
    <3> QED
      BY <1>8, <2>1, <3>4, <3>5, BufApply DEF p
  <2>4. CASE d # <<>>
    <3> DEFINE bytes == [j \in 1..Len(r.heap[q]) |->
                           IF j \in obj[x].used + 1..obj[x].used + Len(d)
                           THEN d[j - obj[x].used] ELSE r.heap[q][j]]
    <3>1. l # 0 /\ n # 0
      BY <1>2, <1>3, <2>4
    <3>2. q \in DOMAIN r.heap
      BY <1>3, <2>1, <3>1 DEF Objects
    <3>3. r.heap[q] \in Contents /\ n <= Len(r.heap[q])
      BY <1>3, <2>1, <3>2, SMTT(40) DEF Exchanged, Objects, Contents
    <3>4. copied = [r EXCEPT !.heap = Buf!Put(@, q, bytes)]
      BY <1>8, <2>4 DEF Buf!Copied
    <3>5. bytes \in Contents /\ Len(bytes) = Len(r.heap[q])
      <4> DEFINE m == Len(r.heap[q])
                 V == Values \cup {Buf!Junk}
      <4>1. m \in Nat /\ \A j \in 1..m : r.heap[q][j] \in V
        BY <3>3 DEF Contents
      <4>2. \A j \in 1..m : j \in obj[x].used + 1..obj[x].used + Len(d) =>
              d[j - obj[x].used] \in V
        BY <1>2, <1>3
      <4> HIDE DEF m, V
      <4>3. bytes \in [1..m -> V]
        BY <4>1, <4>2 DEF m
      <4> QED
        BY <4>1, <4>3 DEF Contents, m, V
    <3>6. \A j \in 1..n : c[j] # Buf!Junk => bytes[j] = c[j]
      <4> SUFFICES ASSUME NEW j \in 1..n, c[j] # Buf!Junk
                   PROVE  bytes[j] = c[j]
        OBVIOUS
      <4>0. j \in 1..Len(r.heap[q]) /\ j \in 1..r.o.cap
        BY <1>3, <2>1, <3>3, SMTT(40) DEF Objects, Contents
      <4>1. CASE j <= Len(w)
        <5>1. c[j] = w[j] /\ r.heap[q][j] = w[j]
          BY <1>6, <2>1, <4>0, <4>1
        <5>2. j \notin obj[x].used + 1..obj[x].used + Len(d)
          BY <1>2, <1>3, <4>1
        <5> QED
          BY <4>0, <5>1, <5>2
      <4>2. CASE ~(j <= Len(w))
        <5>1. c[j] = d[j - Len(w)]
          BY <1>6, <4>2
        <5>2. j \in obj[x].used + 1..obj[x].used + Len(d)
          BY <1>2, <1>3, <4>2
        <5> QED
          BY <1>3, <4>0, <5>1, <5>2
      <4> QED
        BY <4>1, <4>2
    <3> HIDE DEF bytes, copied, p, q
    <3>7. copied.ok = r.ok /\ copied.o = r.o /\ copied.heap = Buf!Put(r.heap, q, bytes)
      <4>1. \/ r \in Buf!internal_reserve(obj[x], n)
            \/ r = [ok |-> TRUE, o |-> obj[x], heap |-> heap]
        BY <1>4 DEF Buf!Ok
      <4>2. DOMAIN r = {"ok", "o", "heap"}
        <5>1. CASE r = [ok |-> TRUE, o |-> obj[x], heap |-> heap]
          BY <5>1
        <5>2. CASE r \in Buf!internal_reserve(obj[x], n)
          <6>1. \/ r = Buf!Unchanged(obj[x])
                \/ \E e : r = [Buf!Unchanged(obj[x]) EXCEPT !.heap = e]
                \/ \E e : r = Buf!Grown(obj[x], n, e)
            BY <5>2 DEF Buf!internal_reserve
          <6> QED
            BY <6>1 DEF Buf!Unchanged, Buf!Grown
        <5> QED
          BY <4>1, <5>1, <5>2
      <4> QED
        BY <3>4, <4>2
    <3>8. /\ DOMAIN h = DOMAIN r.heap /\ h = [b \in DOMAIN h |-> h[b]] /\ h[q] = bytes
          /\ \A b \in DOMAIN h \ {q} : h[b] = r.heap[b]
      BY <3>2, <3>7 DEF Buf!Put
    <3> HIDE DEF h
    <3>9. Exchanged(heap, h, obj[x].ptr, q)
      BY <2>1, <3>5, <3>8 DEF Exchanged
    <3>10. Good(p, c, h)
      BY <1>6, <2>1, <2>2, <3>2, <3>5, <3>6, <3>8 DEF Good
    <3>11. /\ copied.ok = TRUE /\ copied.o = r.o /\ copied.heap = h
           /\ Buf!Apply(x, copied, n, c)
      BY <1>4, <1>8, <3>7 DEF copied, h
    <3> QED
      BY <2>1, <3>9, <3>10, <3>11, BufApply DEF p, q
  <2> QED
    BY <2>3, <2>4
<1> QED
  BY <1>5, <1>7, <1>8 DEF Outcome

LEMMA BufCreate ==
  ASSUME BufInv, NEW x, NEW size \in Nat, NEW max \in Nat, Buf!create(x, size, max)
  PROVE  BufInv'
<1> DEFINE o == [max |-> max, cap |-> 0, used |-> 0, ptr |-> Buf!Null]
<1>1. BufTyped
  BY DEF BufInv
<1>2. o \in Objects /\ o.cap = 0 /\ o.used = 0 /\ o.ptr = Buf!Null
  BY DEF Objects
<1>3. PICK r \in Buf!Reserved(o, size) :
        /\ r.ok /\ obj' = Buf!Put(obj, x, r.o) /\ heap' = r.heap
        /\ shadow' = Buf!Put(shadow, x, <<>>)
  BY DEF Buf!create
<1>4. x \notin DOMAIN obj
  BY DEF Buf!create
<1>5. <<>> \in Contents /\ Len(<<>>) = 0
  BY DEF Contents
<1> HIDE DEF o
<1>6. Good(o, <<>>, heap)
  BY <1>1, <1>2, <1>5, NullIsNoBlock DEF Good, BufTyped
<1>7. Outcome(o, <<>>, r, size)
  <2>1. CASE size > o.cap
    BY <1>1, <1>3, <1>6, <2>1, OutcomeReserve DEF Buf!Reserved
  <2>2. CASE ~(size > o.cap)
    BY <1>1, <1>2, <1>3, <1>6, <2>2, OutcomeOk DEF Buf!Reserved
  <2> QED
    BY <2>1, <2>2
<1>8. /\ r.ok = TRUE /\ r.o \in Objects /\ r.o.used = 0
      /\ Exchanged(heap, r.heap, Buf!Null, r.o.ptr)
      /\ r.o.cap <= IF r.o.ptr \in DOMAIN r.heap THEN Len(r.heap[r.o.ptr]) ELSE 0
  BY <1>2, <1>3, <1>7 DEF Outcome
<1>9. Good(r.o, <<>>, r.heap)
  BY <1>5, <1>8 DEF Good, Objects, Exchanged
<1> QED
  BY <1>3, <1>4, <1>8, <1>9, BufUpdate

(* An operation of x that leaves the heap, but for bytes of its own block,
   as it is. *)
LEMMA BufInPlace ==
  ASSUME BufInv, NEW x \in DOMAIN obj, NEW o, NEW written,
         obj' = [obj EXCEPT ![x] = o], shadow' = [shadow EXCEPT ![x] = written],
         Exchanged(heap, heap', obj[x].ptr, o.ptr), Good(o, written, heap')
  PROVE  BufInv'
<1>1. /\ obj = [y \in DOMAIN obj |-> obj[y]]
      /\ shadow = [y \in DOMAIN obj |-> shadow[y]]
      /\ DOMAIN shadow = DOMAIN obj
  BY DEF BufInv, BufTyped
<1>2. obj' = Buf!Put(obj, x, o) /\ shadow' = Buf!Put(shadow, x, written)
  BY <1>1 DEF Buf!Put
<1>3. Exchanged(heap, heap', IF x \in DOMAIN obj THEN obj[x].ptr ELSE Buf!Null, o.ptr)
  OBVIOUS
<1> QED
  BY <1>2, <1>3, BufUpdate

LEMMA UnchangedHeap ==
  ASSUME BufTyped, NEW p \in DOMAIN heap \cup {Buf!Null}
  PROVE  Exchanged(heap, heap, p, p)
BY DEF Exchanged, BufTyped

LEMMA FreedHeap ==
  ASSUME BufTyped, NEW p \in DOMAIN heap \cup {Buf!Null}
  PROVE  /\ Exchanged(heap, Buf!free(p), p, Buf!Null)
         /\ DOMAIN Buf!free(p) = DOMAIN heap \ {p}
         /\ Buf!free(p) = [b \in DOMAIN heap \ {p} |-> heap[b]]
BY NullIsNoBlock DEF Exchanged, BufTyped, Buf!free, Buf!Drop

LEMMA EmptiedIsGood ==
  ASSUME NEW o \in Objects, NEW memory
  PROVE  Good(Buf!Emptied(o), <<>>, memory) /\ Buf!Emptied(o).ptr = Buf!Null
<1> DEFINE e == Buf!Emptied(o)
<1>1. e \in Objects /\ e.ptr = Buf!Null /\ e.cap = 0 /\ e.used = 0
  BY DEF Objects, Buf!Emptied
<1>2. <<>> \in Contents /\ Len(<<>>) = 0
  BY DEF Contents
<1> HIDE DEF e
<1>3. 0 <= IF e.ptr \in DOMAIN memory THEN Len(memory[e.ptr]) ELSE 0
  <2>1. e.ptr \in DOMAIN memory => memory[e.ptr] = memory[Buf!Null]
    BY <1>1
  <2> QED
    BY <1>1, <2>1
<1>4. Good(e, <<>>, memory)
  BY <1>1, <1>2, <1>3 DEF Good
<1> QED
  BY <1>1, <1>4 DEF e

LEMMA BufSimple ==
  ASSUME BufInv, NEW x \in DOMAIN obj,
         \/ Buf!clear(x) \/ Buf!reset(x)
         \/ \E max \in Nat : Buf!set_max_size(x, max)
         \/ \E n \in Nat : Buf!discard_end(x, n)
  PROVE  BufInv'
<1> DEFINE o == obj[x]
           w == shadow[x]
<1>1. /\ BufTyped /\ Good(o, w, heap) /\ o \in Objects /\ w \in Contents
      /\ o.ptr \in DOMAIN heap \cup {Buf!Null}
  BY DEF BufInv, Good
<1>2. /\ obj = [y \in DOMAIN obj |-> obj[y]]
      /\ shadow = [y \in DOMAIN obj |-> shadow[y]]
      /\ DOMAIN shadow = DOMAIN obj
  BY <1>1 DEF BufTyped
<1>3. <<>> \in Contents /\ Len(<<>>) = 0
  BY DEF Contents
<1>4. Exchanged(heap, heap, o.ptr, o.ptr)
  BY <1>1, UnchangedHeap
<1>5. CASE Buf!clear(x)
  <2> DEFINE e == [o EXCEPT !.used = 0]
  <2>1. /\ obj' = [obj EXCEPT ![x] = e] /\ shadow' = [shadow EXCEPT ![x] = <<>>]
        /\ heap' = heap
    BY <1>5 DEF Buf!clear
  <2>2. e \in Objects /\ e.ptr = o.ptr /\ e.cap = o.cap /\ e.used = 0
    BY <1>1 DEF Objects
  <2> HIDE DEF e
  <2>3. Good(e, <<>>, heap)
    BY <1>1, <1>3, <2>2 DEF Good, Objects
  <2> QED
    BY <1>4, <2>1, <2>2, <2>3, BufInPlace
<1>6. CASE Buf!reset(x)
  <2> DEFINE e == Buf!Emptied(o)
  <2>1. /\ obj' = [obj EXCEPT ![x] = e] /\ shadow' = [shadow EXCEPT ![x] = <<>>]
        /\ heap' = Buf!free(o.ptr)
    BY <1>6 DEF Buf!reset
  <2>2. Good(e, <<>>, heap') /\ e.ptr = Buf!Null
    BY <1>1, EmptiedIsGood
  <2> HIDE DEF e
  <2>3. Exchanged(heap, heap', o.ptr, e.ptr)
    BY <1>1, <2>1, <2>2, FreedHeap
  <2> QED
    BY <2>1, <2>2, <2>3, BufInPlace
<1>7. ASSUME NEW max \in Nat, Buf!set_max_size(x, max)
      PROVE  BufInv'
  <2> DEFINE e == [o EXCEPT !.max = max]
  <2>1. obj' = [obj EXCEPT ![x] = e] /\ shadow' = [shadow EXCEPT ![x] = w] /\ heap' = heap
    <3>1. obj' = [obj EXCEPT ![x] = e] /\ shadow' = shadow /\ heap' = heap
      BY <1>7 DEF Buf!set_max_size
    <3> QED
      BY <1>2, <3>1
  <2>2. e \in Objects /\ e.ptr = o.ptr /\ e.cap = o.cap /\ e.used = o.used
    BY <1>1 DEF Objects
  <2> HIDE DEF e
  <2>3. Good(e, w, heap)
    BY <1>1, <2>2 DEF Good
  <2> QED
    BY <1>4, <2>1, <2>2, <2>3, BufInPlace
<1>8. ASSUME NEW n \in Nat, Buf!discard_end(x, n)
      PROVE  BufInv'
  <2> DEFINE e == [o EXCEPT !.used = @ - n]
             c == SubSeq(w, 1, Len(w) - n)
  <2>1. /\ obj' = [obj EXCEPT ![x] = e] /\ shadow' = [shadow EXCEPT ![x] = c]
        /\ heap' = heap /\ n <= o.used
    BY <1>2, <1>8 DEF Buf!discard_end
  <2>2. e \in Objects /\ e.ptr = o.ptr /\ e.cap = o.cap /\ e.used = o.used - n
    BY <1>1, <2>1 DEF Objects
  <2>3. /\ c \in Contents /\ Len(c) = o.used - n
        /\ \A j \in 1..Len(c) : c[j] = w[j] /\ j \in 1..Len(w)
    <3>1. Len(w) = o.used /\ o.used \in Nat
      BY <1>1 DEF Good, Objects
    <3> DEFINE m == Len(w) - n
               V == Values \cup {Buf!Junk}
    <3>2. m \in 0..Len(w) /\ m = o.used - n
      BY <2>1, <3>1
    <3>3. w \in Seq(V) /\ Len(w) \in Nat
      BY <1>1 DEF Contents
    <3>4. c = SubSeq(w, 1, m)
      OBVIOUS
    <3> HIDE DEF m, V, c
    <3>5. /\ SubSeq(w, 1, m) \in Seq(V) /\ Len(SubSeq(w, 1, m)) = m
          /\ \A j \in 1..m : SubSeq(w, 1, m)[j] = w[j]
      <4> HIDE DEF w
      <4> QED
        BY <3>2, <3>3
    <3> QED
      BY <3>2, <3>3, <3>4, <3>5 DEF Contents, V
  <2> HIDE DEF e, c
  <2>4. e.used <= e.cap
    BY <1>1, <2>1, <2>2 DEF Good, Objects
  <2>5. Good(e, c, heap)
    BY <1>1, <2>2, <2>3, <2>4 DEF Good
  <2> QED
    BY <1>4, <2>1, <2>2, <2>5, BufInPlace
<1> QED
  BY <1>5, <1>6, <1>7, <1>8

LEMMA BufAt ==
  ASSUME BufInv, NEW x \in DOMAIN obj, NEW pos \in Nat, NEW v \in Values, Buf!at(x, pos, v)
  PROVE  BufInv'
<1> DEFINE o == obj[x]
           w == shadow[x]
           p == o.ptr
           bytes == [heap[p] EXCEPT ![pos + 1] = v]
           c == [w EXCEPT ![pos + 1] = v]
<1>1. /\ BufTyped /\ Good(o, w, heap) /\ o \in Objects /\ w \in Contents
      /\ o.ptr \in DOMAIN heap \cup {Buf!Null}
  BY DEF BufInv, Good
<1>2. /\ obj = [y \in DOMAIN obj |-> obj[y]]
      /\ shadow = [y \in DOMAIN obj |-> shadow[y]]
      /\ heap = [b \in DOMAIN heap |-> heap[b]]
      /\ DOMAIN shadow = DOMAIN obj
  BY <1>1 DEF BufTyped
<1>3. pos < o.used /\ obj' = obj /\ heap' = [heap EXCEPT ![p] = bytes]
      /\ shadow' = [shadow EXCEPT ![x] = c]
  BY DEF Buf!at
<1>4. /\ p \in DOMAIN heap /\ heap[p] \in Contents
      /\ pos + 1 \in 1..Len(heap[p]) /\ pos + 1 \in 1..Len(w)
  <2>1. o.used \in Nat /\ o.cap \in Nat /\ o.cap # 0 /\ pos + 1 <= o.cap
    BY <1>1, <1>3 DEF Good, Objects
  <2>2. p \in DOMAIN heap
    BY <1>1, <2>1 DEF Good
  <2>3. heap[p] \in Contents
    BY <1>1, <2>2 DEF BufTyped
  <2> QED
    BY <1>1, <1>3, <2>1, <2>2, <2>3 DEF Good, Contents
<1>5. /\ bytes \in Contents /\ Len(bytes) = Len(heap[p])
      /\ \A j \in 1..Len(heap[p]) : bytes[j] = IF j = pos + 1 THEN v ELSE heap[p][j]
  BY <1>4 DEF Contents
<1>6. /\ c \in Contents /\ Len(c) = Len(w)
      /\ \A j \in 1..Len(w) : c[j] = IF j = pos + 1 THEN v ELSE w[j]
  BY <1>1, <1>4 DEF Contents
<1> HIDE DEF bytes, c
<1>7. /\ DOMAIN heap' = DOMAIN heap /\ heap'[p] = bytes
      /\ heap' = [b \in DOMAIN heap' |-> heap'[b]]
      /\ \A b \in DOMAIN heap \ {p} : heap'[b] = heap[b]
  BY <1>2, <1>3, <1>4
<1>8. Exchanged(heap, heap', p, p)
  BY <1>1, <1>4, <1>5, <1>7 DEF Exchanged, BufTyped
<1>9. Good(o, c, heap')
  <2>1. Len(w) <= Len(heap[p]) /\ Len(w) = o.used
    BY <1>1, <1>4 DEF Good, Objects, Contents
  <2>2. \A j \in 1..Len(c) : c[j] # Buf!Junk => heap'[p][j] = c[j]
    <3> SUFFICES ASSUME NEW j \in 1..Len(w), c[j] # Buf!Junk
                 PROVE  bytes[j] = c[j]
      BY <1>6, <1>7
    <3>1. j \in 1..Len(heap[p])
      BY <1>1, <1>4, <2>1 DEF Contents
    <3>2. w[j] # Buf!Junk => heap[p][j] = w[j]
      BY <1>1 DEF Good
    <3> QED
      BY <1>5, <1>6, <3>1, <3>2
  <2> QED
    BY <1>1, <1>4, <1>5, <1>6, <1>7, <2>1, <2>2 DEF Good
<1>10. obj' = [obj EXCEPT ![x] = o]
  BY <1>2, <1>3
<1> QED
  BY <1>3, <1>8, <1>9, <1>10, BufInPlace

LEMMA BufDestroy ==
  ASSUME BufInv, NEW x \in DOMAIN obj, Buf!Destroy(x)
  PROVE  BufInv'
<1> DEFINE p == obj[x].ptr
<1>1. BufTyped /\ Buf!BlocksAreOwned /\ \A y \in DOMAIN obj : Good(obj[y], shadow[y], heap)
  BY DEF BufInv
<1>2. /\ obj' = [y \in DOMAIN obj \ {x} |-> obj[y]]
      /\ shadow' = [y \in DOMAIN obj \ {x} |-> shadow[y]]
      /\ heap' = Buf!free(p)
  <2>1. DOMAIN shadow = DOMAIN obj
    BY <1>1 DEF BufTyped
  <2> QED
    BY <2>1 DEF Buf!Destroy, Buf!Drop
<1>3. p \in DOMAIN heap \cup {Buf!Null}
  BY <1>1 DEF Buf!BlocksAreOwned
<1>4. heap' = [b \in DOMAIN heap \ {p} |-> heap[b]]
  BY <1>1, <1>2, <1>3, FreedHeap
<1>5. BufTyped'
  BY <1>1, <1>2, <1>4 DEF BufTyped
<1>6. \A y \in DOMAIN obj \ {x} : obj[y].ptr = Buf!Null \/ obj[y].ptr # p
  BY <1>1 DEF Buf!BlocksAreOwned
<1>7. Buf!Null \notin DOMAIN heap
  BY <1>1, NullIsNoBlock DEF BufTyped
<1>8. ASSUME NEW y \in DOMAIN obj \ {x}
      PROVE  Good(obj[y], shadow[y], heap')
  <2>1. Good(obj[y], shadow[y], heap)
    BY <1>1
  <2> QED
    BY <1>4, <1>6, <1>7, <2>1, GoodElsewhere
<1>9. Buf!BlocksAreOwned'
  BY <1>1, <1>2, <1>4, <1>6 DEF Buf!BlocksAreOwned
<1> QED
  BY <1>2, <1>5, <1>8, <1>9 DEF BufInv

(* A move from y to x, which may be a new object: what x owned is freed. *)
LEMMA BufMove ==
  ASSUME BufInv, NEW x, NEW y \in DOMAIN obj, x # y,
         Buf!MoveConstruct(x, y) \/ (x \in DOMAIN obj /\ Buf!MoveAssign(x, y))
  PROVE  BufInv'
<1> DEFINE p == IF x \in DOMAIN obj THEN obj[x].ptr ELSE Buf!Null
           e == Buf!Emptied(obj[y])
<1>1. BufTyped /\ Buf!BlocksAreOwned /\ \A z \in DOMAIN obj : Good(obj[z], shadow[z], heap)
  BY DEF BufInv
<1>2. /\ obj = [z \in DOMAIN obj |-> obj[z]]
      /\ shadow = [z \in DOMAIN obj |-> shadow[z]] /\ DOMAIN shadow = DOMAIN obj
      /\ Buf!Null \notin DOMAIN heap
      /\ \A z \in DOMAIN obj : obj[z].ptr \in DOMAIN heap \cup {Buf!Null}
      /\ \A z, u \in DOMAIN obj : (obj[z].ptr = obj[u].ptr /\ obj[z].ptr # Buf!Null) => z = u
      /\ \A b \in DOMAIN heap : \E z \in DOMAIN obj : obj[z].ptr = b
  BY <1>1, NullIsNoBlock DEF BufTyped, Buf!BlocksAreOwned
<1>3. p \in DOMAIN heap \cup {Buf!Null}
  BY <1>2
<1>4. /\ DOMAIN obj' = DOMAIN obj \cup {x} /\ DOMAIN shadow' = DOMAIN obj'
      /\ obj' = [z \in DOMAIN obj' |-> obj'[z]]
      /\ shadow' = [z \in DOMAIN obj' |-> shadow'[z]]
      /\ obj'[x] = obj[y] /\ shadow'[x] = shadow[y] /\ obj'[y] = e /\ shadow'[y] = <<>>
      /\ \A z \in DOMAIN obj \ {x, y} : obj'[z] = obj[z] /\ shadow'[z] = shadow[z]
  <2>1. CASE Buf!MoveConstruct(x, y)
    <3>1. /\ obj' = Buf!Put([obj EXCEPT ![y] = Buf!Emptied(@)], x, obj[y])
          /\ shadow' = Buf!Put([shadow EXCEPT ![y] = <<>>], x, shadow[y])
      BY <2>1 DEF Buf!MoveConstruct
    <3>2. /\ obj' = [z \in DOMAIN obj \cup {x} |->
                        IF z = x THEN obj[y] ELSE IF z = y THEN e ELSE obj[z]]
          /\ shadow' = [z \in DOMAIN obj \cup {x} |->
                           IF z = x THEN shadow[y] ELSE IF z = y THEN <<>> ELSE shadow[z]]
      <4>1. /\ DOMAIN [obj EXCEPT ![y] = Buf!Emptied(@)] = DOMAIN obj
            /\ DOMAIN [shadow EXCEPT ![y] = <<>>] = DOMAIN obj
            /\ \A z \in DOMAIN obj :
                 /\ [obj EXCEPT ![y] = Buf!Emptied(@)][z] = IF z = y THEN e ELSE obj[z]
                 /\ [shadow EXCEPT ![y] = <<>>][z] = IF z = y THEN <<>> ELSE shadow[z]
        BY <1>2
      <4> HIDE DEF e
      <4> QED
        BY <3>1, <4>1, <1>2, SMTT(40) DEF Buf!Put
    <3> HIDE DEF e, p
    <3> QED
      BY <3>2
  <2>2. CASE x \in DOMAIN obj /\ Buf!MoveAssign(x, y)
    <3>1. /\ obj' = [obj EXCEPT ![x] = obj[y], ![y] = Buf!Emptied(@)]
          /\ shadow' = [shadow EXCEPT ![x] = shadow[y], ![y] = <<>>]
      BY <2>2 DEF Buf!MoveAssign
    <3>2. obj' = [z \in DOMAIN obj |-> IF z = x THEN obj[y] ELSE IF z = y THEN e ELSE obj[z]]
      <4>1. obj' = [[obj EXCEPT ![x] = obj[y]] EXCEPT ![y] = e]
        BY <3>1
      <4> HIDE DEF e
      <4> QED
        BY <2>2, <4>1
    <3>3. shadow' = [z \in DOMAIN obj |->
                       IF z = x THEN shadow[y] ELSE IF z = y THEN <<>> ELSE shadow[z]]
      <4>1. DOMAIN shadow = DOMAIN obj
        BY <1>2
      <4> QED
        BY <2>2, <3>1, <4>1
    <3>4. DOMAIN obj \cup {x} = DOMAIN obj
      BY <2>2
    <3> HIDE DEF e, p
    <3> QED
      BY <1>2, <3>2, <3>3, <3>4
  <2> QED
    BY <2>1, <2>2
<1>5. heap' = [b \in DOMAIN heap \ {p} |-> heap[b]]
  <2>1. CASE Buf!MoveConstruct(x, y)
    <3>1. heap' = heap /\ p = Buf!Null
      BY <2>1 DEF Buf!MoveConstruct
    <3> HIDE DEF p
    <3>2. /\ heap = [b \in DOMAIN heap |-> heap[b]]
          /\ DOMAIN heap \ {p} = DOMAIN heap
      <4>1. heap = [b \in DOMAIN heap |-> heap[b]]
        BY <1>1 DEF BufTyped
      <4>2. Buf!Null \notin DOMAIN heap
        BY <1>2
      <4> QED
        BY <3>1, <4>1, <4>2
    <3>3. [b \in DOMAIN heap \ {p} |-> heap[b]] = heap
      BY <3>2
    <3> QED
      BY <3>1, <3>3
  <2>2. CASE x \in DOMAIN obj /\ Buf!MoveAssign(x, y)
    <3>1. heap' = Buf!free(p)
      BY <2>2 DEF Buf!MoveAssign
    <3> QED
      BY <1>1, <1>3, <3>1, FreedHeap
  <2> QED
    BY <2>1, <2>2
<1>6. e.ptr = Buf!Null /\ Good(e, <<>>, heap')
  BY <1>1, EmptiedIsGood DEF Good
<1> HIDE DEF e
<1>7. BufTyped'
  BY <1>1, <1>4, <1>5 DEF BufTyped
<1>8. \A z \in DOMAIN obj \ {x} : obj[z].ptr = Buf!Null \/ obj[z].ptr # p
  BY <1>2
<1>9. \A z \in DOMAIN obj \ {x} : Good(obj[z], shadow[z], heap')
  <2> SUFFICES ASSUME NEW z \in DOMAIN obj \ {x}
               PROVE  Good(obj[z], shadow[z], heap')
    OBVIOUS
  <2>1. Good(obj[z], shadow[z], heap)
    BY <1>1
  <2> HIDE DEF p
  <2>2. /\ obj[z].ptr \in DOMAIN heap <=> obj[z].ptr \in DOMAIN heap'
        /\ obj[z].ptr \in DOMAIN heap => heap'[obj[z].ptr] = heap[obj[z].ptr]
    BY <1>2, <1>5, <1>8
  <2> QED
    BY <2>1, <2>2, GoodElsewhere
<1>10. \A z \in DOMAIN obj' : Good(obj'[z], shadow'[z], heap')
  <2> SUFFICES ASSUME NEW z \in DOMAIN obj'
               PROVE  Good(obj'[z], shadow'[z], heap')
    OBVIOUS
  <2>1. CASE z = x
    BY <1>4, <1>9, <2>1
  <2>2. CASE z = y
    BY <1>4, <1>6, <2>2
  <2>3. CASE z \in DOMAIN obj \ {x, y}
    BY <1>4, <1>9, <2>3
  <2> QED
    BY <1>4, <2>1, <2>2, <2>3
<1>11. Buf!BlocksAreOwned'
  <2> DEFINE P(z) == obj'[z].ptr
  <2>1. /\ P(x) = obj[y].ptr /\ P(y) = Buf!Null
        /\ \A z \in DOMAIN obj \ {x, y} : P(z) = obj[z].ptr
    BY <1>4, <1>6
  <2>2. DOMAIN heap' = DOMAIN heap \ {p} /\ DOMAIN obj' = DOMAIN obj \cup {x}
    BY <1>4, <1>5
  <2>3. \A b \in DOMAIN heap' : \E z \in DOMAIN obj' : P(z) = b
    <3> SUFFICES ASSUME NEW b \in DOMAIN heap \ {p}
                 PROVE  \E z \in DOMAIN obj' : P(z) = b
      BY <2>2
    <3> HIDE DEF P
    <3>1. PICK z \in DOMAIN obj : obj[z].ptr = b
      BY <1>2
    <3>2. z # x
      BY <3>1
    <3>3. CASE z = y
      BY <2>1, <2>2, <3>1, <3>3
    <3>4. CASE z # y
      BY <2>1, <2>2, <3>1, <3>2, <3>4
    <3> QED
      BY <3>3, <3>4
  <2> HIDE DEF P
  <2>4. \A z \in DOMAIN obj' : P(z) \in DOMAIN heap' \cup {Buf!Null}
    <3> HIDE DEF p
    <3> QED
      BY <1>2, <1>8, <2>1, <2>2
  <2>5. \A z, u \in DOMAIN obj' : (P(z) = P(u) /\ P(z) # Buf!Null) => z = u
    <3> HIDE DEF p
    <3> QED
      BY <1>2, <2>1, <2>2
  <2> QED
    BY <2>3, <2>4, <2>5 DEF Buf!BlocksAreOwned, P
<1> QED
  BY <1>7, <1>10, <1>11 DEF BufInv

LEMMA BufInit ==
  ASSUME Buf!Init
  PROVE  BufInv
<1>1. obj = <<>> /\ heap = <<>> /\ shadow = <<>> /\ DOMAIN <<>> = {}
  BY DEF Buf!Init
<1> QED
  BY <1>1 DEF BufInv, BufTyped, Buf!BlocksAreOwned

LEMMA BufStep ==
  ASSUME BufInv, [Buf!Next]_(Buf!vars)
  PROVE  BufInv'
<1>1. CASE UNCHANGED Buf!vars
  BY <1>1 DEF Buf!vars, BufInv, BufTyped, Buf!BlocksAreOwned
<1>2. CASE Buf!Next
  <2>1. Buf!Sizes \subseteq Nat /\ MaxSizes \subseteq Nat
    BY CodecsAssumption DEF Buf!Sizes
  <2>2. ASSUME NEW x \in Buffers, NEW n \in Buf!Sizes, NEW max \in Buf!Sizes,
               Buf!create(x, n, max)
        PROVE  BufInv'
    BY <2>1, <2>2, BufCreate
  <2>3. ASSUME NEW x \in Buffers, NEW y \in DOMAIN obj, Buf!MoveConstruct(x, y)
        PROVE  BufInv'
    <3>1. x # y
      BY <2>3 DEF Buf!MoveConstruct
    <3> QED
      BY <2>3, <3>1, BufMove
  <2>4. ASSUME NEW x \in DOMAIN obj, NEW y \in DOMAIN obj, Buf!MoveAssign(x, y)
        PROVE  BufInv'
    <3>1. x # y
      BY <2>4 DEF Buf!MoveAssign
    <3> QED
      BY <2>4, <3>1, BufMove
  <2>5. ASSUME NEW x \in DOMAIN obj, Buf!Destroy(x) \/ Buf!clear(x) \/ Buf!reset(x)
        PROVE  BufInv'
    BY <2>5, BufDestroy, BufSimple
  <2>6. ASSUME NEW x \in DOMAIN obj, NEW max \in MaxSizes, Buf!set_max_size(x, max)
        PROVE  BufInv'
    BY <2>1, <2>6, BufSimple
  <2>7. ASSUME NEW x \in DOMAIN obj, NEW n \in Buf!Sizes,
               Buf!reserve(x, n) \/ Buf!resize(x, n) \/ Buf!discard_end(x, n) \/ Buf!append(x, n)
        PROVE  BufInv'
    <3>1. n \in Nat
      BY <2>1
    <3> QED
      BY <2>7, <3>1, BufReserve, BufResize, BufSimple
  <2>8. ASSUME NEW x \in DOMAIN obj, NEW n \in Buf!Sizes, NEW d \in [1..n -> Values],
               Buf!append_data(x, d)
        PROVE  BufInv'
    BY <2>1, <2>8, BufAppendData
  <2>9. ASSUME NEW x \in DOMAIN obj, NEW pos \in Buf!Sizes, NEW v \in Values, Buf!at(x, pos, v)
        PROVE  BufInv'
    BY <2>1, <2>9, BufAt
  <2> QED
    BY <1>2, <2>2, <2>3, <2>4, <2>5, <2>6, <2>7, <2>8, <2>9 DEF Buf!Next
<1> QED
  BY <1>1, <1>2

LEMMA BufImplies ==
  ASSUME BufInv
  PROVE  Buf!BlocksAreOwned /\ Buf!CapacityIsReal /\ Buf!ContentKept
<1>1. Buf!BlocksAreOwned /\ \A x \in DOMAIN obj : Good(obj[x], shadow[x], heap)
  BY DEF BufInv
<1>2. Buf!CapacityIsReal
  BY <1>1 DEF Good, Buf!CapacityIsReal
<1>3. Buf!ContentKept
  <2> SUFFICES ASSUME NEW x \in DOMAIN obj
               PROVE  /\ Len(shadow[x]) = obj[x].used
                      /\ \A j \in 1..Len(shadow[x]) :
                           shadow[x][j] # Buf!Junk => /\ obj[x].ptr \in DOMAIN heap
                                                      /\ heap[obj[x].ptr][j] = shadow[x][j]
    BY DEF Buf!ContentKept
  <2>1. Good(obj[x], shadow[x], heap)
    BY <1>1
  <2>2. obj[x].ptr \notin DOMAIN heap => Len(shadow[x]) = 0
    BY <2>1 DEF Good, Objects
  <2> QED
    BY <2>1, <2>2 DEF Good
<1> QED
  BY <1>1, <1>2, <1>3

(* Buffer (Buffer.hpp): for any objects, heap, sizes and contents, through
   moves, resets, shrinking and failed reallocations every block has one
   owner, no object believes to have more memory than it has, and what a
   caller has written stays where it is until it is cut off. *)
THEOREM CodecsBufferIsSound == Spec => []BufferIsSound
<1> DEFINE I == which = "buffer" => BufInv
<1>1. Init => I
  BY BufInit DEF Init, InitContext, InitShake, InitMask, InitUtf, InitAddress, InitBuf, InitSha
<1>2. I /\ [Next]_vars => I'
  <2> SUFFICES ASSUME I, [Next]_vars, which' = "buffer"
               PROVE  BufInv'
    OBVIOUS
  <2>1. which = "buffer" /\ [Buf!Next]_(Buf!vars)
    <3>1. CASE UNCHANGED vars
      BY <3>1 DEF vars, Buf!vars
    <3>2. CASE Next
      BY <3>2 DEF Next, AsContext, AsShake, AsMask, AsUtf, AsAddress, AsBuf, AsSha
    <3> QED
      BY <3>1, <3>2
  <2> QED
    BY <2>1, BufStep
<1>3. I => BufferIsSound
  BY BufImplies DEF BufferIsSound
<1> QED
  BY <1>1, <1>2, <1>3, PTL DEF Spec

-----------------------------------------------------------------------------
(* UTF-8.  Which of the four forms a piece of the string can have is decided by
   its first byte, and within a form the tests of is_valid_utf8 say what the
   definition says.  So there is one way at most to divide a string: the loop's
   index is a boundary of every division, and the bytes in front of it are
   divided. *)

(* What is_valid_utf8 asks of k bytes, by the value of each of them. *)
Tail10(x) == x \in 128..191
Form(k, x, y, z, w) ==
  \/ k = 1 /\ x \in 0..127
  \/ k = 2 /\ x \in 194..223 /\ Tail10(y)
  \/ /\ k = 3 /\ x \in 224..239 /\ Tail10(y) /\ Tail10(z)
     /\ (x = 224 => y >= 160) /\ (x = 237 => y < 160)
  \/ /\ k = 4 /\ x \in 240..244 /\ Tail10(y) /\ Tail10(z) /\ Tail10(w)
     /\ (x = 240 => y >= 144) /\ (x = 244 => y < 144)
FormHere(k) == Form(k, s[i + 1], s[i + 2], s[i + 3], s[i + 4])

UtfTyped == s \in Seq(0..255) /\ i \in 0..Len(s) /\ Utf!len(Len(s)) = Len(s)

LEMMA ElementIn ==
  ASSUME NEW S, NEW q \in Seq(S), NEW n \in 1..Len(q)
  PROVE  q[n] \in S
OBVIOUS

LEMMA Piece ==
  ASSUME UtfTyped, NEW k \in 1..4, i + k <= Len(s)
  PROVE  /\ Len(SubSeq(s, i + 1, i + k)) = k
         /\ \A j \in 1..k : /\ SubSeq(s, i + 1, i + k)[j] = s[i + j]
                            /\ i + j \in 1..Len(s) /\ s[i + j] \in 0..255
<1>1. s \in Seq(0..255) /\ Len(s) \in Nat /\ i \in Nat /\ i + 1 \in 1..(Len(s) + 1)
      /\ i + k \in 0..Len(s)
  BY DEF UtfTyped
<1>2. /\ Len(SubSeq(s, i + 1, i + k)) = k
      /\ \A j \in 1..k : SubSeq(s, i + 1, i + k)[j] = s[i + j]
  BY <1>1
<1>3. ASSUME NEW j \in 1..k PROVE i + j \in 1..Len(s) /\ s[i + j] \in 0..255
  <2>1. i + j \in 1..Len(s)
    BY <1>1
  <2> QED
    BY ONLY <1>1, <2>1, ElementIn
<1> QED
  BY <1>2, <1>3

LEMMA Division ==
  ASSUME NEW x \in 0..255
  PROVE  /\ x \div 64 = 2 <=> x \in 128..191
         /\ x \div 32 = 6 <=> x \in 192..223
         /\ x \div 16 = 14 <=> x \in 224..239
         /\ x \div 8 = 30 <=> x \in 240..247
         /\ x \div 2 = 96 <=> x \in 192..193
         /\ x \div 32 = 4 <=> x \in 128..159
         /\ x \div 16 = 8 <=> x \in 128..143
         /\ x \div 128 = 1 <=> x \in 128..255
         /\ x \in 128..191 => ((x \div 32) % 2 = 1 <=> x >= 160)
  OBVIOUS

(* the code points of three and of four bytes, and those their form is for *)
Code3(x, y, z) == ((x - 224) * 64 + (y - 128)) * 64 + (z - 128)
Code4(x, y, z, w) == (((x - 240) * 64 + (y - 128)) * 64 + (z - 128)) * 64 + (w - 128)

Scalar3(x, y, z) ==
  Code3(x, y, z) >= 2048 /\ ~(Code3(x, y, z) >= 55296 /\ Code3(x, y, z) <= 57343)
Scalar4(x, y, z, w) == Code4(x, y, z, w) >= 65536 /\ Code4(x, y, z, w) <= 1114111

LEMMA ThreeBytes ==
  ASSUME NEW x \in 224..239, NEW y \in 128..191, NEW z \in 128..191
  PROVE  Scalar3(x, y, z) <=> (x = 224 => y >= 160) /\ (x = 237 => y < 160)
<1>1. Code3(x, y, z) >= 2048 <=> (x = 224 => y >= 160)
  BY DEF Code3
<1>2. Code3(x, y, z) >= 55296 /\ Code3(x, y, z) <= 57343 <=> (x = 237 /\ y >= 160)
  BY DEF Code3
<1> QED
  BY <1>1, <1>2 DEF Scalar3

LEMMA FourBytes ==
  ASSUME NEW x \in 240..247, NEW y \in 128..191, NEW z \in 128..191, NEW w \in 128..191
  PROVE  Scalar4(x, y, z, w)
           <=> x <= 244 /\ (x = 240 => y >= 144) /\ (x = 244 => y < 144)
<1> DEFINE r == (z - 128) * 64 + (w - 128)
           c == Code4(x, y, z, w)
<1>1. r \in 0..4095 /\ c = 262144 * (x - 240) + 4096 * (y - 128) + r
  BY DEF Code4
<1> HIDE DEF r, c
<1>2. c >= 65536 <=> x > 240 \/ y >= 144
  BY <1>1
<1>3. c <= 1114111 <=> x < 244 \/ (x = 244 /\ y < 144)
  BY <1>1
<1> QED
  BY <1>2, <1>3, SMTT(40) DEF c, Scalar4

LEMMA EncodesAsForm ==
  ASSUME UtfTyped, NEW k \in 1..4, i + k <= Len(s)
  PROVE  Utf!Encodes(SubSeq(s, i + 1, i + k)) <=> FormHere(k)
<1> DEFINE b == SubSeq(s, i + 1, i + k)
<1>0. PICK x, y, z, w : x = s[i + 1] /\ y = s[i + 2] /\ z = s[i + 3] /\ w = s[i + 4]
  OBVIOUS
<1>1. /\ Len(b) = k
      /\ b[1] = x /\ x \in 0..255
      /\ k >= 2 => b[2] = y /\ y \in 0..255
      /\ k >= 3 => b[3] = z /\ z \in 0..255
      /\ k = 4 => b[4] = w /\ w \in 0..255
  <2>1. Len(b) = k /\ \A j \in 1..k : b[j] = s[i + j] /\ s[i + j] \in 0..255
    BY Piece
  <2> HIDE DEF b
  <2> QED
    BY <1>0, <2>1
<1>2. /\ k = 1 => (FormHere(k) <=> x \in 0..127)
      /\ k = 2 => (FormHere(k) <=> x \in 194..223 /\ Tail10(y))
      /\ k = 3 => (FormHere(k) <=> /\ x \in 224..239 /\ Tail10(y) /\ Tail10(z)
                                  /\ (x = 224 => y >= 160) /\ (x = 237 => y < 160))
      /\ k = 4 => (FormHere(k) <=> /\ x \in 240..244 /\ Tail10(y) /\ Tail10(z) /\ Tail10(w)
                                  /\ (x = 240 => y >= 144) /\ (x = 244 => y < 144))
  BY <1>0 DEF FormHere, Form
<1> HIDE DEF b
<1> SUFFICES Utf!Encodes(b) <=> FormHere(k)
  BY DEF b
<1>3. CASE k = 1
  <2>1. Utf!Encodes(b) <=> x < 128
    BY <1>1, <1>3 DEF Utf!Encodes
  <2> QED
    BY <1>1, <1>2, <1>3, <2>1
<1>4. CASE k = 2
  <2>1. Utf!Encodes(b) <=> x \in 194..223 /\ Tail10(y)
    <3>0. Len(b) = 2 /\ x \in 0..255 /\ y \in 0..255 /\ b[1] = x /\ b[2] = y
      BY <1>1, <1>4
    <3>1. (\A j \in 2..Len(b) : b[j] \in 128..191) <=> y \in 128..191
      BY ONLY <3>0
    <3>2. Utf!Encodes(b) <=> /\ y \in 128..191 /\ x \in 192..223
                             /\ (x - 192) * 64 + (y - 128) >= 128
      BY ONLY <3>0, <3>1 DEF Utf!Encodes
    <3>3. y \in 128..191 /\ x \in 192..223
            => ((x - 192) * 64 + (y - 128) >= 128 <=> x >= 194)
      OBVIOUS
    <3> QED
      BY ONLY <3>0, <3>2, <3>3 DEF Tail10
  <2> QED
    BY <1>2, <1>4, <2>1
<1>5. CASE k = 3
  <2>1. Utf!Encodes(b) <=> /\ x \in 224..239 /\ Tail10(y) /\ Tail10(z)
                           /\ (x = 224 => y >= 160) /\ (x = 237 => y < 160)
    <3>0. Len(b) = 3 /\ x \in 0..255 /\ y \in 0..255 /\ z \in 0..255
          /\ b[1] = x /\ b[2] = y /\ b[3] = z
      BY <1>1, <1>5
    <3>1. (\A j \in 2..Len(b) : b[j] \in 128..191) <=> y \in 128..191 /\ z \in 128..191
      BY ONLY <3>0
    <3>2. Utf!Encodes(b) <=> /\ y \in 128..191 /\ z \in 128..191 /\ x \in 224..239
                             /\ Scalar3(x, y, z)
      BY ONLY <3>0, <3>1, SMTT(40) DEF Utf!Encodes, Scalar3, Code3
    <3>4. y \in 128..191 /\ z \in 128..191 /\ x \in 224..239
            => (Scalar3(x, y, z) <=> (x = 224 => y >= 160) /\ (x = 237 => y < 160))
      BY ONLY ThreeBytes
    <3> QED
      BY ONLY <3>0, <3>2, <3>4 DEF Tail10
  <2> QED
    BY <1>2, <1>5, <2>1
<1>6. CASE k = 4
  <2>1. Utf!Encodes(b) <=> /\ x \in 240..244 /\ Tail10(y) /\ Tail10(z) /\ Tail10(w)
                           /\ (x = 240 => y >= 144) /\ (x = 244 => y < 144)
    <3>0. Len(b) = 4 /\ x \in 0..255 /\ y \in 0..255 /\ z \in 0..255 /\ w \in 0..255
          /\ b[1] = x /\ b[2] = y /\ b[3] = z /\ b[4] = w
      BY <1>1, <1>6
    <3>1. (\A j \in 2..Len(b) : b[j] \in 128..191)
            <=> y \in 128..191 /\ z \in 128..191 /\ w \in 128..191
      BY ONLY <3>0
    <3>2. Utf!Encodes(b) <=> /\ y \in 128..191 /\ z \in 128..191 /\ w \in 128..191
                             /\ x \in 240..247
                             /\ Scalar4(x, y, z, w)
      BY ONLY <3>0, <3>1, SMTT(40) DEF Utf!Encodes, Scalar4, Code4
    <3>4. y \in 128..191 /\ z \in 128..191 /\ w \in 128..191 /\ x \in 240..247
            => (Scalar4(x, y, z, w)
                  <=> x <= 244 /\ (x = 240 => y >= 144) /\ (x = 244 => y < 144))
      BY ONLY FourBytes
    <3> QED
      BY ONLY <3>0, <3>2, <3>4 DEF Tail10
  <2> QED
    BY <1>2, <1>6, <2>1
<1> QED
  BY <1>3, <1>4, <1>5, <1>6

LEMMA OneForm ==
  ASSUME NEW m \in 1..4, NEW n \in 1..4, NEW x, NEW y, NEW z, NEW w,
         Form(m, x, y, z, w), Form(n, x, y, z, w)
  PROVE  m = n
BY DEF Form

(* What a pass of the loop does, by the forms: it goes on behind a piece that
   has one, or it stops because none is here. *)
LEMMA LoopPasses ==
  ASSUME UtfTyped, Utf!is_valid_utf8
  PROVE  /\ i < Len(s) /\ s' = s
         /\ \/ \E n \in 1..4 : /\ i + n <= Len(s) /\ FormHere(n)
                               /\ i' = i + n /\ result' = "running"
            \/ /\ i' = i /\ result' = "invalid"
               /\ \A n \in 1..4 : i + n <= Len(s) => ~FormHere(n)
<1>1. /\ i \in Nat /\ Len(s) \in Nat /\ Utf!len(Len(s)) = Len(s)
      /\ i < Len(s) /\ s' = s /\ result = "running"
  BY DEF UtfTyped, Utf!is_valid_utf8
<1>2. PICK x, y, z, w : x = s[i + 1] /\ y = s[i + 2] /\ z = s[i + 3] /\ w = s[i + 4]
  OBVIOUS
<1>3. Utf!Byte(i) = x /\ Utf!Byte(i + 1) = y /\ Utf!Byte(i + 2) = z /\ Utf!Byte(i + 3) = w
  <2>1. (i + 1) + 1 = i + 2 /\ (i + 2) + 1 = i + 3 /\ (i + 3) + 1 = i + 4
    BY <1>1
  <2> QED
    BY ONLY <1>2, <2>1 DEF Utf!Byte
<1>4. /\ x \in 0..255
      /\ i + 2 <= Len(s) => y \in 0..255
      /\ i + 3 <= Len(s) => z \in 0..255
      /\ i + 4 <= Len(s) => w \in 0..255
  <2>1. ASSUME NEW j \in 1..4, i + j <= Len(s) PROVE s[i + j] \in 0..255
    <3>1. j \in 1..j
      OBVIOUS
    <3> QED
      BY ONLY UtfTyped, <2>1, <3>1, Piece
  <2>2. /\ i + 1 <= Len(s) /\ s[i + 1] \in 0..255
        /\ i + 2 <= Len(s) => s[i + 2] \in 0..255
        /\ i + 3 <= Len(s) => s[i + 3] \in 0..255
        /\ i + 4 <= Len(s) => s[i + 4] \in 0..255
    BY ONLY <1>1, <2>1
  <2> QED
    BY ONLY <1>2, <2>2
<1>5. \A n \in 1..4 : FormHere(n) <=> Form(n, x, y, z, w)
  BY <1>2 DEF FormHere
<1>6. /\ i + 2 <= Len(s) => (Utf!Continues(i + 1) <=> Tail10(y))
      /\ i + 3 <= Len(s) => (Utf!Continues(i + 2) <=> Tail10(z))
      /\ i + 4 <= Len(s) => (Utf!Continues(i + 3) <=> Tail10(w))
  <2>1. /\ y \in 0..255 => (y \div 64 = 2 <=> Tail10(y))
        /\ z \in 0..255 => (z \div 64 = 2 <=> Tail10(z))
        /\ w \in 0..255 => (w \div 64 = 2 <=> Tail10(w))
    BY ONLY Division DEF Tail10
  <2> QED
    BY ONLY <1>3, <1>4, <2>1 DEF Utf!Continues
<1>7. Utf!Bad2(x) <=> ~(i + 2 <= Len(s) /\ Tail10(y) /\ ~(x \div 2 = 96))
  BY ONLY <1>1, <1>6 DEF Utf!Bad2
<1>8. Utf!Bad3(x) <=> ~(/\ i + 3 <= Len(s) /\ Tail10(y) /\ Tail10(z)
                        /\ (x = 224 => y >= 160) /\ (x = 237 => y < 160))
  <2>1. CASE i + 3 <= Len(s) /\ Tail10(y) /\ Tail10(z)
    <3>1. /\ y \in 0..255 /\ y \in 128..191
          /\ y \div 32 = 4 <=> y < 160
          /\ y \div 128 = 1 /\ (y \div 32) % 2 = 1 <=> y >= 160
      BY ONLY <2>1 DEF Tail10
    <3>2. ~(i + 2 >= Len(s)) /\ Utf!Continues(i + 1) /\ Utf!Continues(i + 2)
      BY ONLY <1>1, <1>6, <2>1
    <3> QED
      BY ONLY <1>1, <1>3, <2>1, <3>1, <3>2, SMTT(40) DEF Utf!Bad3
  <2>2. CASE ~(i + 3 <= Len(s) /\ Tail10(y) /\ Tail10(z))
    BY ONLY <1>1, <1>6, <2>2 DEF Utf!Bad3
  <2> QED
    BY <2>1, <2>2
<1>9. Utf!Bad4(x) <=> ~(/\ i + 4 <= Len(s) /\ Tail10(y) /\ Tail10(z) /\ Tail10(w) /\ x <= 244
                        /\ (x = 240 => y >= 144) /\ (x = 244 => y < 144))
  <2>1. CASE i + 4 <= Len(s) /\ Tail10(y) /\ Tail10(z) /\ Tail10(w)
    <3>1. /\ y \in 128..191
          /\ y \div 16 = 8 <=> y < 144
      BY ONLY <2>1 DEF Tail10
    <3>2. /\ ~(i + 3 >= Len(s)) /\ Utf!Continues(i + 1) /\ Utf!Continues(i + 2)
          /\ Utf!Continues(i + 3)
      BY ONLY <1>1, <1>6, <2>1
    <3> QED
      BY ONLY <1>1, <1>3, <1>4, <2>1, <3>1, <3>2 DEF Utf!Bad4
  <2>2. CASE ~(i + 4 <= Len(s) /\ Tail10(y) /\ Tail10(z) /\ Tail10(w))
    BY ONLY <1>1, <1>6, <2>2 DEF Utf!Bad4
  <2> QED
    BY <2>1, <2>2
<1>10. /\ x \div 32 = 6 <=> x \in 192..223
       /\ x \div 16 = 14 <=> x \in 224..239
       /\ x \div 8 = 30 <=> x \in 240..247
       /\ x \div 2 = 96 <=> x \in 192..193
  BY ONLY <1>4, Division
<1>11. \/ x < 128 /\ Utf!Advance(FALSE, 1)
       \/ x \in 192..223 /\ Utf!Advance(Utf!Bad2(x), 2)
       \/ x \in 224..239 /\ Utf!Advance(Utf!Bad3(x), 3)
       \/ x \in 240..247 /\ Utf!Advance(Utf!Bad4(x), 4)
       \/ /\ x >= 128 /\ x \notin 192..223 /\ x \notin 224..239 /\ x \notin 240..247
          /\ Utf!Advance(TRUE, 0)
  BY ONLY <1>3, <1>10, Utf!is_valid_utf8, ZenonT(60) DEF Utf!is_valid_utf8
<1> DEFINE Goes(n) == i + n <= Len(s) /\ FormHere(n) /\ i' = i + n /\ result' = "running"
           Stops == /\ i' = i /\ result' = "invalid"
                    /\ \A n \in 1..4 : i + n <= Len(s) => ~FormHere(n)
<1> SUFFICES (\E n \in 1..4 : Goes(n)) \/ Stops
  BY <1>1
<1>12. CASE x < 128 /\ Utf!Advance(FALSE, 1)
  <2>1. Goes(1)
    BY <1>1, <1>4, <1>5, <1>12, SMTT(40) DEF Utf!Advance, Form
  <2> QED
    BY <2>1
<1>13. CASE x \in 192..223 /\ Utf!Advance(Utf!Bad2(x), 2)
  <2>1. \A n \in 1..4 : Form(n, x, y, z, w) <=> n = 2 /\ Tail10(y) /\ x \notin 192..193
    BY ONLY <1>13 DEF Form
  <2>2. CASE Utf!Bad2(x)
    BY <1>5, <1>7, <1>10, <1>13, <2>1, <2>2 DEF Utf!Advance
  <2>3. CASE ~Utf!Bad2(x)
    BY <1>1, <1>5, <1>7, <1>10, <1>13, <2>1, <2>3 DEF Utf!Advance
  <2> QED
    BY <2>2, <2>3
<1>14. CASE x \in 224..239 /\ Utf!Advance(Utf!Bad3(x), 3)
  <2>1. \A n \in 1..4 : Form(n, x, y, z, w) <=> /\ n = 3 /\ Tail10(y) /\ Tail10(z)
                                              /\ (x = 224 => y >= 160) /\ (x = 237 => y < 160)
    BY ONLY <1>14 DEF Form
  <2>2. CASE Utf!Bad3(x)
    BY <1>5, <1>8, <1>14, <2>1, <2>2 DEF Utf!Advance
  <2>3. CASE ~Utf!Bad3(x)
    BY <1>1, <1>5, <1>8, <1>14, <2>1, <2>3 DEF Utf!Advance
  <2> QED
    BY <2>2, <2>3
<1>15. CASE x \in 240..247 /\ Utf!Advance(Utf!Bad4(x), 4)
  <2>1. \A n \in 1..4 : Form(n, x, y, z, w) <=>
          /\ n = 4 /\ Tail10(y) /\ Tail10(z) /\ Tail10(w) /\ x <= 244
          /\ (x = 240 => y >= 144) /\ (x = 244 => y < 144)
    BY ONLY <1>15 DEF Form
  <2>2. CASE Utf!Bad4(x)
    BY <1>5, <1>9, <1>15, <2>1, <2>2 DEF Utf!Advance
  <2>3. CASE ~Utf!Bad4(x)
    BY <1>1, <1>5, <1>9, <1>15, <2>1, <2>3 DEF Utf!Advance
  <2> QED
    BY <2>2, <2>3
<1>16. CASE /\ x >= 128 /\ x \notin 192..223 /\ x \notin 224..239 /\ x \notin 240..247
            /\ Utf!Advance(TRUE, 0)
  <2>1. \A n \in 1..4 : ~Form(n, x, y, z, w)
    BY ONLY <1>4, <1>16 DEF Form
  <2> QED
    BY <1>5, <1>16, <2>1 DEF Utf!Advance
<1> QED
  BY <1>11, <1>12, <1>13, <1>14, <1>15, <1>16

(* A piece from boundary a to a later boundary in E *)
Leads(E, a) == \E k \in 1..4 : a + k \in E /\ Utf!Encodes(SubSeq(s, a + 1, a + k))
Divisions == {E \in SUBSET (0..Len(s)) : {0, Len(s)} \subseteq E /\ Utf!Divides(E)}

(* the bytes in front of the index are divided, and no division of the whole
   string steps over the index *)
Read == \E E \in SUBSET (0..i) : {0, i} \subseteq E /\ \A a \in E \ {i} : Leads(E, a)
Passed == \A E \in Divisions : i \in E

UtfFits == Utf!len(Len(s)) = Len(s)
UtfCore ==
  /\ UtfTyped /\ result \in {"running", "valid", "invalid"}
  /\ Read /\ Passed
  /\ result = "valid" => i = Len(s)
  /\ result = "invalid" => ~Utf!WellFormed
UtfInv == UtfFits => UtfCore

LEMMA WellFormedDivisions ==
  Utf!WellFormed <=> Divisions # {}
BY DEF Utf!WellFormed, Divisions

LEMMA DivisionsLead ==
  ASSUME NEW E \in Divisions, NEW a \in E, a # Len(s)
  PROVE  Leads(E, a)
BY DEF Divisions, Utf!Divides, Leads

(* A division that has the boundary i goes on with the piece that has a form. *)
LEMMA NextBoundary ==
  ASSUME UtfTyped, i < Len(s), NEW E \in Divisions, i \in E
  PROVE  \E k \in 1..4 : i + k <= Len(s) /\ i + k \in E /\ FormHere(k)
<1>1. i \in Nat /\ Len(s) \in Nat /\ i # Len(s)
  BY DEF UtfTyped
<1>2. PICK k \in 1..4 : i + k \in E /\ Utf!Encodes(SubSeq(s, i + 1, i + k))
  BY <1>1, DivisionsLead DEF Leads
<1>3. i + k <= Len(s)
  BY <1>1, <1>2 DEF Divisions
<1>4. FormHere(k)
  BY ONLY UtfTyped, <1>2, <1>3, EncodesAsForm
<1> QED
  BY <1>2, <1>3, <1>4

LEMMA UtfPass ==
  ASSUME UtfCore, Utf!is_valid_utf8
  PROVE  UtfCore'
<1>1. /\ UtfTyped /\ i \in Nat /\ Len(s) \in Nat
      /\ i < Len(s) /\ s' = s /\ Utf!len(Len(s)) = Len(s)
  BY LoopPasses DEF UtfCore, UtfTyped
<1>2. Divisions' = Divisions /\ Utf!WellFormed' = Utf!WellFormed
  BY <1>1 DEF Divisions, Utf!Divides, Utf!WellFormed
<1>3. ASSUME NEW n \in 1..4, i + n <= Len(s), FormHere(n), i' = i + n, result' = "running"
      PROVE  UtfCore'
  <2>1. UtfTyped'
    <3>1. s' \in Seq(0..255) /\ Utf!len(Len(s)) = Len(s)
      BY <1>1 DEF UtfTyped
    <3>2. i' \in 0..Len(s')
      BY <1>1, <1>3
    <3> QED
      BY ONLY <1>1, <3>1, <3>2 DEF UtfTyped
  <2>2. Read'
    <3>1. PICK E \in SUBSET (0..i) : {0, i} \subseteq E /\ \A a \in E \ {i} : Leads(E, a)
      BY DEF UtfCore, Read
    <3>0. PICK D : D = E \cup {i + n}
      OBVIOUS
    <3>2. D \in SUBSET (0..(i + n)) /\ {0, i + n} \subseteq D
      BY <1>1, <3>0, <3>1
    <3>3. ASSUME NEW a \in D \ {i + n} PROVE Leads(D, a)
      <4>1. CASE a = i
        <5>1. Utf!Encodes(SubSeq(s, i + 1, i + n))
          BY ONLY <1>1, <1>3, n \in 1..4, EncodesAsForm
        <5> QED
          BY ONLY <3>0, <4>1, <5>1, n \in 1..4 DEF Leads
      <4>2. CASE a # i
        BY <3>0, <3>1, <3>3, <4>2 DEF Leads
      <4> QED
        BY <4>1, <4>2
    <3>4. \A a \in D \ {i'} : Leads(D, a)'
      BY ONLY <1>1, <1>3, <3>3 DEF Leads
    <3> QED
      BY ONLY <1>3, <3>2, <3>4 DEF Read
  <2>3. Passed'
    <3>1. ASSUME NEW E \in Divisions PROVE i + n \in E
      <4>1. i \in E
        BY DEF UtfCore, Passed
      <4>2. PICK k \in 1..4 : i + k \in E /\ FormHere(k)
        BY <1>1, <4>1, NextBoundary
      <4>3. k = n
        BY ONLY <1>3, <4>2, k \in 1..4, n \in 1..4, OneForm DEF FormHere
      <4> QED
        BY <4>2, <4>3
    <3> QED
      BY ONLY <1>2, <1>3, <3>1 DEF Passed
  <2> QED
    BY ONLY <1>3, <2>1, <2>2, <2>3 DEF UtfCore
<1>4. ASSUME i' = i, result' = "invalid", \A n \in 1..4 : i + n <= Len(s) => ~FormHere(n)
      PROVE  UtfCore'
  <2>1. UtfTyped' /\ Read' /\ Passed'
    BY <1>1, <1>2, <1>4 DEF UtfCore, UtfTyped, Read, Passed, Leads
  <2>2. ~Utf!WellFormed
    <3>1. ASSUME NEW E \in Divisions PROVE FALSE
      <4>1. i \in E
        BY DEF UtfCore, Passed
      <4> QED
        BY ONLY <1>1, <1>4, <4>1, NextBoundary, E \in Divisions
    <3> QED
      BY <3>1, WellFormedDivisions
  <2> QED
    BY <1>2, <1>4, <2>1, <2>2 DEF UtfCore
<1> QED
  BY ONLY <1>1, <1>3, <1>4, LoopPasses, Utf!is_valid_utf8

LEMMA UtfEnd ==
  ASSUME UtfCore, Utf!LoopEnds
  PROVE  UtfCore'
<1>1. /\ s' = s /\ i' = i /\ result' = "valid" /\ i \in 0..Len(s) /\ Len(s) \in Nat
      /\ i >= Len(s)
  BY DEF UtfCore, UtfTyped, Utf!LoopEnds
<1>2. UtfTyped' /\ Read' /\ Passed'
  BY <1>1 DEF UtfCore, UtfTyped, Read, Passed, Leads, Divisions, Utf!Divides
<1> QED
  BY <1>1, <1>2 DEF UtfCore

LEMMA UtfStep ==
  ASSUME UtfInv, [Utf!Next]_(Utf!vars)
  PROVE  UtfInv'
<1>1. s' = s
  BY DEF Utf!vars, Utf!Next, Utf!is_valid_utf8, Utf!LoopEnds
<1> SUFFICES ASSUME UtfCore PROVE UtfCore'
  BY <1>1 DEF UtfInv, UtfFits
<1>2. CASE UNCHANGED Utf!vars
  BY <1>2 DEF Utf!vars, UtfCore, UtfTyped, Read, Passed, Leads, Divisions, Utf!Divides,
              Utf!WellFormed
<1> QED
  BY <1>2, UtfPass, UtfEnd DEF Utf!Next

LEMMA UtfInit ==
  ASSUME Utf!Init
  PROVE  UtfInv
<1>1. s \in Seq(0..255) /\ Len(s) \in Nat /\ i = 0 /\ result = "running"
  <2>1. PICK n \in 0..MaxString : s \in [1..n -> Bytes]
    BY DEF Utf!Init
  <2>2. n \in Nat /\ Bytes \subseteq 0..255
    BY CodecsAssumption
  <2>3. s \in [1..n -> 0..255]
    BY <2>1, <2>2
  <2>4. s \in Seq(0..255) /\ Len(s) \in Nat
    BY ONLY <2>2, <2>3
  <2> QED
    BY <2>4 DEF Utf!Init
<1>2. Read
  <2>1. {0} \in SUBSET (0..i) /\ {0, i} \subseteq {0} /\ \A a \in {0} \ {i} : Leads({0}, a)
    BY <1>1
  <2> QED
    BY ONLY <2>1 DEF Read
<1>3. Passed
  BY <1>1 DEF Passed, Divisions
<1> QED
  BY ONLY <1>1, <1>2, <1>3 DEF UtfInv, UtfFits, UtfCore, UtfTyped

LEMMA UtfImplies ==
  ASSUME UtfInv
  PROVE  Utf!VerdictIsRight
<1> SUFFICES ASSUME result # "running", UtfFits
             PROVE  result = "valid" <=> Utf!WellFormed
  BY DEF Utf!VerdictIsRight, UtfFits
<1>1. UtfCore
  BY DEF UtfInv
<1>2. ASSUME result = "valid" PROVE Utf!WellFormed
  <2>1. i = Len(s)
    BY <1>1, <1>2 DEF UtfCore
  <2>2. PICK E \in SUBSET (0..Len(s)) : {0, Len(s)} \subseteq E
                                        /\ \A a \in E \ {Len(s)} : Leads(E, a)
    BY <1>1, <2>1 DEF UtfCore, Read
  <2>3. Utf!Divides(E)
    BY ONLY <2>2 DEF Utf!Divides, Leads
  <2> QED
    BY ONLY <2>2, <2>3 DEF Utf!WellFormed
<1> QED
  BY <1>1, <1>2 DEF UtfCore

(* is_valid_utf8 (utf8.hpp): whatever the string, when its length is an int the
   verdict is that of the definition of UTF-8.  The loop decides by the byte it
   is at alone, so the theorem says also that no other way to divide the string
   would have served. *)
THEOREM CodecsVerdictIsRight == Spec => []VerdictIsRight
<1> DEFINE I == which = "utf8" => UtfInv
<1>1. Init => I
  BY UtfInit DEF Init, InitContext, InitShake, InitMask, InitUtf, InitAddress, InitBuf, InitSha
<1>2. I /\ [Next]_vars => I'
  <2> SUFFICES ASSUME I, [Next]_vars, which' = "utf8"
               PROVE  UtfInv'
    OBVIOUS
  <2>1. which = "utf8" /\ [Utf!Next]_(Utf!vars)
    <3>1. CASE UNCHANGED vars
      BY <3>1 DEF vars, Utf!vars
    <3>2. CASE Next
      BY <3>2 DEF Next, AsContext, AsShake, AsMask, AsUtf, AsAddress, AsBuf, AsSha
    <3> QED
      BY <3>1, <3>2
  <2> QED
    BY <2>1, UtfStep
<1>3. I => VerdictIsRight
  BY UtfImplies DEF VerdictIsRight
<1> QED
  BY <1>1, <1>2, <1>3, PTL DEF Spec

-----------------------------------------------------------------------------
(* URLs.  find_first_of is used by what it finds: the least position in a set,
   which there is, as the order of Nat is well founded. *)

(* a set of numbers that is not empty has a least one *)
LEMMA LeastNat ==
  ASSUME NEW T \in SUBSET Nat, T # {}
  PROVE  \E m \in T : \A n \in T : m <= n
<1> DEFINE R == OpToRel(<, Nat)
<1>1. IsWellFoundedOn(R, Nat)
  BY NatLessThanWellFounded
<1>2. \A a, b \in Nat : <<a, b>> \in R <=> a < b
  BY DEF OpToRel
<1> HIDE DEF R
<1>3. PICK x \in T : \A y \in T : ~(<<y, x>> \in R)
  BY <1>1, WFMin
<1>4. \A y \in T : ~(y < x)
  BY <1>2, <1>3
<1> QED
  BY <1>4

(* find_first_of: the first of the characters at or behind a position *)
LEMMA FindFirst ==
  ASSUME NEW A, NEW q \in Seq(A), NEW C, NEW from \in Nat \ {0},
         NEW p, p = Address!find_first_of(q, C, from)
  PROVE  \/ p = 0 /\ \A k \in from..Len(q) : q[k] \notin C
         \/ /\ p \in from..Len(q) /\ q[p] \in C
            /\ \A k \in from..(p - 1) : q[k] \notin C
<1> DEFINE at == {k \in from..Len(q) : q[k] \in C}
<1>1. CASE at = {}
  BY <1>1 DEF Address!find_first_of, Address!npos
<1>2. CASE at # {}
  <2>1. at \in SUBSET Nat
    OBVIOUS
  <2>2. PICK m \in at : \A n \in at : m <= n
    <3> HIDE DEF at
    <3> QED
      BY <1>2, <2>1, LeastNat
  <2>3. p \in at /\ \A n \in at : p <= n
    BY <1>2, <2>2 DEF Address!find_first_of
  <2> QED
    BY <2>3
<1> QED
  BY <1>1, <1>2

LEMMA FoundAt ==
  ASSUME NEW A, NEW q \in Seq(A), NEW C, NEW from \in Nat \ {0},
         NEW n \in from..Len(q), q[n] \in C, \A k \in from..(n - 1) : q[k] \notin C
  PROVE  Address!find_first_of(q, C, from) = n
<1>1. PICK p : p = Address!find_first_of(q, C, from)
  OBVIOUS
<1>2. \/ p = 0 /\ \A k \in from..Len(q) : q[k] \notin C
      \/ /\ p \in from..Len(q) /\ q[p] \in C
         /\ \A k \in from..(p - 1) : q[k] \notin C
  BY <1>1, FindFirst
<1>3. p # 0 /\ p \in Int
  BY <1>2
<1>4. ~(p < n)
  BY <1>2, <1>3
<1>5. ~(n < p)
  BY <1>2, <1>3
<1> QED
  BY <1>1, <1>3, <1>4, <1>5

LEMMA NotFound ==
  ASSUME NEW A, NEW q \in Seq(A), NEW C, NEW from \in Nat \ {0},
         \A k \in from..Len(q) : q[k] \notin C
  PROVE  Address!find_first_of(q, C, from) = 0
<1>1. PICK p : p = Address!find_first_of(q, C, from)
  OBVIOUS
<1> QED
  BY <1>1, FindFirst

(* n characters, up to one of those in C or to the end *)
Cut(q, C, n) ==
  /\ n \in 0..Len(q) /\ \A k \in 1..n : q[k] \notin C
  /\ n < Len(q) => q[n + 1] \in C

LEMMA UpToIsCut ==
  ASSUME NEW A, NEW q \in Seq(A), NEW C, NEW n, Cut(q, C, n)
  PROVE  Address!UpTo(q, C) = SubSeq(q, 1, n)
<1> DEFINE P(m) == (\A k \in 1..m : q[k] \notin C) /\ (m < Len(q) => q[m + 1] \in C)
<1>1. n \in 0..Len(q) /\ P(n)
  BY DEF Cut
<1>2. ASSUME NEW m \in 0..Len(q), P(m) PROVE m = n
  <2>1. ~(m < n)
    BY <1>1, <1>2
  <2>2. ~(n < m)
    BY <1>1, <1>2
  <2> QED
    BY <1>1, <2>1, <2>2
<1> HIDE DEF P
<1>3. (CHOOSE m \in 0..Len(q) : P(m)) = n
  BY <1>1, <1>2
<1> QED
  BY <1>3 DEF Address!UpTo, P

LEMMA FirstIsCut ==
  ASSUME NEW A, NEW q \in Seq(A), NEW C, NEW p, p = Address!find_first_of(q, C, 1)
  PROVE  /\ Cut(q, C, Address!HostEnd(q, p) - 1)
         /\ Address!HostEnd(q, p) - 1 \in 0..Len(q)
<1>1. \/ p = 0 /\ \A k \in 1..Len(q) : q[k] \notin C
      \/ /\ p \in 1..Len(q) /\ q[p] \in C
         /\ \A k \in 1..(p - 1) : q[k] \notin C
  BY FindFirst
<1>2. Len(q) \in Nat
  OBVIOUS
<1> QED
  BY <1>1, <1>2 DEF Cut, Address!HostEnd, Address!npos

LEMMA AuthorityIs ==
  ASSUME NEW A, NEW q \in Seq(A), NEW e, Cut(q, Address!Ends, e)
  PROVE  /\ Address!Authority(q) = SubSeq(q, 1, e) /\ e \in 0..Len(q)
         /\ Len(Address!Authority(q)) = e
<1>1. Address!Authority(q) = SubSeq(q, 1, e)
  BY UpToIsCut DEF Address!Authority
<1> QED
  BY <1>1 DEF Cut

(* the parts of a text, and texts that are the same *)
LEMMA SubSeqIs ==
  ASSUME NEW A, NEW q \in Seq(A), NEW m \in 1..(Len(q) + 1), NEW n \in (m - 1)..Len(q)
  PROVE  /\ SubSeq(q, m, n) \in Seq(A) /\ Len(SubSeq(q, m, n)) = n - m + 1
         /\ \A k \in 1..(n - m + 1) : SubSeq(q, m, n)[k] = q[m + k - 1]
OBVIOUS

LEMMA SameSeq ==
  ASSUME NEW A, NEW B, NEW u \in Seq(A), NEW v \in Seq(B), Len(u) = Len(v),
         \A k \in 1..Len(u) : u[k] = v[k]
  PROVE  u = v
OBVIOUS

(* A division that asks less of a host: it ends at a colon or at the end of the
   authority, in brackets if it begins with one.  parse is shown to agree with this
   one; with a proper authority it is the division of RFC 3986. *)
LooseHosts(q) ==
  {n \in 1..Len(Address!Authority(q)) :
     /\ n = Len(Address!Authority(q)) \/ q[n + 1] = ":"
     /\ IF q[1] = "["
        THEN q[n] = "]" /\ "]" \notin Address!ToSet(SubSeq(q, 1, n - 1))
        ELSE ":" \notin Address!ToSet(SubSeq(q, 1, n))}
LooseSplit(q) ==
  IF LooseHosts(q) = {} THEN Address!Error
  ELSE LET n == CHOOSE n \in LooseHosts(q) : TRUE
           host == IF q[1] = "[" THEN SubSeq(q, 2, n - 1) ELSE SubSeq(q, 1, n)
           text == SubSeq(q, n + 2, Len(Address!Authority(q)))
           port == IF text = <<>> THEN 80 ELSE Address!parse_port(text)
       IN  IF host = <<>> \/ port = Address!npos THEN Address!Error
           ELSE [ok |-> TRUE, protocol |-> "ws", host |-> host, port |-> port,
                 resource |-> Address!Target(q)]

(* the request target behind an authority of e characters is what Resource makes *)
LEMMA TargetIsResource ==
  ASSUME NEW A, NEW q \in Seq(A), NEW end, end = Address!find_first_of(q, Address!Ends, 1)
  PROVE  Address!Target(q) = Address!Resource(q, end)
<1> DEFINE e == Address!HostEnd(q, end) - 1
           tail == SubSeq(q, e + 1, Len(q))
           text == Address!UpTo(tail, {"#"})
<1>1. /\ Cut(q, Address!Ends, e) /\ e \in 0..Len(q) /\ Len(q) \in Nat
      /\ end = 0 => e = Len(q)
      /\ end # 0 => end = e + 1 /\ e < Len(q) /\ q[end] \in Address!Ends
  BY FirstIsCut, FindFirst DEF Address!HostEnd, Address!npos
<1>2. Address!Target(q) = IF text # <<>> /\ Head(text) = "/" THEN text ELSE <<"/">> \o text
  BY <1>1, AuthorityIs DEF Address!Target
<1> HIDE DEF e
<1>3. /\ tail \in Seq(A) /\ Len(tail) = Len(q) - e
      /\ \A k \in 1..(Len(q) - e) : tail[k] = q[e + k]
  BY <1>1, SMTT(40)
<1>4. CASE end = 0
  <2>1. tail = <<>>
    BY <1>1, <1>4
  <2>2. Cut(<<>>, {"#"}, 0) /\ <<>> \in Seq(A)
    BY DEF Cut
  <2>3. text = SubSeq(<<>>, 1, 0)
    BY ONLY <2>1, <2>2, UpToIsCut
  <2> QED
    BY <1>2, <1>4, <2>3 DEF Address!Resource, Address!npos
<1>5. CASE end # 0 /\ q[end] = "#"
  <2>1. Cut(tail, {"#"}, 0)
    BY <1>1, <1>3, <1>5 DEF Cut
  <2>2. text = SubSeq(tail, 1, 0)
    BY ONLY <1>3, <2>1, UpToIsCut
  <2>3. text = <<>>
    BY <1>3, <2>2
  <2>4. <<"/">> \o text = <<"/">>
    BY ONLY <2>3, <<"/">> \o <<>> = <<"/">>
  <2> HIDE DEF text
  <2> QED
    BY <1>2, <1>5, <2>3, <2>4 DEF Address!Resource, Address!npos
<1>6. CASE end # 0 /\ q[end] # "#"
  <2>1. PICK fragment : fragment = Address!find_first_of(q, {"#"}, end)
    OBVIOUS
  <2>2. PICK c : c = Address!HostEnd(q, fragment) - 1
    OBVIOUS
  <2>3. /\ c \in end..Len(q) /\ \A k \in end..c : q[k] # "#"
        /\ c < Len(q) => q[c + 1] = "#"
    <3>1. end \in Nat \ {0}
      BY <1>1, <1>6
    <3>2. \/ fragment = 0 /\ \A k \in end..Len(q) : q[k] \notin {"#"}
          \/ /\ fragment \in end..Len(q) /\ q[fragment] \in {"#"}
             /\ \A k \in end..(fragment - 1) : q[k] \notin {"#"}
      BY <2>1, <3>1, FindFirst
    <3>3. CASE fragment = 0
      BY <1>1, <1>6, <2>2, <3>1, <3>2, <3>3 DEF Address!HostEnd, Address!npos
    <3>4. CASE fragment # 0
      BY <1>1, <1>6, <2>2, <3>1, <3>2, <3>4 DEF Address!HostEnd, Address!npos
    <3> QED
      BY <3>3, <3>4
  <2>4. Cut(tail, {"#"}, c - e)
    <3>1. c - e \in 1..Len(tail)
      BY <1>1, <1>3, <1>6, <2>3
    <3>2. \A k \in 1..(c - e) : tail[k] \notin {"#"}
      BY <1>1, <1>3, <1>6, <2>3
    <3>3. c - e < Len(tail) => tail[(c - e) + 1] \in {"#"}
      <4>1. c - e < Len(tail) => c < Len(q) /\ (c - e) + 1 \in 1..(Len(q) - e)
        BY <1>1, <1>3, <1>6, <2>3
      <4>2. e + ((c - e) + 1) = c + 1
        BY <1>1, <2>3
      <4>3. \A k \in 1..(Len(q) - e) : tail[k] = q[e + k]
        BY <1>3
      <4> HIDE DEF tail
      <4>4. ASSUME c - e < Len(tail) PROVE tail[(c - e) + 1] = q[c + 1] /\ q[c + 1] = "#"
        BY ONLY <2>3, <4>1, <4>2, <4>3, <4>4
      <4> QED
        BY ONLY <4>4
    <3>4. Len(tail) \in Nat
      BY <1>3
    <3> HIDE DEF tail
    <3> QED
      BY <3>1, <3>2, <3>3, <3>4 DEF Cut
  <2>5. text = SubSeq(tail, 1, c - e)
    BY ONLY <1>3, <2>4, UpToIsCut
  <2>6. text = SubSeq(q, end, c) /\ Len(text) >= 1 /\ text[1] = q[end]
    <3> DEFINE u == SubSeq(tail, 1, c - e)
               v == SubSeq(q, end, c)
    <3>1. c - e \in 1..Len(tail) /\ end = e + 1 /\ end \in 1..Len(q) /\ c \in end..Len(q)
      BY <1>1, <1>3, <1>6, <2>3
    <3>2. u \in Seq(A) /\ Len(u) = c - e /\ \A k \in 1..(c - e) : u[k] = q[e + k]
      BY <1>1, <1>3, <3>1
    <3>3. v \in Seq(A) /\ Len(v) = c - e /\ \A k \in 1..(c - e) : v[k] = q[e + k]
      BY <1>1, <3>1, SMTT(40)
    <3> HIDE DEF u, v
    <3>4. u = v
      BY <3>2, <3>3, SameSeq
    <3>5. Len(u) >= 1 /\ u[1] = q[end]
      BY <1>1, <1>3, <3>1, <3>2
    <3> QED
      BY <2>5, <3>4, <3>5 DEF u, v
  <2>7. text # <<>> /\ Head(text) = q[end] /\ q[end] \in {"/", "?"}
    BY <1>1, <1>6, <2>6 DEF Address!Ends
  <2>8. Address!Resource(q, end) = IF Head(text) = "?" THEN <<"/">> \o text ELSE text
    BY <1>6, <2>1, <2>2, <2>6 DEF Address!Resource, Address!npos
  <2> HIDE DEF text
  <2> QED
    BY <1>2, <2>7, <2>8
<1> QED
  BY <1>4, <1>5, <1>6

(* Split, with the place of the host given by its end *)
LEMMA SplitOf ==
  ASSUME NEW q, NEW end, Address!Target(q) = Address!Resource(q, end)
  PROVE  /\ LooseHosts(q) = {} => LooseSplit(q) = Address!Error
         /\ \A n, host, text : 
              /\ LooseHosts(q) = {n}
              /\ host = IF q[1] = "[" THEN SubSeq(q, 2, n - 1) ELSE SubSeq(q, 1, n)
              /\ text = SubSeq(q, n + 2, Len(Address!Authority(q)))
              => LooseSplit(q) = Address!Result(host, Address!PortOf(text, 80), q, end, "ws")
<1>1. LooseHosts(q) = {} => LooseSplit(q) = Address!Error
  BY DEF LooseSplit
<1>2. ASSUME NEW n, NEW host, NEW text,
             LooseHosts(q) = {n},
             host = IF q[1] = "[" THEN SubSeq(q, 2, n - 1) ELSE SubSeq(q, 1, n),
             text = SubSeq(q, n + 2, Len(Address!Authority(q)))
      PROVE  LooseSplit(q) = Address!Result(host, Address!PortOf(text, 80), q, end, "ws")
  <2>1. (CHOOSE m \in LooseHosts(q) : TRUE) = n
    BY <1>2
  <2> QED
    BY <1>2, <2>1 DEF LooseSplit, Address!Result, Address!PortOf
<1> QED
  BY <1>1, <1>2

LEMMA AmongFirst ==
  ASSUME NEW A, NEW q \in Seq(A), NEW m \in 1..(Len(q) + 1), NEW n \in (m - 1)..Len(q), NEW c
  PROVE  c \in Address!ToSet(SubSeq(q, m, n)) <=> \E k \in m..n : q[k] = c
<1> DEFINE u == SubSeq(q, m, n)
<1>1. /\ DOMAIN u = 1..(n - m + 1)
      /\ \A k \in 1..(n - m + 1) : u[k] = q[m + k - 1]
  OBVIOUS
<1> HIDE DEF u
<1>2. c \in Address!ToSet(u) <=> \E k \in DOMAIN u : u[k] = c
  BY DEF Address!ToSet
<1>3. ASSUME NEW k \in m..n PROVE k - m + 1 \in 1..(n - m + 1) /\ u[k - m + 1] = q[k]
  <2>1. k - m + 1 \in 1..(n - m + 1) /\ m + (k - m + 1) - 1 = k
    OBVIOUS
  <2> QED
    BY ONLY <1>1, <2>1
<1>4. ASSUME NEW k \in 1..(n - m + 1) PROVE m + k - 1 \in m..n /\ u[k] = q[m + k - 1]
  BY <1>1
<1> QED
  BY <1>1, <1>2, <1>3, <1>4, ZenonT(60) DEF u

(* LooseHosts by its characters, with the end e of the authority; there is one at
   most *)
LEMMA LooseHostsAre ==
  ASSUME NEW A, NEW q \in Seq(A), NEW e \in 0..Len(q), Len(Address!Authority(q)) = e
  PROVE  /\ \A n \in 1..e : n \in LooseHosts(q) <=>
              /\ n = e \/ q[n + 1] = ":"
              /\ IF q[1] = "[" THEN q[n] = "]" /\ \A k \in 1..(n - 1) : q[k] # "]"
                               ELSE \A k \in 1..n : q[k] # ":"
         /\ LooseHosts(q) \subseteq 1..e
         /\ \A m, n \in LooseHosts(q) : m = n
<1>1. \A n \in 1..e : n \in LooseHosts(q) <=>
              /\ n = e \/ q[n + 1] = ":"
              /\ IF q[1] = "[" THEN q[n] = "]" /\ \A k \in 1..(n - 1) : q[k] # "]"
                               ELSE \A k \in 1..n : q[k] # ":"
  <2> SUFFICES ASSUME NEW n \in 1..e
               PROVE  n \in LooseHosts(q) <=>
                        /\ n = e \/ q[n + 1] = ":"
                        /\ IF q[1] = "[" THEN q[n] = "]" /\ \A k \in 1..(n - 1) : q[k] # "]"
                                         ELSE \A k \in 1..n : q[k] # ":"
    OBVIOUS
  <2>1. "]" \in Address!ToSet(SubSeq(q, 1, n - 1)) <=> \E k \in 1..(n - 1) : q[k] = "]"
    BY AmongFirst
  <2>2. ":" \in Address!ToSet(SubSeq(q, 1, n)) <=> \E k \in 1..n : q[k] = ":"
    BY AmongFirst
  <2> QED
    BY <2>1, <2>2 DEF LooseHosts
<1>2. LooseHosts(q) \subseteq 1..e
  BY DEF LooseHosts
<1>3. ASSUME NEW m \in LooseHosts(q), NEW n \in LooseHosts(q), m < n PROVE FALSE
  <2>1. m \in 1..e /\ n \in 1..e /\ e \in Nat /\ q[m + 1] = ":"
    BY <1>1, <1>2, <1>3
  <2>2. CASE q[1] = "["
    BY <1>1, <1>3, <2>1, <2>2
  <2>3. CASE q[1] # "["
    BY <1>1, <1>3, <2>1, <2>3
  <2> QED
    BY <2>2, <2>3
<1>4. ASSUME NEW m \in LooseHosts(q), NEW n \in LooseHosts(q) PROVE m = n
  <2>1. m \in 1..e /\ n \in 1..e /\ e \in Nat
    BY <1>2
  <2> QED
    BY <1>3, <2>1
<1> QED
  BY <1>1, <1>2, <1>4

(* what is said of the end of a host: nothing, or a colon and digits, follows *)
PortBehind(q, e, n) ==
  n = e \/ (q[n + 1] = ":" /\ \A k \in (n + 2)..e : q[k] \in Address!ToSet(Address!Digits))

(* With a proper authority the divisions are the loose ones that a port follows, but
   for an empty host, with which no loose one begins. *)
LEMMA DivisionsAre ==
  ASSUME NEW A, NEW q \in Seq(A), NEW e \in 0..Len(q), Len(Address!Authority(q)) = e,
         Address!ProperAuthority(q)
  PROVE  /\ \A w \in Address!Divisions(q) :
              /\ w = <<1, w[2]>> /\ w[2] \in 0..e /\ PortBehind(q, e, w[2])
              /\ w[2] = 0 => LooseHosts(q) = {}
              /\ w[2] # 0 => w[2] \in LooseHosts(q)
         /\ \A n \in LooseHosts(q) : PortBehind(q, e, n) => <<1, n>> \in Address!Divisions(q)
<1>1. /\ \A k \in 1..e : q[k] # "@"
      /\ q # <<>> /\ q[1] # "[" =>
           \A k \in 1..e : q[k] \in {"[", "]"} => \E j \in 1..(k - 1) : q[j] = ":"
      /\ Address!ProperHost(q)
  BY DEF Address!ProperAuthority
<1>2. e \in Nat
  OBVIOUS
<1>3. \A w : w \in Address!Divisions(q) <=>
               w \in (1..(e + 1)) \X (0..e) /\ Address!Divides(q, e, w[1], w[2])
  BY DEF Address!Divisions
<1>4. ASSUME NEW w \in Address!Divisions(q)
      PROVE  /\ w = <<1, w[2]>> /\ w[2] \in 0..e /\ PortBehind(q, e, w[2])
             /\ w[2] = 0 => LooseHosts(q) = {}
             /\ w[2] # 0 => w[2] \in LooseHosts(q)
  <2>1. w = <<w[1], w[2]>> /\ w[1] \in 1..(e + 1) /\ w[2] \in 0..e
    BY <1>3
  <2>2. Address!Divides(q, e, w[1], w[2])
    BY <1>3
  <2>3. PICK m \in 1..(e + 1), n \in 0..e : m = w[1] /\ n = w[2]
    BY <2>1
  <2>4. m = 1
    <3>1. m = 1 \/ q[m - 1] = "@"
      BY <2>2, <2>3 DEF Address!Divides
    <3>2. m # 1 => m - 1 \in 1..e
      BY <1>2
    <3> QED
      BY <1>1, <3>1, <3>2
  <2>5. PortBehind(q, e, n)
    BY <2>2, <2>3 DEF Address!Divides, PortBehind
  <2>6. /\ 1 <= n /\ q[1] = "[" =>
             1 < n /\ q[n] = "]" /\ \A k \in 2..(n - 1) : q[k] \notin {"@", "[", "]"}
        /\ ~(1 <= n /\ q[1] = "[") => \A k \in 1..n : q[k] # ":"
    BY <2>2, <2>3, <2>4 DEF Address!Divides, Address!Marks
  <2>7. n = 0 => LooseHosts(q) = {}
    <3> SUFFICES ASSUME n = 0, NEW l \in LooseHosts(q) PROVE FALSE
      OBVIOUS
    <3>1. l \in 1..e
      BY LooseHostsAre
    <3>2. q[1] = ":"
      BY <1>2, <2>5, <3>1 DEF PortBehind
    <3> QED
      BY <1>2, <3>1, <3>2, LooseHostsAre
  <2>8. n # 0 => n \in LooseHosts(q)
    <3> SUFFICES ASSUME n # 0 PROVE n \in LooseHosts(q)
      OBVIOUS
    <3>1. n \in 1..e /\ (n = e \/ q[n + 1] = ":")
      BY <1>2, <2>5 DEF PortBehind
    <3>2. IF q[1] = "[" THEN q[n] = "]" /\ \A k \in 1..(n - 1) : q[k] # "]"
                        ELSE \A k \in 1..n : q[k] # ":"
      BY <2>6, <3>1
    <3> QED
      BY <3>1, <3>2, LooseHostsAre
  <2> QED
    BY <2>1, <2>3, <2>4, <2>5, <2>7, <2>8
<1>5. ASSUME NEW n \in LooseHosts(q), PortBehind(q, e, n)
      PROVE  <<1, n>> \in Address!Divisions(q)
  <2>1. n \in 1..e
    BY LooseHostsAre
  <2>2. IF q[1] = "[" THEN q[n] = "]" /\ \A k \in 1..(n - 1) : q[k] # "]"
                      ELSE \A k \in 1..n : q[k] # ":"
    BY <2>1, LooseHostsAre
  <2>3. q # <<>> /\ Len(q) \in Nat
    BY <2>1
  <2>4. CASE q[1] = "["
    <3>1. 1 < n /\ q[n] = "]"
      BY <2>1, <2>2, <2>4
    <3>2. Address!find_first_of(q, {"]"}, 1) = n
      <4>1. n \in 1..Len(q) /\ q[n] \in {"]"} /\ \A k \in 1..(n - 1) : q[k] \notin {"]"}
        BY <2>1, <2>2, <2>4
      <4> QED
        BY <4>1, FoundAt
    <3>3. Address!Bracketed(q)
      <4>1. \E k \in DOMAIN q : q[k] = "]"
        BY <2>1, <2>2, <2>4
      <4> QED
        BY <2>3, <2>4, <4>1 DEF Address!Bracketed, Address!ToSet
    <3>4. "[" \notin Address!ToSet(SubSeq(q, 2, n - 1))
      BY <1>1, <3>2, <3>3 DEF Address!ProperHost
    <3>5. \A k \in 2..(n - 1) : q[k] # "["
      <4>1. 2 \in 1..(Len(q) + 1) /\ n - 1 \in (2 - 1)..Len(q)
        BY <2>1, <2>3, <3>1
      <4> QED
        BY <3>4, <4>1, AmongFirst
    <3>6. \A k \in 2..(n - 1) : q[k] \notin Address!Marks
      BY <1>1, <2>1, <2>2, <2>4, <3>5 DEF Address!Marks
    <3>7. Address!Divides(q, e, 1, n)
      BY <1>5, <2>1, <2>4, <3>1, <3>6 DEF Address!Divides, PortBehind
    <3> QED
      BY <1>3, <2>1, <3>7
  <2>5. CASE q[1] # "["
    <3>1. \A k \in 1..n : q[k] \notin Address!Marks \cup {":"}
      <4> SUFFICES ASSUME NEW k \in 1..n, q[k] \in Address!Marks \cup {":"} PROVE FALSE
        OBVIOUS
      <4>1. k \in 1..e /\ q[k] # ":" /\ \A j \in 1..(k - 1) : q[j] # ":"
        BY <2>1, <2>2, <2>5
      <4> QED
        BY <1>1, <2>3, <2>5, <4>1 DEF Address!Marks
    <3>2. Address!Divides(q, e, 1, n)
      BY <1>5, <2>1, <2>5, <3>1 DEF Address!Divides, PortBehind
    <3> QED
      BY <1>3, <2>1, <3>2
  <2> QED
    BY <2>4, <2>5
<1> QED
  BY <1>4, <1>5

(* the text behind the colon, and whether it is digits *)
LEMMA PortTextIs ==
  ASSUME NEW A, NEW q \in Seq(A), NEW e \in 0..Len(q), NEW n \in 0..e,
         n = e \/ q[n + 1] = ":", NEW text, text = SubSeq(q, n + 2, e)
  PROVE  PortBehind(q, e, n) <=>
           Address!ToSet(text) \subseteq Address!ToSet(Address!Digits)
<1>1. e \in Nat /\ n \in Nat /\ Len(q) \in Nat
  OBVIOUS
<1>2. CASE n = e
  <2>1. text = <<>>
    BY <1>1, <1>2
  <2>2. Address!ToSet(text) = {}
    <3>1. DOMAIN text = {}
      BY <2>1
    <3> QED
      BY ONLY <3>1 DEF Address!ToSet
  <2>3. PortBehind(q, e, n)
    BY <1>2 DEF PortBehind
  <2> QED
    BY ONLY <2>2, <2>3
<1>3. CASE n # e
  <2>1. n + 2 \in 1..(Len(q) + 1) /\ e \in (n + 2 - 1)..Len(q)
    BY <1>1, <1>3
  <2>2. \A c : c \in Address!ToSet(text) <=> \E k \in (n + 2)..e : q[k] = c
    BY <2>1, AmongFirst
  <2> QED
    BY <1>3, <2>2 DEF PortBehind
<1> QED
  BY <1>2, <1>3

(* With a proper authority the definition divides as the loose one does. *)
LEMMA SplitIsLoose ==
  ASSUME NEW A, NEW q \in Seq(A), Address!ProperAuthority(q)
  PROVE  Address!Split(q) = LooseSplit(q)
<1>1. PICK e \in 0..Len(q) : Len(Address!Authority(q)) = e
  BY FirstIsCut, AuthorityIs, SMTT(40)
<1>2. e \in Nat /\ Len(q) \in Nat
  OBVIOUS
<1>3. CASE Address!Divisions(q) = {}
  <2>1. Address!Split(q) = Address!Error
    BY <1>3 DEF Address!Split
  <2>2. CASE LooseHosts(q) = {}
    BY <2>1, <2>2 DEF LooseSplit
  <2>3. CASE LooseHosts(q) # {}
    <3>1. PICK n : n \in LooseHosts(q) /\ n = CHOOSE m \in LooseHosts(q) : TRUE
      BY <2>3
    <3>2. n \in 1..e /\ (n = e \/ q[n + 1] = ":") /\ ~PortBehind(q, e, n)
      BY <1>1, <1>3, <3>1, LooseHostsAre, DivisionsAre, ZenonT(60)
    <3>3. PICK text : text = SubSeq(q, n + 2, e)
      OBVIOUS
    <3>4. ~(Address!ToSet(text) \subseteq Address!ToSet(Address!Digits))
      <4>1. n \in 0..e
        BY <3>2
      <4> QED
        BY ONLY <3>2, <3>3, <4>1, e \in 0..Len(q), q \in Seq(A), PortTextIs
    <3>5. text # <<>>
      BY <3>4 DEF Address!ToSet
    <3>6. Address!parse_port(text) = Address!npos
      BY <3>4 DEF Address!parse_port
    <3> QED
      BY <1>1, <2>1, <2>3, <3>1, <3>3, <3>5, <3>6 DEF LooseSplit
  <2> QED
    BY <2>2, <2>3
<1>4. CASE Address!Divisions(q) # {}
  <2>1. PICK w : w \in Address!Divisions(q) /\ w = CHOOSE v \in Address!Divisions(q) : TRUE
    BY <1>4
  <2>2. PICK n \in 0..e : n = w[2]
    BY <1>1, <2>1, DivisionsAre
  <2>3. /\ w[1] = 1 /\ PortBehind(q, e, n)
        /\ n = 0 => LooseHosts(q) = {}
        /\ n # 0 => n \in LooseHosts(q)
    BY <1>1, <2>1, <2>2, DivisionsAre
  <2>4. PICK text : text = SubSeq(q, n + 2, e)
    OBVIOUS
  <2>5. Address!ToSet(text) \subseteq Address!ToSet(Address!Digits)
    BY <1>1, <2>3, <2>4, PortTextIs DEF PortBehind
  <2> DEFINE host == IF 1 <= n /\ q[1] = "[" THEN SubSeq(q, 2, n - 1) ELSE SubSeq(q, 1, n)
             port == IF text = <<>> THEN 80 ELSE Address!Value(text)
  <2>6. Address!Split(q) =
          IF host = <<>> \/ port \notin 1..Address!MaxPort THEN Address!Error
          ELSE [ok |-> TRUE, protocol |-> "ws", host |-> host, port |-> port,
                resource |-> Address!Target(q)]
    <3> DEFINE h == IF w[1] <= w[2] /\ q[w[1]] = "[" THEN SubSeq(q, w[1] + 1, w[2] - 1)
                                                    ELSE SubSeq(q, w[1], w[2])
               t == SubSeq(q, w[2] + 2, Len(Address!Authority(q)))
               p == IF t = <<>> THEN 80 ELSE Address!Value(t)
    <3>1. Address!Split(q) =
            IF h = <<>> \/ p \notin 1..Address!MaxPort THEN Address!Error
            ELSE [ok |-> TRUE, protocol |-> "ws", host |-> h, port |-> p,
                  resource |-> Address!Target(q)]
      BY ONLY <1>4, <2>1, Zenon DEF Address!Split
    <3>2. h = host
      BY <2>2, <2>3
    <3>3. t = text
      BY ONLY <1>1, <2>2, <2>4
    <3> QED
      BY ONLY <3>1, <3>2, <3>3
  <2>7. CASE n = 0
    <3>1. host = <<>>
      BY <2>7
    <3>2. LooseSplit(q) = Address!Error
      BY <2>3, <2>7 DEF LooseSplit
    <3> QED
      BY <2>6, <3>1, <3>2
  <2>8. CASE n # 0
    <3>1. n \in LooseHosts(q) /\ 1 <= n
      BY <1>2, <2>3, <2>8
    <3>2. (CHOOSE m \in LooseHosts(q) : TRUE) = n
      BY <1>1, <3>1, LooseHostsAre
    <3> DEFINE given == IF text = <<>> THEN 80 ELSE Address!parse_port(text)
    <3>3. LooseSplit(q) =
            IF host = <<>> \/ given = Address!npos THEN Address!Error
            ELSE [ok |-> TRUE, protocol |-> "ws", host |-> host, port |-> given,
                  resource |-> Address!Target(q)]
      BY <1>1, <2>4, <3>1, <3>2 DEF LooseSplit
    <3>4. /\ port \in 1..Address!MaxPort => given = port /\ given # Address!npos
          /\ port \notin 1..Address!MaxPort => given = Address!npos
      <4>1. 80 \in 1..Address!MaxPort
        BY DEF Address!MaxPort
      <4>2. Address!npos \notin 1..Address!MaxPort
        BY DEF Address!npos, Address!MaxPort
      <4>3. Address!parse_port(text) = IF Address!Value(text) \in 1..Address!MaxPort
                                       THEN Address!Value(text) ELSE Address!npos
        BY <2>5 DEF Address!parse_port
      <4> QED
        BY ONLY <4>1, <4>2, <4>3
    <3> HIDE DEF host, port, given
    <3> QED
      BY ONLY <2>6, <3>3, <3>4
  <2> QED
    BY <2>7, <2>8
<1> QED
  BY <1>3, <1>4

(* an empty host is an error *)
LEMMA EmptyHost ==
  ASSUME NEW port, NEW q, NEW end, NEW p
  PROVE  Address!Result(<<>>, port, q, end, p) = Address!Error
BY DEF Address!Result

(* a host that is no text in brackets *)
LEMMA HostIsSplit ==
  ASSUME NEW A, NEW q \in Seq(A), q # <<>> => q[1] # "["
  PROVE  Address!parse_host(q, "ws", 80) = LooseSplit(q)
<1>1. PICK end : end = Address!find_first_of(q, Address!Ends, 1)
  OBVIOUS
<1>2. PICK colon : colon = Address!find_first_of(q, {":"}, 1)
  OBVIOUS
<1>3. PICK e : e = Address!HostEnd(q, end) - 1
  OBVIOUS
<1>4. /\ Len(q) \in Nat /\ e \in 0..Len(q) /\ Cut(q, Address!Ends, e)
      /\ Address!HostEnd(q, end) = e + 1 /\ Address!HostEnd(q, end) - 1 = e
      /\ end = 0 => e = Len(q)
      /\ end # 0 => end = e + 1
      /\ end \in Nat
  <2>1. /\ Cut(q, Address!Ends, e) /\ e \in 0..Len(q)
    BY <1>1, <1>3, FirstIsCut
  <2>2. end \in 0..Len(q) /\ Len(q) \in Nat
    BY <1>1, FindFirst
  <2> QED
    BY <1>3, <2>1, <2>2 DEF Address!HostEnd, Address!npos
<1>5. Len(Address!Authority(q)) = e
  BY <1>4, AuthorityIs
<1>6. \/ colon = 0 /\ \A k \in 1..Len(q) : q[k] # ":"
      \/ /\ colon \in 1..Len(q) /\ q[colon] = ":"
         /\ \A k \in 1..(colon - 1) : q[k] # ":"
  BY <1>2, FindFirst
<1>7. LooseHosts(q) = {n \in 1..e : (n = e \/ q[n + 1] = ":") /\ \A k \in 1..n : q[k] # ":"}
  <2>1. ASSUME NEW n \in 1..e
        PROVE  /\ q[1] # "["
               /\ ":" \notin Address!ToSet(SubSeq(q, 1, n)) <=> \A k \in 1..n : q[k] # ":"
    <3>1. n \in (1 - 1)..Len(q) /\ 1 \in 1..(Len(q) + 1) /\ q # <<>>
      BY <1>4
    <3> QED
      BY <3>1, AmongFirst
  <2> QED
    BY <1>5, <2>1 DEF LooseHosts
<1>8. Address!Target(q) = Address!Resource(q, end)
  BY <1>1, TargetIsResource
<1> DEFINE R(host, text) == Address!Result(host, Address!PortOf(text, 80), q, end, "ws")
<1>9. /\ LooseHosts(q) = {} => LooseSplit(q) = Address!Error
      /\ \A n \in 1..e : LooseHosts(q) = {n} =>
           LooseSplit(q) = R(SubSeq(q, 1, n), SubSeq(q, n + 2, e))
  <2>1. ASSUME NEW n \in 1..e PROVE q[1] # "["
    BY <1>4
  <2> QED
    BY <1>5, <1>8, <2>1, SplitOf, ZenonT(60)
<1>10. CASE Address!IsPort(colon, end)
  <2>1. /\ colon \in 1..e /\ q[colon] = ":" /\ \A k \in 1..(colon - 1) : q[k] # ":"
    BY <1>4, <1>6, <1>10 DEF Address!IsPort, Address!npos
  <2>2. Address!parse_host(q, "ws", 80) = R(SubSeq(q, 1, colon - 1), SubSeq(q, colon + 1, e))
    BY <1>1, <1>2, <1>4, <1>10 DEF Address!parse_host
  <2>3. CASE colon = 1
    <3>1. SubSeq(q, 1, colon - 1) = <<>>
      BY <2>3
    <3>2. LooseHosts(q) = {}
      BY <1>7, <2>1, <2>3
    <3> QED
      BY <1>9, <2>2, <3>1, <3>2, EmptyHost
  <2>4. CASE colon # 1
    <3>1. LooseHosts(q) = {colon - 1}
      <4>1. ASSUME NEW n \in 1..e, n = e \/ q[n + 1] = ":", \A k \in 1..n : q[k] # ":"
            PROVE  n = colon - 1
        <5>1. n < colon
          BY <1>4, <2>1, <4>1
        <5>2. n + 1 >= colon
          BY <1>4, <2>1, <4>1, <5>1
        <5> QED
          BY <1>4, <2>1, <5>1, <5>2
      <4>2. colon - 1 \in 1..e /\ q[(colon - 1) + 1] = ":"
        BY <1>4, <2>1, <2>4
      <4> QED
        BY <1>7, <2>1, <4>1, <4>2
    <3>2. colon - 1 \in 1..e /\ (colon - 1) + 2 = colon + 1
      BY <1>4, <2>1, <2>4
    <3> QED
      BY <1>9, <2>2, <3>1, <3>2
  <2> QED
    BY <2>3, <2>4
<1>11. CASE ~Address!IsPort(colon, end)
  <2>1. \A k \in 1..e : q[k] # ":"
    BY <1>4, <1>6, <1>11 DEF Address!IsPort, Address!npos
  <2>2. Address!parse_host(q, "ws", 80)
          = Address!Result(SubSeq(q, 1, e), 80, q, end, "ws")
    BY <1>1, <1>2, <1>4, <1>11 DEF Address!parse_host
  <2>3. CASE e = 0
    <3>1. SubSeq(q, 1, e) = <<>>
      BY <2>3
    <3>2. LooseHosts(q) = {}
      BY <1>7, <2>3
    <3> QED
      BY <1>9, <2>2, <3>1, <3>2, EmptyHost
  <2>4. CASE e # 0
    <3>1. LooseHosts(q) = {e}
      <4>1. ASSUME NEW n \in 1..e, n = e \/ q[n + 1] = ":" PROVE n = e
        BY <1>4, <2>1, <4>1
      <4>2. e \in 1..e
        BY <1>4, <2>4
      <4> QED
        BY <1>7, <2>1, <4>1, <4>2
    <3>2. e \in 1..e /\ SubSeq(q, e + 2, e) = <<>>
      BY <1>4, <2>4
    <3>3. R(SubSeq(q, 1, e), <<>>) = Address!Result(SubSeq(q, 1, e), 80, q, end, "ws")
      BY DEF Address!PortOf
    <3> QED
      BY <1>9, <2>2, <3>1, <3>2, <3>3
  <2> QED
    BY <2>3, <2>4
<1> QED
  BY <1>10, <1>11

(* a host in brackets *)
LEMMA BracketsAreSplit ==
  ASSUME NEW A, NEW q \in Seq(A), q # <<>>, q[1] = "[", Address!ProperHost(q)
  PROVE  Address!parse_ipv6(q, "ws", 80) = LooseSplit(q)
<1>1. PICK close : close = Address!find_first_of(q, {"]"}, 1)
  OBVIOUS
<1>2. Len(q) \in Nat /\ Len(q) >= 1
  OBVIOUS
<1>3. \/ close = 0 /\ \A k \in 1..Len(q) : q[k] # "]"
      \/ /\ close \in 1..Len(q) /\ q[close] = "]"
         /\ \A k \in 1..(close - 1) : q[k] # "]"
  BY <1>1, FindFirst
<1>4. PICK first : first = Address!find_first_of(q, Address!Ends, 1)
  OBVIOUS
<1>5. PICK e : e = Address!HostEnd(q, first) - 1
  OBVIOUS
<1>6. /\ e \in 0..Len(q) /\ Cut(q, Address!Ends, e)
      /\ Address!HostEnd(q, first) = e + 1 /\ Address!HostEnd(q, first) - 1 = e
      /\ first = 0 => e = Len(q)
      /\ first # 0 => first = e + 1
      /\ first \in Nat
  <2>1. /\ Cut(q, Address!Ends, e) /\ e \in 0..Len(q)
    BY <1>4, <1>5, FirstIsCut
  <2>2. first \in 0..Len(q)
    BY <1>2, <1>4, FindFirst
  <2> QED
    BY <1>2, <1>5, <2>1, <2>2 DEF Address!HostEnd, Address!npos
<1>7. Len(Address!Authority(q)) = e
  BY <1>6, AuthorityIs
<1>8. LooseHosts(q) = {n \in 1..e : /\ n = e \/ q[n + 1] = ":"
                                 /\ q[n] = "]" /\ \A k \in 1..(n - 1) : q[k] # "]"}
  <2>1. ASSUME NEW n \in 1..e
        PROVE  "]" \notin Address!ToSet(SubSeq(q, 1, n - 1)) <=> \A k \in 1..(n - 1) : q[k] # "]"
    <3>1. n - 1 \in (1 - 1)..Len(q) /\ 1 \in 1..(Len(q) + 1)
      BY <1>2, <1>6
    <3> QED
      BY <3>1, AmongFirst
  <2> QED
    BY <1>7, <2>1 DEF LooseHosts
<1>9. Address!Target(q) = Address!Resource(q, first)
  BY <1>4, TargetIsResource
<1> DEFINE R(host, text) == Address!Result(host, Address!PortOf(text, 80), q, first, "ws")
<1>10. /\ LooseHosts(q) = {} => LooseSplit(q) = Address!Error
       /\ \A n \in 1..e : LooseHosts(q) = {n} =>
            LooseSplit(q) = R(SubSeq(q, 2, n - 1), SubSeq(q, n + 2, e))
  BY <1>7, <1>9, SplitOf, ZenonT(60)
<1>11. CASE close = 0
  <2>1. LooseHosts(q) = {}
    BY <1>2, <1>3, <1>6, <1>8, <1>11
  <2> QED
    BY <1>1, <1>10, <1>11, <2>1 DEF Address!parse_ipv6, Address!npos
<1>12. CASE close # 0
  <2>1. close \in 2..Len(q) /\ q[close] = "]" /\ \A k \in 1..(close - 1) : q[k] # "]"
    BY <1>2, <1>3, <1>12
  <2>2. \A k \in 1..close : q[k] \notin Address!Ends
    <3>1. Address!Bracketed(q)
      <4>1. DOMAIN q = 1..Len(q) /\ Head(q) = q[1]
        OBVIOUS
      <4> QED
        BY ONLY q # <<>>, q[1] = "[", <1>2, <2>1, <4>1 DEF Address!Bracketed, Address!ToSet
    <3>2. Address!ToSet(SubSeq(q, 2, close - 1)) \cap (Address!Ends \cup {"["}) = {}
      BY <1>1, <3>1 DEF Address!ProperHost
    <3>3. ASSUME NEW k \in 2..(close - 1) PROVE q[k] \notin Address!Ends
      <4>1. 2 \in 1..(Len(q) + 1) /\ close - 1 \in (2 - 1)..Len(q)
        BY <1>2, <2>1
      <4>2. q[k] \in Address!ToSet(SubSeq(q, 2, close - 1))
        BY <4>1, AmongFirst
      <4> QED
        BY <3>2, <4>2
    <3>4. q[1] \notin Address!Ends /\ q[close] \notin Address!Ends
      BY <2>1 DEF Address!Ends
    <3> QED
      BY <2>1, <3>3, <3>4
  <2>3. e >= close
    <3> SUFFICES ASSUME e < close PROVE FALSE
      BY <1>6, <2>1
    <3>1. q[e + 1] \in Address!Ends /\ e + 1 \in 1..close
      BY <1>2, <1>6, <2>1 DEF Cut
    <3> QED
      BY <2>2, <3>1
  <2>4. PICK start : start = close + 1
    OBVIOUS
  <2>5. start \in Nat \ {0} /\ start = close + 1
    BY <2>1, <2>4
  <2>6. Address!find_first_of(q, Address!Ends, start) = first
    <3>1. CASE first = 0
      <4>1. \A k \in start..Len(q) : q[k] \notin Address!Ends
        BY <1>2, <1>6, <2>5, <3>1 DEF Cut
      <4> QED
        BY <2>5, <3>1, <4>1, NotFound
    <3>2. CASE first # 0
      <4>1. first \in start..Len(q) /\ q[first] \in Address!Ends
        <5>1. first \in 1..Len(q) /\ q[first] \in Address!Ends
          BY <1>4, <3>2, FindFirst
        <5> QED
          BY <1>2, <1>6, <2>1, <2>3, <2>5, <3>2, <5>1
      <4>2. \A k \in start..(first - 1) : q[k] \notin Address!Ends
        BY <1>2, <1>6, <2>5, <3>2 DEF Cut
      <4> QED
        BY <2>5, <4>1, <4>2, FoundAt
    <3> QED
      BY <3>1, <3>2
  <2>7. PICK next : next = IF start <= Len(q) THEN q[start] ELSE "/"
    OBVIOUS
  <2>8. Address!parse_ipv6(q, "ws", 80) =
          IF next \notin {":"} \cup Address!Ends THEN Address!Error
          ELSE Address!Result(SubSeq(q, 2, close - 1),
                              IF next = ":" THEN Address!PortOf(SubSeq(q, start + 1, e), 80)
                                            ELSE 80,
                              q, first, "ws")
    BY <1>1, <1>6, <1>12, <2>4, <2>6, <2>7 DEF Address!parse_ipv6, Address!npos
  <2>9. ASSUME NEW n \in LooseHosts(q) PROVE n = close
    <3>1. n \in 1..Len(q) /\ q[n] = "]" /\ \A k \in 1..(n - 1) : q[k] # "]"
      BY <1>2, <1>6, <1>8
    <3> QED
      BY <1>2, <2>1, <3>1
  <2>10. close \in 1..e
    BY <1>6, <2>1, <2>3
  <2>11. close \in LooseHosts(q) <=> close = e \/ q[start] = ":"
    BY <1>8, <2>1, <2>5, <2>10
  <2>12. close = e <=> start > Len(q) \/ q[start] \in Address!Ends
    <3>1. ASSUME close = e PROVE start > Len(q) \/ q[start] \in Address!Ends
      BY <1>2, <1>6, <2>5, <3>1 DEF Cut
    <3>2. ASSUME close # e PROVE ~(start > Len(q)) /\ q[start] \notin Address!Ends
      BY <1>2, <1>6, <2>3, <2>5, <2>10, <3>2 DEF Cut
    <3> QED
      BY <3>1, <3>2
  <2>13. CASE next \notin {":"} \cup Address!Ends
    <3>1. LooseHosts(q) = {}
      BY <1>2, <2>5, <2>7, <2>9, <2>11, <2>12, <2>13 DEF Address!Ends
    <3> QED
      BY <1>10, <2>8, <2>13, <3>1
  <2>14. CASE next = ":"
    <3>1. start <= Len(q) /\ q[start] = ":"
      BY <2>7, <2>14
    <3>2. LooseHosts(q) = {close}
      BY <2>9, <2>11, <3>1
    <3>3. LooseSplit(q) = R(SubSeq(q, 2, close - 1), SubSeq(q, close + 2, e))
      BY <1>10, <2>10, <3>2
    <3>4. start + 1 = close + 2
      BY <2>1, <2>5
    <3> QED
      BY <2>8, <2>14, <3>3, <3>4
  <2>15. CASE next \in Address!Ends /\ next # ":"
    <3>1. close = e
      BY <1>2, <2>5, <2>7, <2>12, <2>15
    <3>2. LooseHosts(q) = {close}
      BY <2>9, <2>11, <3>1
    <3>3. LooseSplit(q) = R(SubSeq(q, 2, close - 1), SubSeq(q, close + 2, e))
      BY <1>10, <2>10, <3>2
    <3>4. SubSeq(q, close + 2, e) = <<>>
      BY <1>2, <2>1, <3>1
    <3>5. Address!PortOf(<<>>, 80) = 80
      BY DEF Address!PortOf
    <3> QED
      BY <2>8, <2>15, <3>3, <3>4, <3>5
  <2> QED
    BY <2>13, <2>14, <2>15
<1> QED
  BY <1>11, <1>12

(* parse accepts and divides as the definition does *)
LEMMA ParseIsSplit ==
  ASSUME NEW A, NEW u, u.rest \in Seq(A), u.protocol \in {"ws", "WS"},
         Address!ProperHost(u.rest)
  PROVE  Address!parse(u) = LooseSplit(u.rest)
<1>1. PICK q : q = u.rest
  OBVIOUS
<1>2. q \in Seq(A) /\ Address!ProperHost(q) /\ (q # <<>> => Head(q) = q[1])
  BY <1>1
<1>3. Address!parse(u) = IF q # <<>> /\ Head(q) = "[" THEN Address!parse_ipv6(q, "ws", 80)
                         ELSE Address!parse_host(q, "ws", 80)
  BY <1>1 DEF Address!parse, Address!tolower, Address!get_default_port, Address!npos
<1>4. CASE q # <<>> /\ Head(q) = "["
  BY <1>1, <1>2, <1>3, <1>4, BracketsAreSplit
<1>5. CASE ~(q # <<>> /\ Head(q) = "[")
  BY <1>1, <1>2, <1>3, <1>5, HostIsSplit
<1> QED
  BY <1>4, <1>5

(* numbers of five digits at most: the last digit and the ones in front of it *)
LEMMA DivTen ==
  ASSUME NEW m \in Nat, NEW t, NEW u, t = m \div 10, u = m % 10
  PROVE  t \in Nat /\ u \in 0..9 /\ m = 10 * t + u
OBVIOUS

LEMMA DivBounds ==
  ASSUME NEW m \in Nat, NEW t, t = m \div 10
  PROVE  /\ t \in Nat /\ (m >= 10 => t < m)
         /\ m < 100 <=> t < 10
         /\ m < 1000 <=> t < 100
         /\ m < 10000 <=> t < 1000
         /\ m < 100000 => t < 10000
<1>1. PICK u : u = m % 10
  OBVIOUS
<1>2. t \in Nat /\ u \in 0..9 /\ m = 10 * t + u
  BY <1>1, DivTen
<1> QED
  BY ONLY <1>2

Numbers == 0..Address!MaxNumber

LEMMA NumbersAre ==
  ASSUME NEW m \in Nat
  PROVE  m \in Numbers <=> m < 100000
<1>1. Address!MaxNumber = 99999 /\ Address!MaxNumber \in Nat
  BY SMTT(40) DEF Address!MaxNumber
<1>2. m \in 0..Address!MaxNumber <=> m < 100000
  BY ONLY <1>1, m \in Nat, SMTT(40)
<1> QED
  BY ONLY <1>2 DEF Numbers

LEMMA NumbersNat ==
  ASSUME NEW m \in Numbers
  PROVE  m \in Nat
<1>1. Address!MaxNumber \in Nat
  BY DEF Address!MaxNumber
<1> QED
  BY ONLY <1>1, m \in Numbers DEF Numbers

(* The recursion of Decimal has a solution: one case for each length. *)
One(n) == <<Address!Digits[n + 1]>>
Two(n) == Append(One(n \div 10), Address!Digits[(n % 10) + 1])
Three(n) == Append(Two(n \div 10), Address!Digits[(n % 10) + 1])
Four(n) == Append(Three(n \div 10), Address!Digits[(n % 10) + 1])
Five(n) == Append(Four(n \div 10), Address!Digits[(n % 10) + 1])

LongHand(m) ==
  IF m < 10 THEN One(m) ELSE IF m < 100 THEN Two(m)
  ELSE IF m < 1000 THEN Three(m) ELSE IF m < 10000 THEN Four(m) ELSE Five(m)

LEMMA LongHandIs ==
  ASSUME NEW m \in Nat
  PROVE  /\ m < 10 => LongHand(m) = One(m)
         /\ m >= 10 /\ m < 100 => LongHand(m) = Two(m)
         /\ m >= 100 /\ m < 1000 => LongHand(m) = Three(m)
         /\ m >= 1000 /\ m < 10000 => LongHand(m) = Four(m)
         /\ m >= 10000 => LongHand(m) = Five(m)
BY DEF LongHand

LEMMA LongHandStep ==
  ASSUME NEW m \in Nat, m >= 10, m < 100000
  PROVE  LongHand(m) = Append(LongHand(m \div 10), Address!Digits[(m % 10) + 1])
<1>1. PICK t \in Nat : t = m \div 10 /\ LongHand(t) = LongHand(m \div 10)
  BY DivBounds
<1>2. /\ m < 100 <=> t < 10
      /\ m < 1000 <=> t < 100
      /\ m < 10000 <=> t < 1000
      /\ t < 10000
  BY ONLY <1>1, DivBounds, m < 100000
<1>4. CASE m < 100
  <2>1. LongHand(m) = Two(m)
    BY ONLY <1>4, m >= 10, LongHandIs
  <2>2. LongHand(t) = One(t)
    BY ONLY <1>2, <1>4, LongHandIs
  <2>3. LongHand(m \div 10) = One(m \div 10)
    BY ONLY <1>1, <2>2, Zenon
  <2> QED
    BY ONLY <2>1, <2>3 DEF Two
<1>5. CASE m >= 100 /\ m < 1000
  <2>1. LongHand(m) = Three(m)
    BY ONLY <1>5, m >= 10, LongHandIs
  <2>2. LongHand(t) = Two(t)
    BY ONLY <1>2, <1>5, LongHandIs
  <2>3. LongHand(m \div 10) = Two(m \div 10)
    BY ONLY <1>1, <2>2, Zenon
  <2> QED
    BY ONLY <2>1, <2>3 DEF Three
<1>6. CASE m >= 1000 /\ m < 10000
  <2>1. LongHand(m) = Four(m)
    BY ONLY <1>6, m >= 10, LongHandIs
  <2>2. LongHand(t) = Three(t)
    BY ONLY <1>2, <1>6, LongHandIs
  <2>3. LongHand(m \div 10) = Three(m \div 10)
    BY ONLY <1>1, <2>2, Zenon
  <2> QED
    BY ONLY <2>1, <2>3 DEF Four
<1>7. CASE m >= 10000
  <2>1. LongHand(m) = Five(m)
    BY ONLY <1>7, m >= 10, LongHandIs
  <2>2. LongHand(t) = Four(t)
    BY ONLY <1>2, <1>7, LongHandIs
  <2>3. LongHand(m \div 10) = Four(m \div 10)
    BY ONLY <1>1, <2>2, Zenon
  <2> QED
    BY ONLY <2>1, <2>3 DEF Five
<1> QED
  BY ONLY <1>4, <1>5, <1>6, <1>7

(* so Decimal is what its definition says *)
LEMMA DecimalIs ==
  ASSUME NEW n \in Numbers
  PROVE  Address!Decimal[n] =
           IF n < 10 THEN <<Address!Digits[n + 1]>>
           ELSE Append(Address!Decimal[n \div 10], Address!Digits[(n % 10) + 1])
<1> DEFINE Eq(g) == g = [m \in Numbers |->
                           IF m < 10 THEN <<Address!Digits[m + 1]>>
                           ELSE Append(g[m \div 10], Address!Digits[(m % 10) + 1])]
<1>1. Address!Decimal = CHOOSE g : Eq(g)
  BY DEF Address!Decimal, Numbers
<1>2. PICK f : f = [m \in Numbers |-> LongHand(m)]
  OBVIOUS
<1>3. ASSUME NEW m \in Numbers
      PROVE  LongHand(m) = IF m < 10 THEN <<Address!Digits[m + 1]>>
                           ELSE Append(f[m \div 10], Address!Digits[(m % 10) + 1])
  <2>1. m \div 10 \in Numbers
    BY ONLY DivBounds, NumbersAre, NumbersNat, m \in Numbers
  <2>2. f[m \div 10] = LongHand(m \div 10)
    BY ONLY <1>2, <2>1
  <2>3. m \in Nat /\ m < 100000
    BY ONLY NumbersAre, NumbersNat, m \in Numbers
  <2>4. m < 10 => LongHand(m) = <<Address!Digits[m + 1]>>
    BY ONLY <2>3, LongHandIs DEF One
  <2>5. m >= 10 => LongHand(m) = Append(LongHand(m \div 10), Address!Digits[(m % 10) + 1])
    BY ONLY <2>3, LongHandStep
  <2>6. m < 10 \/ m >= 10
    BY ONLY <2>3
  <2>7. m >= 10 => ~(m < 10)
    BY ONLY <2>3
  <2> QED
    BY ONLY <2>2, <2>4, <2>5, <2>6, <2>7, Zenon
<1>4. Eq(f)
  BY ONLY <1>2, <1>3
<1>5. Eq(Address!Decimal)
  <2> HIDE DEF Eq
  <2> QED
    BY <1>1, <1>4
<1>6. PICK D : D = Address!Decimal
  OBVIOUS
<1> QED
  BY ONLY <1>5, <1>6, n \in Numbers

(* numbers: what std::to_string writes of a port, from_chars reads *)
Numerals == {Address!Digits[d + 1] : d \in 0..9}

LEMMA DigitOfNumeral ==
  ASSUME NEW d \in 0..9
  PROVE  Address!Digits[d + 1] \in Numerals /\ Address!DigitOf(Address!Digits[d + 1]) = d
<1>1. \A x, y \in 0..9 : Address!Digits[x + 1] = Address!Digits[y + 1] => x = y
  BY DEF Address!Digits
<1>2. (CHOOSE x \in 0..9 : Address!Digits[x + 1] = Address!Digits[d + 1]) = d
  BY <1>1
<1> QED
  BY <1>2 DEF Numerals, Address!DigitOf

(* Value by the digits of a text of five at most *)
Horner(q, n) ==
  LET d(k) == Address!DigitOf(q[k])
  IN  IF n = 0 THEN 0
      ELSE IF n = 1 THEN 10 * 0 + d(1)
      ELSE IF n = 2 THEN 10 * (10 * 0 + d(1)) + d(2)
      ELSE IF n = 3 THEN 10 * (10 * (10 * 0 + d(1)) + d(2)) + d(3)
      ELSE IF n = 4 THEN 10 * (10 * (10 * (10 * 0 + d(1)) + d(2)) + d(3)) + d(4)
      ELSE 10 * (10 * (10 * (10 * (10 * 0 + d(1)) + d(2)) + d(3)) + d(4)) + d(5)

(* Value is that of Horner, and one more digit appends to it *)
LEMMA ValueIs ==
  ASSUME NEW q \in Seq(Numerals), Len(q) <= 5
  PROVE  Address!Value(q) = Horner(q, Len(q))
<1> DEFINE Eq(g) == g = [n \in 0..Len(q) |-> IF n = 0 THEN 0
                                            ELSE 10 * g[n - 1] + Address!DigitOf(q[n])]
<1>1. Address!Value(q) = (CHOOSE g : Eq(g))[Len(q)]
  BY DEF Address!Value
<1>2. PICK f : f = [n \in 0..Len(q) |-> Horner(q, n)]
  OBVIOUS
<1>6. ASSUME NEW n \in 0..Len(q)
      PROVE  Horner(q, n) = IF n = 0 THEN 0 ELSE 10 * f[n - 1] + Address!DigitOf(q[n])
  <2>1. CASE n = 0
    BY ONLY <2>1 DEF Horner
  <2>2. CASE n # 0
    <3>0. PICK l \in Nat : l = Len(q)
      OBVIOUS
    <3>1. n \in 1..5 /\ n - 1 \in 0..Len(q)
      <4>1. l <= 5 /\ n \in 0..l
        BY ONLY <3>0, Len(q) <= 5, n \in 0..Len(q)
      <4>2. n \in 1..5 /\ n - 1 \in 0..l
        BY ONLY <2>2, <4>1, l \in Nat
      <4> QED
        BY ONLY <3>0, <4>2
    <3>2. f[n - 1] = Horner(q, n - 1)
      BY ONLY <1>2, <3>1
    <3>3. Horner(q, n) = 10 * Horner(q, n - 1) + Address!DigitOf(q[n])
      BY ONLY <3>1 DEF Horner
    <3> QED
      BY ONLY <2>2, <3>2, <3>3
  <2> QED
    BY <2>1, <2>2
<1>7. Eq(f)
  BY ONLY <1>2, <1>6
<1>3. Eq(CHOOSE g : Eq(g))
  <2> HIDE DEF Eq
  <2> QED
    BY <1>7
<1>4. \A g, h : Eq(g) /\ Eq(h) => \A n \in 0..Len(q) : g[n] = h[n]
  <2> SUFFICES ASSUME NEW g, NEW h, Eq(g), Eq(h)
               PROVE  \A n \in 0..Len(q) : g[n] = h[n]
    BY SMTT(40)
  <2>1. \A n \in 0..Len(q) : /\ g[n] = IF n = 0 THEN 0 ELSE 10 * g[n - 1] + Address!DigitOf(q[n])
                            /\ h[n] = IF n = 0 THEN 0 ELSE 10 * h[n - 1] + Address!DigitOf(q[n])
    OBVIOUS
  <2>2. g[0] = h[0]
    BY <2>1
  <2>3. 1 <= Len(q) => g[1] = h[1]
    BY <2>1, <2>2
  <2>4. 2 <= Len(q) => g[2] = h[2]
    BY <2>1, <2>3
  <2>5. 3 <= Len(q) => g[3] = h[3]
    BY <2>1, <2>4
  <2>6. 4 <= Len(q) => g[4] = h[4]
    BY <2>1, <2>5
  <2>7. 5 <= Len(q) => g[5] = h[5]
    BY <2>1, <2>6
  <2> QED
    BY <2>2, <2>3, <2>4, <2>5, <2>6, <2>7
<1>5. (CHOOSE g : Eq(g))[Len(q)] = f[Len(q)]
  <2> HIDE DEF Eq
  <2> QED
    BY <1>3, <1>4, <1>7
<1>8. Len(q) \in 0..Len(q)
  OBVIOUS
<1> QED
  BY ONLY <1>1, <1>2, <1>5, <1>8

LEMMA ValueAppend ==
  ASSUME NEW q \in Seq(Numerals), Len(q) <= 4, NEW d \in 0..9
  PROVE  Address!Value(Append(q, Address!Digits[d + 1])) = 10 * Address!Value(q) + d
<1>1. PICK c : c = Address!Digits[d + 1]
  OBVIOUS
<1>2. c \in Numerals /\ Address!DigitOf(c) = d
  BY <1>1, DigitOfNumeral
<1>3. PICK u : u = Append(q, c)
  OBVIOUS
<1>4. /\ u \in Seq(Numerals) /\ Len(u) = Len(q) + 1 /\ u[Len(q) + 1] = c
      /\ \A k \in 1..Len(q) : u[k] = q[k]
  BY <1>2, <1>3
<1>5. Address!Value(u) = Horner(u, Len(u)) /\ Address!Value(q) = Horner(q, Len(q))
  <2>1. Len(q) \in Nat /\ Len(q) <= 5 /\ Len(u) <= 5
    BY ONLY <1>4, Len(q) <= 4, q \in Seq(Numerals)
  <2> QED
    BY ONLY <1>4, <2>1, q \in Seq(Numerals), ValueIs
<1>6. Horner(u, Len(q) + 1) = 10 * Horner(q, Len(q)) + d
  <2>1. CASE Len(q) = 0
    BY ONLY <1>2, <1>4, <2>1 DEF Horner
  <2>2. CASE Len(q) = 1
    BY ONLY <1>2, <1>4, <2>2 DEF Horner
  <2>3. CASE Len(q) = 2
    BY ONLY <1>2, <1>4, <2>3 DEF Horner
  <2>4. CASE Len(q) = 3
    BY ONLY <1>2, <1>4, <2>4 DEF Horner
  <2>5. CASE Len(q) = 4
    BY ONLY <1>2, <1>4, <2>5 DEF Horner
  <2>6. PICK l \in Nat : l = Len(q)
    OBVIOUS
  <2>7. l \in {0, 1, 2, 3, 4}
    <3>1. l <= 4
      BY ONLY <2>6, Len(q) <= 4
    <3> QED
      BY ONLY <3>1, l \in Nat
  <2> QED
    BY ONLY <2>1, <2>2, <2>3, <2>4, <2>5, <2>6, <2>7
<1> QED
  BY <1>1, <1>3, <1>4, <1>5, <1>6

LEMMA OneDigit ==
  ASSUME NEW q \in Seq(Numerals), NEW c, Len(q) = 1, q[1] = c, Address!DigitOf(c) \in Nat
  PROVE  Address!Value(q) = Address!DigitOf(c)
<1>1. Len(q) <= 5
  OBVIOUS
<1>2. Address!Value(q) = Horner(q, Len(q))
  BY ONLY <1>1, q \in Seq(Numerals), ValueIs
<1>3. Horner(q, 1) = 10 * 0 + Address!DigitOf(c)
  BY ONLY q[1] = c DEF Horner
<1>4. 10 * 0 + Address!DigitOf(c) = Address!DigitOf(c)
  BY ONLY Address!DigitOf(c) \in Nat
<1> QED
  BY ONLY <1>2, <1>3, <1>4, Len(q) = 1

Written(n, w) ==
  /\ Address!Decimal[n] \in Seq(Numerals)
  /\ Len(Address!Decimal[n]) >= 1 /\ Len(Address!Decimal[n]) <= w
  /\ Address!Value(Address!Decimal[n]) = n

LEMMA WrittenStep ==
  ASSUME NEW w \in 1..4, NEW n \in Nat, n >= 10, n < 100000, Written(n \div 10, w)
  PROVE  Written(n, w + 1)
<1>1. PICK q, d : q = Address!Decimal[n \div 10] /\ d = n % 10
  OBVIOUS
<1>2. /\ q \in Seq(Numerals) /\ Len(q) >= 1 /\ Len(q) <= w
      /\ Address!Value(q) = n \div 10
  BY <1>1 DEF Written
<1>3. d \in 0..9 /\ n = 10 * (n \div 10) + d
  BY ONLY <1>1, DivTen, n \in Nat
<1>4. Address!Decimal[n] = Append(q, Address!Digits[d + 1])
  <2>1. n \in Numbers /\ ~(n < 10)
    BY ONLY NumbersAre, n \in Nat, n >= 10, n < 100000
  <2> QED
    BY ONLY <1>1, <2>1, DecimalIs
<1>5. Len(q) <= 4 /\ Len(q) \in Nat
  BY ONLY <1>2, w \in 1..4
<1>6. Address!Value(Append(q, Address!Digits[d + 1])) = 10 * Address!Value(q) + d
  BY ONLY <1>2, <1>3, <1>5, ValueAppend
<1>7. Address!Digits[d + 1] \in Numerals
  BY ONLY <1>3, DigitOfNumeral
<1>8. PICK c : c = Address!Digits[d + 1]
  OBVIOUS
<1>9. /\ Append(q, c) \in Seq(Numerals)
      /\ Len(Append(q, c)) >= 1 /\ Len(Append(q, c)) <= w + 1
  BY ONLY <1>2, <1>7, <1>8, w \in 1..4
<1> QED
  BY ONLY <1>2, <1>3, <1>4, <1>6, <1>8, <1>9 DEF Written

(* by the number of digits: each one more comes from the quotient by ten *)
LEMMA DecimalIsRead ==
  ASSUME NEW n \in Nat, n < 100000
  PROVE  Written(n, 5)
<1>1. ASSUME NEW m \in Nat, m < 10 PROVE Written(m, 1)
  <2>1. PICK c : c = Address!Digits[m + 1]
    OBVIOUS
  <2>2. c \in Numerals /\ Address!DigitOf(c) = m
    BY <1>1, <2>1, DigitOfNumeral
  <2>3. Address!Decimal[m] = <<c>>
    <3>1. m \in Numbers
      BY ONLY m \in Nat, <1>1, NumbersAre
    <3> QED
      BY ONLY <1>1, <2>1, <3>1, DecimalIs
  <2>4. <<c>> \in Seq(Numerals) /\ Len(<<c>>) = 1 /\ <<c>>[1] = c
    BY <2>2
  <2>5. Address!Value(<<c>>) = m
    BY ONLY <2>2, <2>4, m \in Nat, OneDigit
  <2> QED
    BY ONLY <2>3, <2>4, <2>5 DEF Written
<1>2. ASSUME NEW m \in Nat, m < 100 PROVE \E w \in 1..2 : Written(m, w)
  <2>1. CASE m < 10
    BY ONLY m \in Nat, <1>1, <2>1
  <2>2. CASE m >= 10
    <3>1. m \div 10 \in Nat /\ m \div 10 < 10 /\ m < 100000
      BY ONLY m \in Nat, <1>2, DivBounds
    <3>2. PICK w \in 1..1 : Written(m \div 10, w)
      BY ONLY <3>1, <1>1, 1 \in 1..1
    <3>3. w \in 1..4 /\ w + 1 \in 1..2
      BY ONLY w \in 1..1
    <3>4. Written(m, w + 1)
      BY ONLY m \in Nat, <2>2, <3>1, <3>2, <3>3, WrittenStep
    <3> QED
      BY ONLY <3>3, <3>4
  <2> QED
    BY ONLY m \in Nat, <2>1, <2>2
<1>3. ASSUME NEW m \in Nat, m < 1000 PROVE \E w \in 1..3 : Written(m, w)
  <2>1. CASE m < 10
    BY ONLY m \in Nat, <1>1, <2>1
  <2>2. CASE m >= 10
    <3>1. m \div 10 \in Nat /\ m \div 10 < 100 /\ m < 100000
      BY ONLY m \in Nat, <1>3, DivBounds
    <3>2. PICK w \in 1..2 : Written(m \div 10, w)
      BY ONLY <3>1, <1>2
    <3>3. w \in 1..4 /\ w + 1 \in 1..3
      BY ONLY w \in 1..2
    <3>4. Written(m, w + 1)
      BY ONLY m \in Nat, <2>2, <3>1, <3>2, <3>3, WrittenStep
    <3> QED
      BY ONLY <3>3, <3>4
  <2> QED
    BY ONLY m \in Nat, <2>1, <2>2
<1>4. ASSUME NEW m \in Nat, m < 10000 PROVE \E w \in 1..4 : Written(m, w)
  <2>1. CASE m < 10
    BY ONLY m \in Nat, <1>1, <2>1
  <2>2. CASE m >= 10
    <3>1. m \div 10 \in Nat /\ m \div 10 < 1000 /\ m < 100000
      BY ONLY m \in Nat, <1>4, DivBounds
    <3>2. PICK w \in 1..3 : Written(m \div 10, w)
      BY ONLY <3>1, <1>3
    <3>3. w \in 1..4 /\ w + 1 \in 1..4
      BY ONLY w \in 1..3
    <3>4. Written(m, w + 1)
      BY ONLY m \in Nat, <2>2, <3>1, <3>2, <3>3, WrittenStep
    <3> QED
      BY ONLY <3>3, <3>4
  <2> QED
    BY ONLY m \in Nat, <2>1, <2>2
<1>5. ASSUME NEW m \in Nat, m < 100000 PROVE \E w \in 1..5 : Written(m, w)
  <2>1. CASE m < 10
    BY ONLY m \in Nat, <1>1, <2>1
  <2>2. CASE m >= 10
    <3>1. m \div 10 \in Nat /\ m \div 10 < 10000 /\ m < 100000
      BY ONLY m \in Nat, <1>5, DivBounds
    <3>2. PICK w \in 1..4 : Written(m \div 10, w)
      BY ONLY <3>1, <1>4
    <3>3. w \in 1..4 /\ w + 1 \in 1..5
      BY ONLY w \in 1..4
    <3>4. Written(m, w + 1)
      BY ONLY m \in Nat, <2>2, <3>1, <3>2, <3>3, WrittenStep
    <3> QED
      BY ONLY <3>3, <3>4
  <2> QED
    BY ONLY m \in Nat, <2>1, <2>2
<1>6. PICK w \in 1..5 : Written(n, w)
  BY ONLY n \in Nat, n < 100000, <1>5
<1> QED
  <2>1. Len(Address!Decimal[n]) <= 5
    BY ONLY <1>6, w \in 1..5 DEF Written
  <2> QED
    BY ONLY <1>6, <2>1 DEF Written

(* every port is read as it is written, and no port is written as no text *)
LEMMA PortIsRead ==
  ASSUME NEW n \in 1..Address!MaxPort, NEW D, D = Address!Decimal[n]
  PROVE  D \in Seq(Numerals) /\ Len(D) >= 1 /\ Address!PortOf(D, 80) = n
<1>1. n \in Nat /\ n < 100000
  <2>1. Address!MaxPort = 65535
    BY SMTT(40) DEF Address!MaxPort
  <2>2. PICK p \in Nat : p = Address!MaxPort /\ p < 100000
    BY ONLY <2>1
  <2> QED
    BY ONLY <2>2, n \in 1..Address!MaxPort, SMTT(40)
<1>2. D \in Seq(Numerals) /\ Len(D) >= 1 /\ Address!Value(D) = n
  BY ONLY <1>1, DecimalIsRead, D = Address!Decimal[n] DEF Written
<1>3. D # <<>>
  BY ONLY <1>2
<1>4. Numerals \subseteq Address!ToSet(Address!Digits)
  BY DEF Numerals, Address!ToSet, Address!Digits
<1>5. Address!ToSet(D) \subseteq Numerals
  BY ONLY <1>2 DEF Address!ToSet
<1>6. Address!parse_port(D) = n
  BY ONLY <1>2, <1>4, <1>5, n \in 1..Address!MaxPort DEF Address!parse_port
<1> QED
  BY ONLY <1>2, <1>3, <1>6 DEF Address!PortOf

(* what Split returns for a text that it accepts *)
Shape(r, A) ==
  /\ r = [ok |-> TRUE, protocol |-> "ws", host |-> r.host, port |-> r.port,
          resource |-> r.resource]
  /\ r.host \in Seq(A) /\ r.host # <<>> /\ r.host[1] # "["
  /\ \A k \in 1..Len(r.host) : r.host[k] \notin Address!Ends
  /\ \/ \A k \in 1..Len(r.host) : r.host[k] # ":"
     \/ \A k \in 1..Len(r.host) : r.host[k] # "]"
  /\ r.port \in 1..Address!MaxPort
  /\ r.resource \in Seq(A \cup {"/"}) /\ Len(r.resource) >= 1 /\ r.resource[1] = "/"
  /\ \A k \in 1..Len(r.resource) : r.resource[k] # "#"

LEMMA TargetShape ==
  ASSUME NEW A, NEW q \in Seq(A), NEW R, R = Address!Target(q)
  PROVE  /\ R \in Seq(A \cup {"/"}) /\ Len(R) >= 1 /\ R[1] = "/"
         /\ \A k \in 1..Len(R) : R[k] # "#"
<1>1. PICK e \in 0..Len(q) : Cut(q, Address!Ends, e) /\ Len(Address!Authority(q)) = e
  <2>1. PICK p : p = Address!find_first_of(q, Address!Ends, 1)
    OBVIOUS
  <2> QED
    BY <2>1, FirstIsCut, AuthorityIs
<1>2. PICK tail : tail = SubSeq(q, e + 1, Len(q))
  OBVIOUS
<1>9. tail \in Seq(A)
  BY <1>1, <1>2
<1>3. PICK c \in 0..Len(tail) : Cut(tail, {"#"}, c)
  <2>1. PICK p : p = Address!find_first_of(tail, {"#"}, 1)
    OBVIOUS
  <2> QED
    BY ONLY <2>1, FirstIsCut, <1>9
<1>4. PICK text : text = Address!UpTo(tail, {"#"})
  OBVIOUS
<1>5. text \in Seq(A) /\ \A k \in 1..Len(text) : text[k] # "#"
  <2>1. text = SubSeq(tail, 1, c)
    BY ONLY <1>3, <1>4, UpToIsCut, <1>9
  <2>2. \A k \in 1..c : tail[k] # "#"
    BY <1>3 DEF Cut
  <2> QED
    BY <1>9, <2>1, <2>2
<1>6. R = IF text # <<>> /\ Head(text) = "/" THEN text ELSE <<"/">> \o text
  BY <1>1, <1>2, <1>4 DEF Address!Target
<1>7. CASE text # <<>> /\ Head(text) = "/"
  BY ONLY <1>5, <1>6, <1>7
<1>8. CASE ~(text # <<>> /\ Head(text) = "/")
  <2>1. R = <<"/">> \o text
    BY <1>6, <1>8
  <2> QED
    BY ONLY <1>5, <2>1
<1> QED
  BY <1>7, <1>8

LEMMA SplitShape ==
  ASSUME NEW A, NEW q \in Seq(A), Address!ProperHost(q), NEW r, r = LooseSplit(q), r.ok
  PROVE  Shape(r, A)
<1>1. PICK e \in 0..Len(q) : Cut(q, Address!Ends, e) /\ Len(Address!Authority(q)) = e
  <2>1. PICK p : p = Address!find_first_of(q, Address!Ends, 1)
    OBVIOUS
  <2> QED
    BY <2>1, FirstIsCut, AuthorityIs
<1>2. ~Address!Error.ok
  BY DEF Address!Error
<1>3. LooseHosts(q) # {}
  BY <1>2 DEF LooseSplit
<1>4. PICK n : n \in LooseHosts(q) /\ n = CHOOSE m \in LooseHosts(q) : TRUE
  BY <1>3
<1>5. PICK host, text : /\ host = IF q[1] = "[" THEN SubSeq(q, 2, n - 1) ELSE SubSeq(q, 1, n)
                        /\ text = SubSeq(q, n + 2, e)
  OBVIOUS
<1>6. PICK port : port = IF text = <<>> THEN 80 ELSE Address!parse_port(text)
  OBVIOUS
<1>7. /\ host # <<>> /\ port # 0
      /\ r = [ok |-> TRUE, protocol |-> "ws", host |-> host, port |-> port,
              resource |-> Address!Target(q)]
  <2>1. r = IF host = <<>> \/ port = 0 THEN Address!Error
            ELSE [ok |-> TRUE, protocol |-> "ws", host |-> host, port |-> port,
                  resource |-> Address!Target(q)]
    BY <1>1, <1>3, <1>4, <1>5, <1>6 DEF LooseSplit, Address!npos
  <2> QED
    BY <1>2, <2>1
<1>8. port \in 1..Address!MaxPort
  <2>1. 80 \in 1..Address!MaxPort
    BY DEF Address!MaxPort
  <2> QED
    BY <1>6, <1>7, <2>1 DEF Address!parse_port, Address!npos
<1>9. /\ n \in 1..e /\ e \in 0..Len(q) /\ Len(q) \in Nat
      /\ \A k \in 1..n : q[k] \notin Address!Ends
  <2>1. n \in 1..Len(Address!Authority(q))
    BY ONLY <1>4 DEF LooseHosts
  <2>2. Len(q) \in Nat /\ \A k \in 1..e : q[k] \notin Address!Ends
    BY <1>1 DEF Cut
  <2> QED
    BY ONLY <1>1, <2>1, <2>2, e \in 0..Len(q)
<1>10. /\ host \in Seq(A) /\ host[1] # "["
       /\ \A k \in 1..Len(host) : host[k] \notin Address!Ends
       /\ \/ \A k \in 1..Len(host) : host[k] # ":"
          \/ \A k \in 1..Len(host) : host[k] # "]"
  <2>1. CASE q[1] = "["
    <3>1. q[n] = "]" /\ "]" \notin Address!ToSet(SubSeq(q, 1, n - 1))
      BY <1>4, <2>1 DEF LooseHosts
    <3>2. \A k \in 1..(n - 1) : q[k] # "]"
      <4>1. n - 1 \in (1 - 1)..Len(q) /\ 1 \in 1..(Len(q) + 1)
        BY <1>9
      <4> QED
        BY <3>1, <4>1, AmongFirst
    <3>3. n >= 2
      BY <1>9, <2>1, <3>1
    <3>4. /\ host = SubSeq(q, 2, n - 1) /\ host \in Seq(A) /\ Len(host) = n - 2
          /\ \A k \in 1..(n - 2) : host[k] = q[k + 1]
      BY <1>5, <1>9, <2>1, <3>3
    <3>5. \A k \in 2..(n - 1) : q[k] \notin Address!Ends \cup {"["}
      <4>1. Address!find_first_of(q, {"]"}, 1) = n
        BY <1>9, <3>1, <3>2, FoundAt
      <4>2. Address!Bracketed(q)
        <5>1. DOMAIN q = 1..Len(q) /\ (q # <<>> => Head(q) = q[1]) /\ q # <<>> /\ n \in 1..Len(q)
          BY <1>9
        <5> QED
          BY ONLY <2>1, <3>1, <5>1 DEF Address!Bracketed, Address!ToSet
      <4>3. Address!ToSet(SubSeq(q, 2, n - 1)) \cap (Address!Ends \cup {"["}) = {}
        BY <4>1, <4>2 DEF Address!ProperHost
      <4>4. ASSUME NEW k \in 2..(n - 1) PROVE q[k] \in Address!ToSet(SubSeq(q, 2, n - 1))
        <5>1. 2 \in 1..(Len(q) + 1) /\ n - 1 \in (2 - 1)..Len(q)
          BY <1>9, <3>3
        <5> QED
          BY <5>1, AmongFirst
      <4> QED
        BY <4>3, <4>4
    <3>6. Len(host) >= 1
      BY <1>7, <3>4
    <3>7. \A k \in 1..(n - 2) : k + 1 \in 2..(n - 1) /\ k + 1 \in 1..(n - 1)
      BY <1>9, <3>3
    <3> QED
      BY ONLY <1>9, <3>2, <3>4, <3>5, <3>6, <3>7
  <2>2. CASE q[1] # "["
    <3>1. ":" \notin Address!ToSet(SubSeq(q, 1, n))
      BY <1>4, <2>2 DEF LooseHosts
    <3>2. \A k \in 1..n : q[k] # ":"
      <4>1. n \in (1 - 1)..Len(q) /\ 1 \in 1..(Len(q) + 1)
        BY <1>9
      <4> QED
        BY <3>1, <4>1, AmongFirst
    <3>3. /\ host \in Seq(A) /\ Len(host) = n
          /\ \A k \in 1..n : host[k] = q[k]
      BY <1>5, <1>9, <2>2
    <3> QED
      BY ONLY <1>9, <2>2, <3>2, <3>3
  <2> QED
    BY <2>1, <2>2
<1>11. PICK R : R = Address!Target(q)
  OBVIOUS
<1>12. /\ R \in Seq(A \cup {"/"}) /\ Len(R) >= 1 /\ R[1] = "/"
       /\ \A k \in 1..Len(R) : R[k] # "#"
  BY <1>11, TargetShape
<1>13. /\ r = [ok |-> TRUE, protocol |-> "ws", host |-> host, port |-> port, resource |-> R]
       /\ r.host = host /\ r.port = port /\ r.resource = R
  BY ONLY <1>7, <1>11
<1> QED
  BY ONLY <1>7, <1>8, <1>10, <1>12, <1>13 DEF Shape

(* u, a colon, v and w, one behind the other *)
Assembled(t, u, v, w) ==
  /\ Len(t) = Len(u) + 1 + Len(v) + Len(w)
  /\ \A k \in 1..Len(u) : t[k] = u[k]
  /\ t[Len(u) + 1] = ":"
  /\ \A k \in 1..Len(v) : t[Len(u) + 1 + k] = v[k]
  /\ \A k \in 1..Len(w) : t[Len(u) + 1 + Len(v) + k] = w[k]

LEMMA Concatenated ==
  ASSUME NEW B, NEW u \in Seq(B), NEW v \in Seq(B), NEW y, y = u \o v
  PROVE  /\ y \in Seq(B) /\ Len(y) = Len(u) + Len(v)
         /\ \A k \in 1..Len(u) : y[k] = u[k]
         /\ \A k \in 1..Len(v) : y[Len(u) + k] = v[k]
OBVIOUS

LEMMA AssembledIs ==
  ASSUME NEW B, NEW u \in Seq(B), NEW v \in Seq(B), NEW w \in Seq(B), ":" \in B,
         NEW t, t = ((u \o <<":">>) \o v) \o w
  PROVE  t \in Seq(B) /\ Assembled(t, u, v, w)
<1>1. PICK x : x = u \o <<":">>
  OBVIOUS
<1>2. /\ x \in Seq(B) /\ Len(x) = Len(u) + 1 /\ x[Len(u) + 1] = ":"
      /\ \A k \in 1..Len(u) : x[k] = u[k]
  BY <1>1
<1>3. PICK y : y = x \o v
  OBVIOUS
<1>4. /\ y \in Seq(B) /\ Len(y) = Len(x) + Len(v)
      /\ \A k \in 1..Len(x) : y[k] = x[k]
      /\ \A k \in 1..Len(v) : y[Len(x) + k] = v[k]
  <2>1. x \in Seq(B)
    BY <1>2
  <2> QED
    BY <1>3, <2>1, Concatenated
<1>5. PICK z : z = y \o w
  OBVIOUS
<1>6. /\ z \in Seq(B) /\ Len(z) = Len(y) + Len(w)
      /\ \A k \in 1..Len(y) : z[k] = y[k]
      /\ \A k \in 1..Len(w) : z[Len(y) + k] = w[k]
  <2>1. y \in Seq(B)
    BY <1>4
  <2> QED
    BY <1>5, <2>1, Concatenated
<1>7. PICK lu, lv, lw \in Nat : lu = Len(u) /\ lv = Len(v) /\ lw = Len(w)
  OBVIOUS
<1>8. Len(x) = lu + 1 /\ Len(y) = lu + 1 + lv
  BY ONLY <1>2, <1>4, <1>7
<1>9. \A k \in 1..lv : lu + 1 + k \in 1..(lu + 1 + lv)
  BY ONLY lu \in Nat, lv \in Nat
<1>10. /\ lu + 1 \in 1..(lu + 1) /\ lu + 1 \in 1..(lu + 1 + lv)
       /\ \A k \in 1..lu : k \in 1..(lu + 1) /\ k \in 1..(lu + 1 + lv)
  BY ONLY lu \in Nat, lv \in Nat
<1>11. /\ Len(z) = lu + 1 + lv + lw
       /\ \A k \in 1..lw : z[lu + 1 + lv + k] = w[k]
  BY ONLY <1>6, <1>7, <1>8
<1>12. \A k \in 1..lu : z[k] = u[k]
  BY ONLY <1>2, <1>4, <1>6, <1>7, <1>8, <1>10
<1>13. z[lu + 1] = ":"
  BY ONLY <1>2, <1>4, <1>6, <1>7, <1>8, <1>10
<1>14. \A k \in 1..lv : z[lu + 1 + k] = v[k]
  BY ONLY <1>4, <1>6, <1>7, <1>8, <1>9
<1>15. Assembled(z, u, v, w)
  BY ONLY <1>7, <1>11, <1>12, <1>13, <1>14 DEF Assembled
<1>16. z = t
  BY ONLY <1>1, <1>3, <1>5, t = ((u \o <<":">>) \o v) \o w
<1> QED
  BY ONLY <1>6, <1>15, <1>16

(* where a joined text has its first end of an authority, and what stands
   between *)
Apart(B, t, u, D, R) ==
  /\ u \in Seq(B) /\ D \in Seq(Numerals) /\ R \in Seq(B) /\ t \in Seq(B)
  /\ Assembled(t, u, D, R) /\ Len(R) >= 1 /\ R[1] = "/"
  /\ \A k \in 1..Len(R) : R[k] # "#"
  /\ \A k \in 1..Len(u) : u[k] \notin Address!Ends
Parts(t, u, D, R, f) ==
  /\ f \in 1..Len(t) /\ t[f] = "/" /\ \A k \in 1..(f - 1) : t[k] \notin Address!Ends
  /\ SubSeq(t, Len(u) + 2, f - 1) = D
  /\ Address!Resource(t, f) = R
  /\ Address!HostEnd(t, f) = f

LEMMA AssembledParts ==
  ASSUME NEW B, NEW t, NEW u, NEW D, NEW R, Apart(B, t, u, D, R),
         NEW f, f = Len(u) + Len(D) + 2
  PROVE  Parts(t, u, D, R, f)
<1> SUFFICES ASSUME u \in Seq(B), D \in Seq(Numerals), R \in Seq(B), t \in Seq(B),
                    Assembled(t, u, D, R), Len(R) >= 1, R[1] = "/",
                    \A k \in 1..Len(R) : R[k] # "#",
                    \A k \in 1..Len(u) : u[k] \notin Address!Ends
             PROVE  Parts(t, u, D, R, f)
  BY DEF Apart
<1>1. PICK lu, ld, lr \in Nat : lu = Len(u) /\ ld = Len(D) /\ lr = Len(R)
  OBVIOUS
<1>2. /\ Len(t) = lu + 1 + ld + lr
      /\ \A k \in 1..lu : t[k] = u[k]
      /\ t[lu + 1] = ":"
      /\ \A k \in 1..ld : t[lu + 1 + k] = D[k]
      /\ \A k \in 1..lr : t[lu + 1 + ld + k] = R[k]
  BY ONLY <1>1, Assembled(t, u, D, R) DEF Assembled
<1>3. f = lu + ld + 2 /\ lr >= 1 /\ f \in 1..Len(t) /\ f \in Nat \ {0}
  BY ONLY <1>1, <1>2, f = Len(u) + Len(D) + 2, Len(R) >= 1, lu \in Nat, ld \in Nat, lr \in Nat
<1>4. t[f] = "/"
  <2>1. lu + 1 + ld + 1 = f /\ 1 \in 1..lr
    BY ONLY <1>3, lu \in Nat, ld \in Nat, lr \in Nat
  <2> QED
    BY ONLY <1>2, <2>1, R[1] = "/"
<1>5. ASSUME NEW k \in 1..(f - 1) PROVE t[k] \notin Address!Ends
  <2>1. CASE k <= lu
    <3>1. k \in 1..lu
      BY ONLY <2>1, <1>3, k \in 1..(f - 1), lu \in Nat
    <3> QED
      BY ONLY <1>1, <1>2, <3>1, \A j \in 1..Len(u) : u[j] \notin Address!Ends
  <2>2. CASE k = lu + 1
    BY ONLY <1>2, <2>2 DEF Address!Ends
  <2>3. CASE k > lu + 1
    <3>1. PICK j \in 1..ld : k = lu + 1 + j
      <4>1. k - lu - 1 \in 1..ld /\ k = lu + 1 + (k - lu - 1)
        BY ONLY <1>3, <2>3, k \in 1..(f - 1), lu \in Nat, ld \in Nat
      <4> QED
        BY ONLY <4>1
    <3>2. D[j] \in Numerals
      BY <1>1
    <3>3. Numerals \cap Address!Ends = {}
      BY SMTT(40) DEF Numerals, Address!Ends, Address!Digits
    <3> QED
      BY ONLY <1>2, <3>1, <3>2, <3>3
  <2> QED
    BY ONLY <1>3, <2>1, <2>2, <2>3, k \in 1..(f - 1), lu \in Nat
<1>6. SubSeq(t, Len(u) + 2, f - 1) = D
  <2>1. PICK v : v = SubSeq(t, lu + 2, f - 1)
    OBVIOUS
  <2>2. lu + 2 \in 1..(Len(t) + 1) /\ f - 1 \in ((lu + 2) - 1)..Len(t) /\ (f - 1) - (lu + 2) + 1 = ld
    BY ONLY <1>2, <1>3, lu \in Nat, ld \in Nat, lr \in Nat
  <2>3. v \in Seq(B) /\ Len(v) = ld /\ \A k \in 1..ld : v[k] = t[(lu + 2) + k - 1]
    BY ONLY <2>1, <2>2, SubSeqIs, t \in Seq(B)
  <2>4. \A k \in 1..ld : (lu + 2) + k - 1 = lu + 1 + k
    BY ONLY lu \in Nat, ld \in Nat
  <2>5. \A k \in 1..Len(v) : v[k] = D[k]
    BY ONLY <1>2, <2>3, <2>4
  <2>6. v = D
    BY ONLY <1>1, <2>3, <2>5, SameSeq, D \in Seq(Numerals)
  <2> QED
    BY ONLY <1>1, <2>1, <2>6
<1>7. Address!Resource(t, f) = R
  <2>1. \A k \in f..Len(t) : k - f + 1 \in 1..lr /\ lu + 1 + ld + (k - f + 1) = k
    BY ONLY <1>2, <1>3, lu \in Nat, ld \in Nat, lr \in Nat
  <2>2. \A k \in f..Len(t) : t[k] \notin {"#"}
    BY ONLY <1>1, <1>2, <2>1, \A k \in 1..Len(R) : R[k] # "#"
  <2>3. Address!find_first_of(t, {"#"}, f) = 0
    BY ONLY <1>3, <2>2, NotFound, t \in Seq(B)
  <2>4. PICK v : v = SubSeq(t, f, Len(t))
    OBVIOUS
  <2>5. f \in 1..(Len(t) + 1) /\ Len(t) \in (f - 1)..Len(t) /\ Len(t) - f + 1 = lr
    BY ONLY <1>2, <1>3, lu \in Nat, ld \in Nat, lr \in Nat
  <2>6. v \in Seq(B) /\ Len(v) = lr /\ \A k \in 1..lr : v[k] = t[f + k - 1]
    BY ONLY <2>4, <2>5, SubSeqIs, t \in Seq(B)
  <2>7. \A k \in 1..lr : f + k - 1 = lu + 1 + ld + k
    BY ONLY <1>3, lu \in Nat, ld \in Nat, lr \in Nat
  <2>8. \A k \in 1..Len(v) : v[k] = R[k]
    BY ONLY <1>2, <2>6, <2>7
  <2>9. v = R
    BY ONLY <1>1, <2>6, <2>8, SameSeq, R \in Seq(B)
  <2>10. Head(R) = "/"
    BY ONLY R \in Seq(B), R[1] = "/", Len(R) >= 1
  <2>11. (Len(t) + 1) - 1 = Len(t) /\ f # 0
    BY <1>3
  <2> QED
    BY ONLY <1>4, <2>3, <2>4, <2>9, <2>10, <2>11
       DEF Address!Resource, Address!HostEnd, Address!npos
<1>8. Address!HostEnd(t, f) = f
  BY ONLY <1>3 DEF Address!HostEnd, Address!npos
<1> QED
  BY ONLY <1>3, <1>4, <1>5, <1>6, <1>7, <1>8 DEF Parts

(* u is what authority writes of a host: the host alone, or in brackets *)
LEMMA HostIsReadBack ==
  ASSUME NEW B, NEW u \in Seq(B), NEW D \in Seq(Numerals), NEW R \in Seq(B), NEW t \in Seq(B),
         Assembled(t, u, D, R), Len(R) >= 1, R[1] = "/", \A k \in 1..Len(R) : R[k] # "#",
         \A k \in 1..Len(u) : u[k] \notin Address!Ends \cup {":"}, u # <<>>
  PROVE  Address!parse_host(t, "ws", 80)
           = Address!Result(u, Address!PortOf(D, 80), t, Len(u) + Len(D) + 2, "ws")
<1>1. PICK f : f = Len(u) + Len(D) + 2
  OBVIOUS
<1>2. /\ f \in 1..Len(t) /\ t[f] = "/" /\ \A k \in 1..(f - 1) : t[k] \notin Address!Ends
      /\ SubSeq(t, Len(u) + 2, f - 1) = D
      /\ Address!HostEnd(t, f) = f
  <2>1. Apart(B, t, u, D, R)
    BY DEF Apart
  <2>2. Parts(t, u, D, R, f)
    BY ONLY <1>1, <2>1, AssembledParts
  <2> QED
    BY ONLY <2>2 DEF Parts
<1>3. PICK lu \in Nat : lu = Len(u)
  OBVIOUS
<1>4. /\ lu >= 1 /\ lu + 1 \in 1..Len(t) /\ f > lu + 1 /\ f \in Nat
      /\ (lu + 1) - 1 = lu /\ (lu + 1) + 1 = lu + 2 /\ lu \in (1 - 1)..Len(t)
      /\ 1 \in 1..(Len(t) + 1) /\ Len(t) \in Nat
  BY <1>1, <1>2, <1>3 DEF Assembled
<1>5. /\ \A k \in 1..lu : t[k] = u[k]
      /\ t[lu + 1] = ":"
  BY <1>3 DEF Assembled
<1>6. Address!find_first_of(t, Address!Ends, 1) = f
  <2>1. t[f] \in Address!Ends /\ 1 \in Nat \ {0}
    BY <1>2 DEF Address!Ends
  <2> QED
    BY ONLY <1>2, <2>1, FoundAt, t \in Seq(B)
<1>7. Address!find_first_of(t, {":"}, 1) = lu + 1
  <2>1. t[lu + 1] \in {":"} /\ 1 \in Nat \ {0}
    BY <1>5
  <2>2. \A k \in 1..((lu + 1) - 1) : t[k] \notin {":"}
    BY <1>3, <1>4, <1>5
  <2> QED
    BY ONLY <1>4, <2>1, <2>2, FoundAt, t \in Seq(B)
<1>8. Address!IsPort(lu + 1, f)
  BY ONLY <1>4 DEF Address!IsPort, Address!npos
<1>9. SubSeq(t, 1, lu) = u
  <2>1. PICK v : v = SubSeq(t, 1, lu)
    OBVIOUS
  <2>2. v \in Seq(B) /\ Len(v) = lu /\ \A k \in 1..lu : v[k] = t[1 + k - 1]
    <3>1. lu - 1 + 1 = lu
      BY <1>3
    <3> QED
      BY ONLY <1>4, <2>1, <3>1, SubSeqIs, t \in Seq(B), SMTT(40)
  <2>3. \A k \in 1..lu : 1 + k - 1 = k
    BY ONLY lu \in Nat
  <2>4. \A k \in 1..Len(v) : v[k] = u[k]
    BY ONLY <1>5, <2>2, <2>3
  <2> QED
    BY ONLY <1>3, <2>1, <2>2, <2>4, SameSeq, u \in Seq(B)
<1>10. SubSeq(t, (lu + 1) + 1, f - 1) = D
  BY ONLY <1>2, <1>3, <1>4
<1> QED
  BY ONLY <1>1, <1>2, <1>4, <1>6, <1>7, <1>8, <1>9, <1>10 DEF Address!parse_host

Enclosed(u, h) == u = (<<"[">> \o h) \o <<"]">>
Enclosable(h) == \A k \in 1..Len(h) : h[k] \notin Address!Ends \cup {"]"}
IsReadBack(h, D, t, f) ==
  /\ t # <<>> /\ t[1] = "["
  /\ Address!parse_ipv6(t, "ws", 80) = Address!Result(h, Address!PortOf(D, 80), t, f, "ws")

LEMMA BracketsAreReadBack ==
  ASSUME NEW B, NEW h \in Seq(B), NEW t, NEW u, NEW D, NEW R, Apart(B, t, u, D, R),
         Enclosed(u, h), Enclosable(h),
         NEW f, f = Len(u) + Len(D) + 2
  PROVE  IsReadBack(h, D, t, f)
<1> SUFFICES ASSUME u \in Seq(B), u = (<<"[">> \o h) \o <<"]">>,
                    D \in Seq(Numerals), R \in Seq(B), t \in Seq(B),
                    Assembled(t, u, D, R), Len(R) >= 1, R[1] = "/",
                    \A k \in 1..Len(R) : R[k] # "#",
                    \A k \in 1..Len(h) : h[k] \notin Address!Ends \cup {"]"}
             PROVE  /\ t # <<>> /\ t[1] = "["
                    /\ Address!parse_ipv6(t, "ws", 80)
                         = Address!Result(h, Address!PortOf(D, 80), t, f, "ws")
  BY DEF Apart, Enclosed, Enclosable, IsReadBack
<1>1. f = Len(u) + Len(D) + 2
  OBVIOUS
<1>2. PICK n \in Nat : n = Len(h)
  OBVIOUS
<1>3. /\ Len(u) = n + 2 /\ u[1] = "[" /\ u[n + 2] = "]"
      /\ \A k \in 1..n : u[k + 1] = h[k]
  BY <1>2, u = (<<"[">> \o h) \o <<"]">>
<1>4. \A k \in 1..(n + 2) : u[k] \notin Address!Ends
  <2>1. "[" \notin Address!Ends /\ "]" \notin Address!Ends
    BY DEF Address!Ends
  <2>2. \A k \in 2..(n + 1) : k - 1 \in 1..n /\ (k - 1) + 1 = k
    BY ONLY n \in Nat
  <2>3. \A k \in 2..(n + 1) : u[k] \notin Address!Ends
    BY ONLY <1>2, <1>3, <2>2, \A k \in 1..Len(h) : h[k] \notin Address!Ends \cup {"]"}, ZenonT(60)
  <2> QED
    BY ONLY <1>3, <2>1, <2>3, n \in Nat
<1>5. /\ f \in 1..Len(t) /\ t[f] = "/" /\ \A k \in 1..(f - 1) : t[k] \notin Address!Ends
      /\ SubSeq(t, Len(u) + 2, f - 1) = D
      /\ Address!HostEnd(t, f) = f
  <2>1. \A k \in 1..Len(u) : u[k] \notin Address!Ends
    BY ONLY <1>3, <1>4
  <2> QED
    <3>1. Apart(B, t, u, D, R)
      OBVIOUS
    <3>2. Parts(t, u, D, R, f)
      BY ONLY <1>1, <3>1, AssembledParts
    <3> QED
      BY ONLY <3>2 DEF Parts
<1>6. /\ \A k \in 1..(n + 2) : t[k] = u[k]
      /\ t[n + 3] = ":"
  <2>1. (n + 2) + 1 = n + 3
    BY ONLY n \in Nat
  <2> QED
    BY ONLY <1>3, <2>1, Assembled(t, u, D, R) DEF Assembled
<1>7. PICK ld \in Nat : ld = Len(D)
  OBVIOUS
<1>8. /\ f = n + ld + 4 /\ f \in Nat /\ Len(t) \in Nat /\ f <= Len(t)
  BY ONLY <1>1, <1>3, <1>5, <1>7, n \in Nat, t \in Seq(B)
<1>9. t # <<>> /\ t[1] = "["
  BY ONLY <1>3, <1>5, <1>6, n \in Nat
<1>10. Address!find_first_of(t, {"]"}, 1) = n + 2
  <2>1. t[n + 2] \in {"]"} /\ 1 \in Nat \ {0} /\ n + 2 \in 1..Len(t)
    BY ONLY <1>3, <1>6, <1>8, n \in Nat, ld \in Nat
  <2>2. \A k \in 1..((n + 2) - 1) : t[k] \notin {"]"}
    <3>1. \A k \in 2..(n + 1) : k - 1 \in 1..n /\ (k - 1) + 1 = k /\ k \in 1..(n + 2)
      BY ONLY n \in Nat
    <3>2. ASSUME NEW k \in 2..(n + 1) PROVE t[k] # "]"
      <4>1. PICK j \in 1..n : j + 1 = k
        BY ONLY <3>1, k \in 2..(n + 1)
      <4>2. t[k] = u[k] /\ u[j + 1] = h[j]
        BY ONLY <1>3, <1>6, <3>1, k \in 2..(n + 1), j \in 1..n
      <4>3. h[j] \notin Address!Ends \cup {"]"}
        BY ONLY <1>2, j \in 1..n, \A m \in 1..Len(h) : h[m] \notin Address!Ends \cup {"]"}
      <4> QED
        BY ONLY <4>1, <4>2, <4>3
    <3>3. t[1] # "]"
      BY ONLY <1>9
    <3>4. (n + 2) - 1 = n + 1
      BY ONLY n \in Nat
    <3> QED
      BY ONLY <3>2, <3>3, <3>4, n \in Nat
  <2> QED
    BY ONLY <2>1, <2>2, FoundAt, t \in Seq(B)
<1>11. Address!find_first_of(t, Address!Ends, n + 3) = f
  <2>1. t[f] \in Address!Ends
    BY <1>5 DEF Address!Ends
  <2>2. n + 3 \in Nat \ {0} /\ f \in (n + 3)..Len(t)
    BY ONLY <1>8, n \in Nat, ld \in Nat
  <2>3. \A k \in (n + 3)..(f - 1) : t[k] \notin Address!Ends
    BY ONLY <1>5, <1>8, n \in Nat, ld \in Nat
  <2> QED
    BY ONLY <2>1, <2>2, <2>3, FoundAt, t \in Seq(B)
<1>12. SubSeq(t, 2, n + 1) = h
  <2>1. PICK v : v = SubSeq(t, 2, n + 1)
    OBVIOUS
  <2>2. v \in Seq(B) /\ Len(v) = n /\ \A k \in 1..n : v[k] = t[2 + k - 1]
    <3>1. 2 \in 1..(Len(t) + 1) /\ n + 1 \in (2 - 1)..Len(t) /\ (n + 1) - 2 + 1 = n
      BY ONLY <1>8, n \in Nat, ld \in Nat
    <3> QED
      BY ONLY <2>1, <3>1, SubSeqIs, t \in Seq(B)
  <2>3. \A k \in 1..n : 2 + k - 1 = k + 1 /\ k + 1 \in 1..(n + 2)
    BY ONLY n \in Nat
  <2>4. \A k \in 1..Len(v) : v[k] = h[k]
    BY ONLY <1>3, <1>6, <2>2, <2>3
  <2> QED
    BY ONLY <1>2, <2>1, <2>2, <2>4, SameSeq, h \in Seq(B)
<1>13. SubSeq(t, (n + 3) + 1, f - 1) = D
  <2>1. (n + 3) + 1 = (n + 2) + 2
    BY ONLY n \in Nat
  <2> QED
    BY ONLY <1>3, <1>5, <2>1
<1>14. /\ (n + 2) - 1 = n + 1 /\ (n + 2) + 1 = n + 3 /\ n + 3 <= Len(t) /\ n + 2 # 0
  BY ONLY <1>8, n \in Nat, ld \in Nat
<1>15. Address!parse_ipv6(t, "ws", 80) = Address!Result(h, Address!PortOf(D, 80), t, f, "ws")
  BY ONLY <1>5, <1>6, <1>10, <1>11, <1>12, <1>13, <1>14 DEF Address!parse_ipv6, Address!npos
<1> QED
  BY ONLY <1>1, <1>9, <1>15

(* what to_string writes of a result that has this shape is parsed to the same
   result *)
LEMMA ReadBack ==
  ASSUME NEW A, NEW r, Shape(r, A)
  PROVE  Address!parse(Address!to_string(r)) = r
<1>1. PICK B : B = ((A \cup Numerals) \cup {":", "[", "]", "/"})
  OBVIOUS
<1>2. /\ Numerals \subseteq B /\ A \subseteq B /\ A \cup {"/"} \subseteq B
      /\ ":" \in B /\ "[" \in B /\ "]" \in B
  BY <1>1
<1>3. PICK h, n, R : h = r.host /\ n = r.port /\ R = r.resource
  OBVIOUS
<1>4. /\ r = [ok |-> TRUE, protocol |-> "ws", host |-> h, port |-> n, resource |-> R]
      /\ h \in Seq(A) /\ h # <<>> /\ h[1] # "["
      /\ \A k \in 1..Len(h) : h[k] \notin Address!Ends
      /\ \/ \A k \in 1..Len(h) : h[k] # ":"
         \/ \A k \in 1..Len(h) : h[k] # "]"
      /\ n \in 1..Address!MaxPort
      /\ R \in Seq(A \cup {"/"}) /\ Len(R) >= 1 /\ R[1] = "/"
      /\ \A k \in 1..Len(R) : R[k] # "#"
  BY ONLY <1>3, Shape(r, A) DEF Shape
<1>5. h \in Seq(B) /\ R \in Seq(B)
  BY ONLY <1>2, <1>4
<1>6. PICK D : D = Address!Decimal[n]
  OBVIOUS
<1>7. D \in Seq(Numerals) /\ Len(D) >= 1 /\ Address!PortOf(D, 80) = n
  BY ONLY <1>4, <1>6, PortIsRead
<1>8. D \in Seq(B)
  BY ONLY <1>2, <1>7
<1>9. PICK u : u = IF ":" \in Address!ToSet(h) THEN (<<"[">> \o h) \o <<"]">> ELSE h
  OBVIOUS
<1>10. PICK t : t = ((u \o <<":">>) \o D) \o R
  OBVIOUS
<1>11. Address!to_string(r) = [protocol |-> "ws", rest |-> t]
  <2>1. r.protocol = "ws"
    BY ONLY <1>4
  <2>2. Address!authority(r) = (u \o <<":">>) \o D
    BY ONLY <1>3, <1>6, <1>9 DEF Address!authority
  <2> QED
    BY ONLY <1>3, <1>10, <2>1, <2>2 DEF Address!to_string
<1>12. Address!parse(Address!to_string(r))
         = IF t # <<>> /\ Head(t) = "[" THEN Address!parse_ipv6(t, "ws", 80)
           ELSE Address!parse_host(t, "ws", 80)
  <2>1. PICK a : a = Address!to_string(r)
    OBVIOUS
  <2>2. a.protocol = "ws" /\ a.rest = t
    BY ONLY <1>11, <2>1
  <2>3. Address!parse(a) = IF t # <<>> /\ Head(t) = "[" THEN Address!parse_ipv6(t, "ws", 80)
                           ELSE Address!parse_host(t, "ws", 80)
    BY ONLY <2>2 DEF Address!parse, Address!tolower, Address!get_default_port, Address!npos
  <2> QED
    BY ONLY <2>1, <2>3
<1>13. u \in Seq(B)
  BY ONLY <1>2, <1>5, <1>9
<1>14. t \in Seq(B) /\ Assembled(t, u, D, R)
  BY ONLY <1>2, <1>5, <1>8, <1>10, <1>13, AssembledIs
<1>15. PICK f : f = Len(u) + Len(D) + 2
  OBVIOUS
<1>16. ASSUME \A k \in 1..Len(u) : u[k] \notin Address!Ends
       PROVE  Address!Result(h, n, t, f, "ws") = r
  <2>1. Apart(B, t, u, D, R)
    BY ONLY <1>4, <1>5, <1>7, <1>13, <1>14, <1>16 DEF Apart
  <2>2. Parts(t, u, D, R, f)
    BY ONLY <1>15, <2>1, AssembledParts
  <2>3. Address!Resource(t, f) = R
    BY ONLY <2>2 DEF Parts
  <2>4. n # 0
    <3>1. PICK p : p = Address!MaxPort
      OBVIOUS
    <3>2. p \in Nat
      BY <3>1 DEF Address!MaxPort
    <3> QED
      BY ONLY <1>4, <3>1, <3>2
  <2> QED
    BY ONLY <1>4, <2>3, <2>4 DEF Address!Result, Address!npos
<1>17. t # <<>> => Head(t) = t[1]
  BY ONLY <1>14
<1>18. CASE ":" \notin Address!ToSet(h)
  <2>1. u = h
    BY ONLY <1>9, <1>18
  <2>2. \A k \in 1..Len(u) : u[k] \notin Address!Ends \cup {":"}
    BY ONLY <1>4, <1>18, <2>1 DEF Address!ToSet
  <2>3. \A k \in 1..Len(u) : u[k] \notin Address!Ends
    BY ONLY <2>2
  <2>4. Address!parse_host(t, "ws", 80) = Address!Result(u, Address!PortOf(D, 80), t, f, "ws")
    BY ONLY <1>4, <1>5, <1>7, <1>13, <1>14, <1>15, <2>1, <2>2, HostIsReadBack, SMTT(40)
  <2>5. t[1] # "["
    <3>1. 1 \in 1..Len(u)
      BY ONLY <1>4, <2>1
    <3> QED
      BY ONLY <1>4, <1>14, <2>1, <3>1 DEF Assembled
  <2> QED
    BY ONLY <1>7, <1>12, <1>16, <1>17, <2>1, <2>3, <2>4, <2>5
<1>19. CASE ":" \in Address!ToSet(h)
  <2>1. u = (<<"[">> \o h) \o <<"]">>
    BY ONLY <1>9, <1>19
  <2>2. \A k \in 1..Len(h) : h[k] \notin Address!Ends \cup {"]"}
    BY ONLY <1>4, <1>19 DEF Address!ToSet
  <2>3. \A k \in 1..Len(u) : u[k] \notin Address!Ends
    <3>1. "[" \notin Address!Ends /\ "]" \notin Address!Ends
      BY DEF Address!Ends
    <3>2. PICK m \in Nat : m = Len(h)
      BY <1>5
    <3>3. /\ Len(u) = m + 2 /\ u[1] = "[" /\ u[m + 2] = "]"
          /\ \A k \in 1..m : u[k + 1] = h[k]
      BY ONLY <1>5, <2>1, <3>2
    <3>4. \A k \in 2..(m + 1) : k - 1 \in 1..m /\ (k - 1) + 1 = k
      BY ONLY m \in Nat
    <3>5. \A k \in 2..(m + 1) : u[k] \notin Address!Ends
      BY ONLY <1>4, <3>2, <3>3, <3>4
    <3> QED
      BY ONLY <3>1, <3>3, <3>5, m \in Nat
  <2>4. /\ t # <<>> /\ t[1] = "["
        /\ Address!parse_ipv6(t, "ws", 80)
             = Address!Result(h, Address!PortOf(D, 80), t, f, "ws")
    <3>1. Apart(B, t, u, D, R)
      BY ONLY <1>4, <1>5, <1>7, <1>13, <1>14, <2>3 DEF Apart
    <3>2. Enclosed(u, h) /\ Enclosable(h)
      BY ONLY <2>1, <2>2 DEF Enclosed, Enclosable
    <3>3. IsReadBack(h, D, t, f)
      BY ONLY <1>5, <1>15, <3>1, <3>2, BracketsAreReadBack
    <3> QED
      BY ONLY <3>3 DEF IsReadBack
  <2> QED
    BY ONLY <1>7, <1>12, <1>16, <1>17, <2>3, <2>4
<1> QED
  BY ONLY <1>18, <1>19

(* the states: a text of characters, the result of parse for it, and the result
   of parse for what to_string makes of that *)
Alphabet == (Chars \cup {"h", ":"}) \cup Numerals
UrlInv ==
  /\ url.rest \in Seq(Alphabet) /\ url.protocol \in Address!Protocols
  /\ parsed = Address!None \/ parsed = Address!parse(url)
  /\ again # Address!None =>
       parsed.ok /\ again = Address!parse(Address!to_string(parsed))

LEMMA UrlInit == Address!Init => UrlInv
<1> SUFFICES ASSUME Address!Init PROVE UrlInv
  OBVIOUS
<1>1. /\ \/ \E q \in Address!Strings : url = [protocol |-> "ws", rest |-> q]
         \/ \E p \in Address!Protocols : url = [protocol |-> p, rest |-> <<"h">>]
         \/ \E n \in Ports : url = [protocol |-> "ws",
                                    rest |-> <<"h", ":">> \o Address!Decimal[n]]
      /\ parsed = Address!None /\ again = Address!None
  BY DEF Address!Init
<1>2. ASSUME NEW q \in Address!Strings PROVE q \in Seq(Alphabet)
  <2>1. PICK n \in 0..MaxUrl : q \in [1..n -> Chars]
    BY DEF Address!Strings
  <2>2. n \in Nat
    BY CodecsAssumption DEF CodecsAssumption
  <2>3. q \in [1..n -> Alphabet]
    BY ONLY <2>1 DEF Alphabet
  <2> QED
    BY ONLY <2>2, <2>3
<1>3. <<"h">> \in Seq(Alphabet)
  <2>1. "h" \in Alphabet
    BY DEF Alphabet
  <2> QED
    BY ONLY <2>1
<1>4. ASSUME NEW n \in Ports PROVE <<"h", ":">> \o Address!Decimal[n] \in Seq(Alphabet)
  <2>1. n \in Nat /\ n <= 99999
    BY CodecsAssumption DEF CodecsAssumption
  <2>2. n < 100000
    BY ONLY <2>1
  <2>3. PICK D : D = Address!Decimal[n]
    OBVIOUS
  <2>4. D \in Seq(Numerals)
    BY ONLY <2>1, <2>2, <2>3, DecimalIsRead DEF Written
  <2>5. Numerals \subseteq Alphabet /\ "h" \in Alphabet /\ ":" \in Alphabet
    BY DEF Alphabet
  <2>6. D \in Seq(Alphabet)
    BY ONLY <2>4, <2>5
  <2>7. <<"h", ":">> \in Seq(Alphabet)
    BY ONLY <2>5
  <2> QED
    BY ONLY <2>3, <2>6, <2>7
<1>5. "ws" \in Address!Protocols
  BY DEF Address!Protocols
<1>6. url.rest \in Seq(Alphabet) /\ url.protocol \in Address!Protocols
  <2>1. CASE \E q \in Address!Strings : url = [protocol |-> "ws", rest |-> q]
    BY ONLY <1>2, <1>5, <2>1
  <2>2. CASE \E p \in Address!Protocols : url = [protocol |-> p, rest |-> <<"h">>]
    BY ONLY <1>3, <2>2
  <2>3. CASE \E n \in Ports : url = [protocol |-> "ws",
                                     rest |-> <<"h", ":">> \o Address!Decimal[n]]
    <3>1. PICK n \in Ports : url = [protocol |-> "ws",
                                    rest |-> <<"h", ":">> \o Address!Decimal[n]]
      BY ONLY <2>3
    <3>2. PICK q : q = <<"h", ":">> \o Address!Decimal[n]
      OBVIOUS
    <3>3. q \in Seq(Alphabet)
      BY ONLY <1>4, <3>2, n \in Ports
    <3>4. url = [protocol |-> "ws", rest |-> q]
      BY ONLY <3>1, <3>2
    <3> QED
      BY ONLY <1>5, <3>3, <3>4
  <2> QED
    BY ONLY <1>1, <2>1, <2>2, <2>3
<1> QED
  BY ONLY <1>1, <1>6 DEF UrlInv

LEMMA UrlStep == UrlInv /\ [Address!Next]_(Address!vars) => UrlInv'
<1> SUFFICES ASSUME UrlInv, [Address!Next]_(Address!vars) PROVE UrlInv'
  OBVIOUS
<1>1. url' = url
  BY DEF Address!Next, Address!Parse, Address!ParseAgain, Address!vars
<1>2. (url.rest \in Seq(Alphabet) /\ url.protocol \in Address!Protocols)'
  BY ONLY <1>1, UrlInv DEF UrlInv, Alphabet, Numerals, Address!Digits, Address!Protocols
<1>3. Address!None.ok = FALSE
  BY DEF Address!None
<1>4. CASE Address!Parse
  <2>1. parsed = Address!None /\ parsed' = Address!parse(url) /\ again' = again
    BY <1>4 DEF Address!Parse
  <2>2. again = Address!None
    BY <1>3, <2>1 DEF UrlInv
  <2>3. (Address!parse(url))' = Address!parse(url')
    BY DEF Address!parse
  <2> QED
    BY ONLY <1>1, <1>2, <2>1, <2>2 DEF UrlInv
<1>5. CASE Address!ParseAgain
  <2>1. parsed.ok /\ again' = Address!parse(Address!to_string(parsed)) /\ parsed' = parsed
    BY <1>5 DEF Address!ParseAgain
  <2> QED
    BY ONLY <1>1, <1>2, <2>1, UrlInv DEF UrlInv
<1>6. CASE UNCHANGED Address!vars
  <2>1. parsed' = parsed /\ again' = again
    BY <1>6 DEF Address!vars
  <2> QED
    BY ONLY <1>1, <1>2, <2>1, UrlInv DEF UrlInv
<1> QED
  BY <1>4, <1>5, <1>6 DEF Address!Next

LEMMA UrlImplies ==
  ASSUME UrlInv
  PROVE  Address!UrlIsSplit
<1>1. /\ url.rest \in Seq(Alphabet) /\ url.protocol \in Address!Protocols
      /\ parsed = Address!None \/ parsed = Address!parse(url)
      /\ again # Address!None =>
           parsed.ok /\ again = Address!parse(Address!to_string(parsed))
  BY DEF UrlInv
<1>2. Address!tolower(url.protocol) = "ws" => url.protocol \in {"ws", "WS"}
  BY <1>1 DEF Address!Protocols, Address!tolower
<1>3. url.protocol \in {"ws", "WS"} /\ Address!ProperHost(url.rest)
        => Address!parse(url) = LooseSplit(url.rest)
  BY ONLY <1>1, ParseIsSplit
<1>4. Address!ProperAuthority(url.rest) =>
        Address!ProperHost(url.rest) /\ Address!Split(url.rest) = LooseSplit(url.rest)
  <2>1. Address!ProperAuthority(url.rest) => Address!ProperHost(url.rest)
    BY DEF Address!ProperAuthority
  <2> QED
    BY ONLY <1>1, <2>1, SplitIsLoose
<1>5. ASSUME again # Address!None, Address!ProperHost(url.rest) PROVE again = parsed
  <2>1. parsed.ok /\ again = Address!parse(Address!to_string(parsed))
    BY <1>1, <1>5
  <2>2. parsed = Address!parse(url)
    <3>1. Address!None.ok = FALSE
      BY DEF Address!None
    <3> QED
      BY ONLY <1>1, <2>1, <3>1
  <2>3. url.protocol \in {"ws", "WS"}
    <3>1. CASE url.protocol \in {"bad", "none"}
      <4>1. Address!parse(url) = Address!Error
        BY <3>1 DEF Address!parse, Address!tolower, Address!get_default_port, Address!npos
      <4> QED
        BY ONLY <2>1, <2>2, <4>1 DEF Address!Error
    <3> QED
      BY <1>1, <3>1 DEF Address!Protocols
  <2>4. parsed = LooseSplit(url.rest)
    BY ONLY <1>3, <1>5, <2>2, <2>3
  <2>5. Shape(parsed, Alphabet)
    <3>1. PICK q : q = url.rest
      OBVIOUS
    <3>2. q \in Seq(Alphabet) /\ Address!ProperHost(q) /\ parsed = LooseSplit(q) /\ parsed.ok
      BY ONLY <1>1, <1>5, <2>1, <2>4, <3>1
    <3> QED
      BY ONLY <3>2, SplitShape
  <2> QED
    BY ONLY <2>1, <2>5, ReadBack
<1>6. ASSUME parsed # Address!None, Address!tolower(url.protocol) = "ws",
             Address!ProperAuthority(url.rest)
      PROVE  parsed = Address!Split(url.rest)
  BY ONLY <1>1, <1>2, <1>3, <1>4, <1>6
<1> QED
  BY ONLY <1>5, <1>6 DEF Address!UrlIsSplit

(* URL::parse and to_string (URL.hpp): a URL without userinfo, whose authority has
   brackets only around the host, is accepted and divided, or refused, as RFC 3986
   does it, for texts of any length; and what to_string writes of a result is
   parsed to the same result, with each host in brackets and each of the 65535
   ports. *)
THEOREM CodecsUrlIsSplit == Spec => []UrlIsSplit
<1> DEFINE I == which = "url" => UrlInv
<1>1. Init => I
  BY UrlInit DEF Init, InitContext, InitShake, InitMask, InitUtf, InitAddress, InitBuf, InitSha
<1>2. I /\ [Next]_vars => I'
  <2> SUFFICES ASSUME I, [Next]_vars, which' = "url"
               PROVE  UrlInv'
    OBVIOUS
  <2>1. which = "url" /\ [Address!Next]_(Address!vars)
    <3>1. CASE UNCHANGED vars
      BY <3>1 DEF vars, Address!vars
    <3>2. CASE Next
      BY <3>2 DEF Next, AsContext, AsShake, AsMask, AsUtf, AsAddress, AsBuf, AsSha
    <3> QED
      BY <3>1, <3>2
  <2> QED
    BY <2>1, UrlStep
<1>3. I => UrlIsSplit
  BY UrlImplies DEF UrlIsSplit
<1> QED
  BY <1>1, <1>2, <1>3, PTL DEF Spec

=============================================================================
