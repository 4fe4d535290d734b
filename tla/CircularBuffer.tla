--------------------------- MODULE CircularBuffer ---------------------------
(***************************************************************************)
(* utils/CircularBuffer.hpp: the byte ring that BufferedSocket reads into. *)
(* Masking an index with capacity_ - 1 is written % Capacity, which is the *)
(* same thing because the constructor asserts a power of two.  A step is a *)
(* whole member function; the asserts are the guards, so a caller that     *)
(* breaks one has no step here.  The functions that copy in and out record *)
(* what they copied in given and dest.                                     *)
(***************************************************************************)
EXTENDS Integers, Sequences

CONSTANTS
  Capacity,   (* capacity_ *)
  Byte,       (* the element type T *)
  MinLen      (* shortest run of items a caller stores or removes: 1, as
                 BufferedSocket does, or 0 for all the asserts let through *)

ASSUME CapacityAssumption == Capacity \in Nat \ {0}
ASSUME PowerOfTwoAssumption == \E k \in 0..Capacity : 2^k = Capacity
ASSUME MinLenAssumption == MinLen \in {0, 1}

VARIABLES
  buffer,   (* buffer_, allocated but not initialised by the constructor *)
  head,     (* head_: where the next item is stored *)
  tail,     (* tail_: where the oldest item is *)
  full,     (* full_: tells a full ring from an empty one when head = tail *)
  given,    (* history: what the last push was given to store *)
  dest      (* what the last pop copied to its caller *)

ringVars == <<buffer, head, tail, full, given, dest>>

Index == 0..(Capacity - 1)

Wrap(i) == i % Capacity

Least(a, b) == IF a <= b THEN a ELSE b

empty == head = tail /\ ~full

size ==
  IF ~full
  THEN IF head < tail THEN Capacity + head - tail ELSE head - tail
  ELSE Capacity

available == Capacity - size

(* operator[](index), index counted from the oldest item *)
at(index) == buffer[Wrap(tail + index)]

(* Mutant: an empty ring is taken for one that wraps. *)
available_spanMutant ==
  IF full THEN 0
  ELSE IF head > tail THEN Capacity - head
  ELSE tail - head

(* Number of slots in available_as_contiguous_span(), which starts at head. *)
available_span ==
  IF full THEN 0
  ELSE IF head >= tail THEN Capacity - head
  ELSE tail - head

(* Number of slots in used_as_contiguous_span(), which starts at tail. *)
used_span ==
  IF empty THEN 0
  ELSE IF full THEN Capacity - tail
  ELSE IF head >= tail THEN head - tail
  ELSE Capacity - tail

(* Mutant: the rest of a wrapped run is not copied. *)
CopyInMutant(i, src) ==
  [j \in Index |-> IF j >= i /\ j < i + Least(Len(src), Capacity - i)
                   THEN src[j - i + 1] ELSE buffer[j]]

(* Memory after src has been copied to the slots from index i on, the part
   that does not fit before the end continuing at slot 0. *)
CopyIn(i, src) ==
  LET first == Least(Len(src), Capacity - i)
  IN  [j \in Index |->
         IF j >= i /\ j < i + first THEN src[j - i + 1]
         ELSE IF j < Len(src) - first THEN src[first + j + 1]
         ELSE buffer[j]]

(* The len items from index i on, in the two pieces pop copies them. *)
CopyOut(i, len) ==
  LET first == Least(len, Capacity - i)
  IN  [k \in 1..len |-> IF k <= first THEN buffer[i + k - 1]
                                      ELSE buffer[k - first - 1]]

-----------------------------------------------------------------------------

RingInit ==
  /\ buffer \in [Index -> Byte]
  /\ head = 0
  /\ tail = 0
  /\ full = FALSE
  /\ given = <<>> /\ dest = <<>>

(* push(data): one item *)
push_one(b) ==
  /\ ~full
  /\ buffer' = [buffer EXCEPT ![head] = b]
  /\ head' = Wrap(head + 1)
  /\ full' = (head' = tail)
  /\ given' = <<b>>
  /\ UNCHANGED <<tail, dest>>

(* push(src, len): a run of items, split where the memory ends *)
push(src) ==
  LET first == Least(Len(src), Capacity - head)
  IN  /\ Len(src) <= available
      /\ buffer' = CopyIn(head, src)
      /\ head' = IF Len(src) > first THEN Len(src) - first
                                     ELSE Wrap(head + first)
      /\ full' = (head' = tail)
      /\ given' = src
      /\ UNCHANGED <<tail, dest>>

(* Mutant: head is not wrapped at the end of the memory. *)
move_headMutant(src) ==
  /\ Len(src) <= available_span
  /\ buffer' = [j \in Index |-> IF j >= head /\ j < head + Len(src)
                                THEN src[j - head + 1] ELSE buffer[j]]
  /\ head' = head + Len(src)
  /\ full' = (head' = tail)
  /\ given' = src
  /\ UNCHANGED <<tail, dest>>

(* available_as_contiguous_span(), a write through it, then move_head(len) *)
move_head(src) ==
  /\ Len(src) <= available_span
  /\ buffer' = [j \in Index |-> IF j >= head /\ j < head + Len(src)
                                THEN src[j - head + 1] ELSE buffer[j]]
  /\ head' = Wrap(head + Len(src))
  /\ full' = (head' = tail)
  /\ given' = src
  /\ UNCHANGED <<tail, dest>>

(* Mutant: the full flag survives a removal. *)
pop_oneMutant ==
  /\ ~empty
  /\ dest' = <<buffer[tail]>>
  /\ tail' = Wrap(tail + 1)
  /\ UNCHANGED <<buffer, head, full, given>>

(* pop(data): one item; false, and no change, when there is none *)
pop_one ==
  /\ ~empty
  /\ dest' = <<buffer[tail]>>
  /\ tail' = Wrap(tail + 1)
  /\ full' = FALSE
  /\ UNCHANGED <<buffer, head, given>>

(* pop(dest, len): returns at once when there is nothing to do *)
pop(len) ==
  LET first == Least(len, Capacity - tail)
  IN  /\ len # 0 /\ ~empty
      /\ len <= size
      /\ dest' = CopyOut(tail, len)
      /\ tail' = IF len > first THEN len - first ELSE Wrap(tail + first)
      /\ full' = FALSE
      /\ UNCHANGED <<buffer, head, given>>

(* move_tail(len): forget len items *)
move_tail(len) ==
  /\ len <= size
  /\ tail' = Wrap(tail + len)
  /\ full' = FALSE
  /\ UNCHANGED <<buffer, head, given, dest>>

clear ==
  /\ head' = 0
  /\ tail' = 0
  /\ full' = FALSE
  /\ UNCHANGED <<buffer, given, dest>>

(* Runs of items of every length a caller may store. *)
Runs == UNION {[1..n -> Byte] : n \in MinLen..Capacity}

RingNext ==
  \/ \E b \in Byte : push_one(b)
  \/ \E src \in Runs : push(src) \/ move_head(src)
  \/ pop_one
  \/ \E len \in MinLen..Capacity : pop(len) \/ move_tail(len)
  \/ clear

RingSpec == RingInit /\ [][RingNext]_ringVars

-----------------------------------------------------------------------------

(* The type invariant.  With an empty ring head_ and tail_ may be anywhere,
   but full_ can only be set while they coincide. *)
RingTypeOK ==
  /\ buffer \in [Index -> Byte]
  /\ head \in Index
  /\ tail \in Index
  /\ full \in BOOLEAN
  /\ full => head = tail
  /\ given \in Seq(Byte) /\ dest \in Seq(Byte)

(* The items stored in the ring, oldest first, as operator[] shows them. *)
Contents == [i \in 1..size |-> at(i - 1)]

Queue == INSTANCE Fifo WITH Limit <- Capacity, Item <- Byte,
                            items <- Contents,
                            in <- given, out <- dest

(* Whatever mixture of single, bulk and in-place operations is used and
   wherever it wraps, the ring behaves as a bounded FIFO queue: pop hands out
   the oldest items in order, and what it stores is what push was given. *)
ImplementsFifo == Queue!Spec

(* The two spans are what their users take them for: the span to read from
   starts with the oldest item and is empty only for an empty ring; the span
   to write to never covers a stored item and is empty only for a full ring
   (fill_read_buffer hands it to a socket read, which reports an empty span
   as a closed connection). *)
SpansAreSafe ==
  /\ used_span > 0 <=> size > 0
  /\ available_span > 0 <=> available > 0
  /\ tail + used_span <= Capacity /\ head + available_span <= Capacity
  /\ \A i \in 0..(used_span - 1) : buffer[tail + i] = Contents[i + 1]
  /\ \A i \in head..(head + available_span - 1) :
       \A k \in 0..(size - 1) : Wrap(tail + k) # i

(* "Push multiple items onto buffer.  The buffer must have enough space to
   store all items": a push that meets this condition adds its items and
   nothing else, for every length, zero included.  The same for move_head. *)
PushAddsItsLength ==
  [][\A src \in Runs : push(src) => size' = size + Len(src)]_ringVars

=============================================================================
