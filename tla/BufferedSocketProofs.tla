------------------------ MODULE BufferedSocketProofs ------------------------
(***************************************************************************)
(* Proofs about the ring of CircularBuffer.tla and about BufferedSocket,   *)
(* for every capacity and every size of the delimiter, of the stream and   *)
(* of the reads.                                                           *)
(*                                                                         *)
(* The ring implements a bounded queue.  The heart of the argument is      *)
(* HeadFollows: the slot to write next is size slots after the oldest      *)
(* item.  With it every operation is arithmetic modulo the capacity, and   *)
(* each is shown to do to Contents what the abstract queue does.           *)
(*                                                                         *)
(* On this rests the socket: the bytes of the stream pass in order through *)
(* the ring and through what read_until pushes back, and read_until stops  *)
(* at the first delimiter.                                                 *)
(***************************************************************************)
EXTENDS BufferedSocket, SequenceTheorems, TLAPS

-----------------------------------------------------------------------------
(* The ring *)

(* Masking keeps an index that is in range and folds one that ran past the
   end at most once. *)
LEMMA WrapOnce ==
  \A i \in 0..(2 * Capacity - 1) :
     Wrap(i) = IF i < Capacity THEN i ELSE i - Capacity
  BY CapacityAssumption DEF Wrap

(* size() is a number of items that fit, zero exactly when empty() holds. *)
LEMMA SizeRange ==
  ASSUME RingTypeOK
  PROVE  /\ size \in 0..Capacity
         /\ size = 0 <=> empty
         /\ size = Capacity <=> full
  BY CapacityAssumption DEF RingTypeOK, size, empty, Index

(* The next slot to write is size slots after the oldest item. *)
LEMMA HeadFollows ==
  ASSUME RingTypeOK
  PROVE  head = Wrap(tail + size)
  BY CapacityAssumption, WrapOnce, SizeRange DEF RingTypeOK, size, Index

(* Contents is a sequence of size bytes, the k-th in the slot k - 1 after
   the oldest. *)
ContentsFacts ==
  /\ Contents \in Seq(Byte)
  /\ Len(Contents) = size
  /\ \A k \in 1..size : Contents[k] = buffer[Wrap(tail + k - 1)]

LEMMA ContentsType == RingTypeOK => ContentsFacts
<1> SUFFICES ASSUME RingTypeOK PROVE ContentsFacts
  OBVIOUS
<1>1. size \in Nat
  BY SizeRange, CapacityAssumption
<1>2. \A k \in 1..size : at(k - 1) \in Byte /\ at(k - 1) = buffer[Wrap(tail + k - 1)]
  <2> SUFFICES ASSUME NEW k \in 1..size
               PROVE  at(k - 1) \in Byte /\ at(k - 1) = buffer[Wrap(tail + k - 1)]
    OBVIOUS
  <2>1. tail + (k - 1) = tail + k - 1 /\ tail + (k - 1) \in 0..(2 * Capacity - 1)
    BY SizeRange, CapacityAssumption DEF RingTypeOK, Index
  <2>2. Wrap(tail + (k - 1)) \in Index
    BY <2>1, WrapOnce, CapacityAssumption DEF Index
  <2> QED
    BY <2>1, <2>2 DEF at, RingTypeOK
<1>3. Contents \in [1..size -> Byte]
  BY <1>2 DEF Contents
<1>4. Contents \in Seq(Byte)
  BY <1>1, <1>3
<1> QED
  BY <1>1, <1>2, <1>3, <1>4 DEF Contents, ContentsFacts

(* What every operation that adds items does: the n slots from head on take
   the new items, the stored ones stay, head moves n slots. *)
Stores(src) ==
  /\ tail' = tail
  /\ head' = Wrap(head + Len(src))
  /\ full' = (head' = tail)
  /\ buffer' \in [Index -> Byte]
  /\ \A k \in 0..(size - 1) : buffer'[Wrap(tail + k)] = buffer[Wrap(tail + k)]
  /\ \A k \in 0..(Len(src) - 1) : buffer'[Wrap(head + k)] = src[k + 1]
  /\ dest' = dest
  /\ given' = src

(* The slots of the items to come follow those of the stored ones. *)
LEMMA SlotsFollow ==
  ASSUME RingTypeOK,
         NEW j \in 0..(available - 1)
  PROVE  Wrap(tail + size + j) = Wrap(head + j)
<1>1. size \in 0..Capacity /\ head \in 0..(Capacity - 1) /\ tail \in 0..(Capacity - 1)
  BY SizeRange DEF RingTypeOK, Index
<1>2. tail + size \in 0..(2 * Capacity - 1)
  BY <1>1, CapacityAssumption
<1>3. head = IF tail + size < Capacity THEN tail + size ELSE tail + size - Capacity
  BY <1>1, <1>2, HeadFollows, WrapOnce, CapacityAssumption
<1>4. j \in 0..(Capacity - size - 1)
  BY DEF available
<1> DEFINE p == tail + size + j
           q == head + j
<1>5. /\ p \in 0..(2 * Capacity - 1)
      /\ q \in 0..(2 * Capacity - 1)
      /\ p = q \/ (p = q + Capacity /\ q < Capacity)
  BY <1>1, <1>3, <1>4, CapacityAssumption
<1> HIDE DEF p, q
<1>6. /\ Wrap(p) = IF p < Capacity THEN p ELSE p - Capacity
      /\ Wrap(q) = IF q < Capacity THEN q ELSE q - Capacity
  BY <1>5, WrapOnce
<1>7. Wrap(p) = Wrap(q)
  BY <1>5, <1>6, CapacityAssumption
<1> QED
  BY <1>7 DEF p, q

(* Such a step appends the new items. *)
LEMMA Grow ==
  ASSUME RingTypeOK,
         NEW src \in Seq(Byte), Len(src) >= 1, Len(src) <= available,
         Stores(src)
  PROVE  /\ RingTypeOK'
         /\ Contents' = Contents \o src
<1> DEFINE n == Len(src)
<1>n. n \in Nat /\ n >= 1 /\ n <= Capacity - size
  BY LenProperties DEF available
<1> HIDE DEF n
<1>0. size \in 0..Capacity /\ head \in 0..(Capacity - 1) /\ tail \in 0..(Capacity - 1)
  BY SizeRange DEF RingTypeOK, Index
<1>1. head' = (IF head + n < Capacity THEN head + n ELSE head + n - Capacity)
        /\ tail' = tail
  <2>1. head + n \in 0..(2 * Capacity - 1)
    BY <1>0, <1>n, CapacityAssumption
  <2>2. head' = Wrap(head + n) /\ tail' = tail
    BY DEF Stores, n
  <2> QED
    BY <2>1, <2>2, <1>0, <1>n, WrapOnce, CapacityAssumption
<1>2. RingTypeOK'
  <2>1. head' \in Index /\ tail' \in Index
    BY <1>0, <1>1, <1>n, CapacityAssumption DEF Index
  <2>2. buffer' \in [Index -> Byte] /\ full' \in BOOLEAN /\ (full' => head' = tail')
          /\ given' \in Seq(Byte) /\ dest' \in Seq(Byte)
    BY DEF Stores, RingTypeOK
  <2> QED
    BY <2>1, <2>2 DEF RingTypeOK
<1>3. size' = size + n
  <2>1. full' <=> head' = tail
    BY DEF Stores
  <2>2. ~full
    BY <1>n, SizeRange, CapacityAssumption
  <2>3. size = IF head < tail THEN Capacity + head - tail ELSE head - tail
    BY <2>2 DEF size
  <2>4. CASE head' = tail
    <3>1. size' = Capacity
      BY <2>1, <2>4 DEF size
    <3> QED
      BY <3>1, <2>3, <2>4, <1>0, <1>1, <1>n, CapacityAssumption
  <2>5. CASE head' # tail
    <3>1. size' = IF head' < tail' THEN Capacity + head' - tail' ELSE head' - tail'
      BY <2>1, <2>5 DEF size
    <3> QED
      BY <3>1, <2>3, <2>5, <1>0, <1>1, <1>n, CapacityAssumption
  <2> QED
    BY <2>4, <2>5
<1>4. Contents' \in Seq(Byte) /\ Len(Contents') = size + n
        /\ \A k \in 1..(size + n) : Contents'[k] = buffer'[Wrap(tail + k - 1)]
  <2>1. ContentsFacts'
    BY <1>2, ContentsType, PTL
  <2> QED
    BY <2>1, <1>1, <1>3 DEF ContentsFacts
<1>5. /\ Contents \o src \in Seq(Byte)
      /\ Len(Contents \o src) = size + n
      /\ \A k \in 1..(size + n) :
           (Contents \o src)[k] = IF k <= size THEN Contents[k] ELSE src[k - size]
  <2>1. Contents \in Seq(Byte) /\ Len(Contents) = size
    BY ContentsType DEF ContentsFacts
  <2>2. /\ Contents \o src \in Seq(Byte)
        /\ Len(Contents \o src) = Len(Contents) + Len(src)
        /\ \A k \in 1..(Len(Contents) + Len(src)) :
             (Contents \o src)[k] = IF k <= Len(Contents) THEN Contents[k]
                                     ELSE src[k - Len(Contents)]
    BY <2>1, ConcatProperties
  <2> QED
    BY <2>1, <2>2 DEF n
<1>6. ASSUME NEW k \in 1..(size + n)
      PROVE  Contents'[k] = (Contents \o src)[k]
  <2>1. CASE k <= size
    <3>1. k - 1 \in 0..(size - 1) /\ tail + (k - 1) = tail + k - 1
      BY <2>1, <1>0
    <3>2. buffer'[Wrap(tail + k - 1)] = buffer[Wrap(tail + k - 1)]
      BY <3>1 DEF Stores
    <3>3. k \in 1..size
      BY <2>1, <1>0
    <3> QED
      BY <3>2, <3>3, <2>1, <1>4, <1>5, ContentsType DEF ContentsFacts
  <2>2. CASE ~(k <= size)
    <3> DEFINE j == k - size - 1
    <3>1. j \in 0..(n - 1) /\ j \in 0..(Capacity - size - 1) /\ j + 1 = k - size
          /\ tail + size + j = tail + k - 1
      BY <2>2, <1>0, <1>n, CapacityAssumption
    <3> HIDE DEF j
    <3>2. Wrap(tail + k - 1) = Wrap(head + j)
      BY <3>1, SlotsFollow DEF available
    <3>3. buffer'[Wrap(head + j)] = src[k - size]
      BY <3>1 DEF n, Stores
    <3> QED
      BY <3>2, <3>3, <2>2, <1>4, <1>5
  <2> QED
    BY <2>1, <2>2
<1>7. Contents' = Contents \o src
  BY <1>4, <1>5, <1>6, SeqEqual
<1> QED
  BY <1>2, <1>7

(* What every operation that removes items does: tail moves over them. *)
Removes(n) ==
  /\ tail' = Wrap(tail + n)
  /\ head' = head
  /\ full' = FALSE
  /\ buffer' = buffer
  /\ given' = given
  /\ dest' \in Seq(Byte)

(* Such a step removes the n oldest items. *)
LEMMA Shrink ==
  ASSUME RingTypeOK,
         NEW n \in 1..size,
         Removes(n)
  PROVE  /\ RingTypeOK'
         /\ Contents' = SubSeq(Contents, n + 1, Len(Contents))
<1>0. size \in 0..Capacity /\ head \in 0..(Capacity - 1) /\ tail \in 0..(Capacity - 1)
  BY SizeRange DEF RingTypeOK, Index
<1>1. tail' = (IF tail + n < Capacity THEN tail + n ELSE tail + n - Capacity)
        /\ head' = head
  <2>1. tail + n \in 0..(2 * Capacity - 1)
    BY <1>0, CapacityAssumption
  <2> QED
    BY <2>1, <1>0, WrapOnce, CapacityAssumption DEF Removes
<1>2. RingTypeOK'
  <2>1. head' \in Index /\ tail' \in Index
    BY <1>0, <1>1, CapacityAssumption DEF Index
  <2> QED
    BY <2>1 DEF RingTypeOK, Removes
<1>3. size' = size - n
  <2>1. full' = FALSE /\ full \in BOOLEAN /\ (full => head = tail)
    BY DEF Removes, RingTypeOK
  <2> QED
    BY <2>1, <1>0, <1>1, CapacityAssumption DEF size
<1>4. Contents' \in Seq(Byte) /\ Len(Contents') = size - n
        /\ \A k \in 1..(size - n) : Contents'[k] = buffer[Wrap(tail' + k - 1)]
  <2>1. ContentsFacts'
    BY <1>2, ContentsType, PTL
  <2>2. buffer' = buffer
    BY DEF Removes
  <2> QED
    BY <2>1, <2>2, <1>3 DEF ContentsFacts
<1> DEFINE rest == SubSeq(Contents, n + 1, Len(Contents))
<1>5. /\ rest \in Seq(Byte)
      /\ Len(rest) = size - n
      /\ \A k \in 1..(size - n) : rest[k] = Contents[n + k]
  <2>1. Contents \in Seq(Byte) /\ Len(Contents) = size
    BY ContentsType DEF ContentsFacts
  <2> QED
    BY <2>1, <1>0
<1> HIDE DEF rest
<1>6. ASSUME NEW k \in 1..(size - n)
      PROVE  Contents'[k] = rest[k]
  <2> DEFINE p == tail + (n + k) - 1
             q == tail' + k - 1
  <2>1. /\ p \in 0..(2 * Capacity - 1)
        /\ q \in 0..(2 * Capacity - 1)
        /\ p = q \/ (p = q + Capacity /\ q < Capacity)
    BY <1>0, <1>1, CapacityAssumption
  <2>2. n + k \in 1..size
    BY <1>0
  <2> HIDE DEF p, q
  <2>3. /\ Wrap(p) = IF p < Capacity THEN p ELSE p - Capacity
        /\ Wrap(q) = IF q < Capacity THEN q ELSE q - Capacity
    BY <2>1, WrapOnce
  <2>4. Wrap(p) = Wrap(q)
    BY <2>1, <2>3, CapacityAssumption
  <2>5. Contents[n + k] = buffer[Wrap(p)]
    BY <2>2, ContentsType DEF ContentsFacts, p
  <2>6. Contents'[k] = buffer[Wrap(q)]
    BY <1>4 DEF q
  <2> QED
    BY <2>4, <2>5, <2>6, <1>5
<1> QED
  BY <1>2, <1>4, <1>5, <1>6, SeqEqual DEF rest

-----------------------------------------------------------------------------

(* The span to write through is part of the free space and ends where the
   memory ends. *)
LEMMA AvailableSpan ==
  ASSUME RingTypeOK
  PROVE  /\ available_span \in 0..available
         /\ head + available_span <= Capacity
  BY SizeRange, CapacityAssumption
  DEF available_span, available, size, RingTypeOK, Index

(* A stored item is in none of the slots that follow head in the free space. *)
LEMMA SlotsApart ==
  ASSUME RingTypeOK,
         NEW k \in 0..(size - 1),
         NEW j \in 0..(available - 1)
  PROVE  Wrap(tail + k) # Wrap(head + j)
<1>1. /\ size \in 0..Capacity /\ tail \in 0..(Capacity - 1)
      /\ j \in 0..(Capacity - size - 1)
  BY SizeRange DEF RingTypeOK, Index, available
<1>2. Wrap(head + j) = Wrap(tail + size + j)
  BY SlotsFollow
<1> DEFINE p == tail + k
           q == tail + size + j
<1>3. /\ p \in 0..(2 * Capacity - 1)
      /\ q \in 0..(2 * Capacity - 1)
      /\ p < q /\ q < p + Capacity
  BY <1>1, CapacityAssumption
<1> HIDE DEF p, q
<1>4. /\ Wrap(p) = IF p < Capacity THEN p ELSE p - Capacity
      /\ Wrap(q) = IF q < Capacity THEN q ELSE q - Capacity
  BY <1>3, WrapOnce
<1>5. Wrap(p) # Wrap(q)
  BY <1>3, <1>4, CapacityAssumption
<1> QED
  BY <1>2, <1>5 DEF p, q

(* Copying src to the n slots from head on stores it, whether the copy is
   split at the end of the memory or not. *)
LEMMA CopyStores ==
  ASSUME RingTypeOK,
         NEW src \in Seq(Byte), Len(src) <= available,
         buffer' = CopyIn(head, src)
  PROVE  /\ buffer' \in [Index -> Byte]
         /\ \A k \in 0..(size - 1) : buffer'[Wrap(tail + k)] = buffer[Wrap(tail + k)]
         /\ \A k \in 0..(Len(src) - 1) : buffer'[Wrap(head + k)] = src[k + 1]
<1> DEFINE n == Len(src)
<1>n. n \in Nat /\ n <= Capacity - size /\ src \in [1..n -> Byte]
  BY LenProperties DEF available
<1>0. size \in 0..Capacity /\ head \in 0..(Capacity - 1) /\ tail \in 0..(Capacity - 1)
      /\ buffer \in [0..(Capacity - 1) -> Byte]
  BY SizeRange DEF RingTypeOK, Index
<1> DEFINE first == IF n <= Capacity - head THEN n ELSE Capacity - head
<1>1. buffer' = [j \in 0..(Capacity - 1) |->
                   IF j >= head /\ j < head + first THEN src[j - head + 1]
                   ELSE IF j < n - first THEN src[first + j + 1]
                   ELSE buffer[j]]
  BY DEF CopyIn, Least, Index
<1>2. first \in 0..n /\ first <= Capacity - head /\ (first = n \/ first = Capacity - head)
  BY <1>0, <1>n, CapacityAssumption
<1> HIDE DEF n, first
<1>3. ASSUME NEW j \in 0..(Capacity - 1)
      PROVE  buffer'[j] \in Byte
  <2>1. CASE j >= head /\ j < head + first
    <3>1. j - head + 1 \in 1..n
      BY <2>1, <1>0, <1>n, <1>2
    <3> QED
      BY <2>1, <3>1, <1>1, <1>n
  <2>2. CASE ~(j >= head /\ j < head + first) /\ j < n - first
    <3>1. first + j + 1 \in 1..n
      BY <2>2, <1>0, <1>n, <1>2
    <3> QED
      BY <2>2, <3>1, <1>1, <1>n
  <2>3. CASE ~(j >= head /\ j < head + first) /\ ~(j < n - first)
    BY <2>3, <1>1, <1>0
  <2> QED
    BY <2>1, <2>2, <2>3
<1>4. buffer' \in [Index -> Byte]
  BY <1>1, <1>3 DEF Index
<1>5. ASSUME NEW k \in 0..(n - 1)
      PROVE  buffer'[Wrap(head + k)] = src[k + 1]
  <2> DEFINE p == head + k
  <2>1. p \in 0..(2 * Capacity - 1) /\ k \in 0..(Capacity - 1)
    BY <1>0, <1>n, CapacityAssumption
  <2> HIDE DEF p
  <2>2. Wrap(p) = IF p < Capacity THEN p ELSE p - Capacity
    BY <2>1, WrapOnce
  <2>3. CASE p < Capacity
    <3>1. p \in 0..(Capacity - 1) /\ p >= head /\ p < head + first /\ p - head + 1 = k + 1
      BY <2>1, <2>3, <1>0, <1>n, <1>2, CapacityAssumption DEF p
    <3> QED
      BY <3>1, <2>2, <2>3, <1>1 DEF p
  <2>4. CASE ~(p < Capacity)
    <3> DEFINE j == p - Capacity
    <3>1. /\ j \in 0..(Capacity - 1) /\ ~(j >= head) /\ j < n - first
          /\ first + j + 1 = k + 1
      BY <2>1, <2>4, <1>0, <1>n, <1>2, CapacityAssumption DEF p
    <3> HIDE DEF j
    <3>2. buffer'[j] = src[k + 1]
      BY <3>1, <1>1
    <3> QED
      BY <3>2, <2>2, <2>4 DEF p, j
  <2> QED
    BY <2>3, <2>4
<1>6. ASSUME NEW i \in 0..(Capacity - 1), buffer'[i] # buffer[i]
      PROVE  \E k \in 0..(n - 1) : i = Wrap(head + k)
  <2>1. CASE i >= head /\ i < head + first
    <3>1. i - head \in 0..(n - 1) /\ head + (i - head) = i /\ i \in 0..(2 * Capacity - 1)
      BY <2>1, <1>0, <1>n, <1>2, CapacityAssumption
    <3>2. Wrap(i) = i
      BY <3>1, WrapOnce, CapacityAssumption
    <3> QED
      BY <3>1, <3>2
  <2>2. CASE ~(i >= head /\ i < head + first) /\ i < n - first
    <3> DEFINE p == i + Capacity
    <3>1. p - head \in 0..(n - 1) /\ head + (p - head) = p /\ p \in 0..(2 * Capacity - 1)
          /\ ~(p < Capacity) /\ p - Capacity = i
      BY <2>2, <1>0, <1>n, <1>2, CapacityAssumption
    <3> HIDE DEF p
    <3>2. Wrap(p) = i
      BY <3>1, WrapOnce
    <3> QED
      BY <3>1, <3>2
  <2> QED
    BY <2>1, <2>2, <1>6, <1>1
<1>7. ASSUME NEW k \in 0..(size - 1)
      PROVE  buffer'[Wrap(tail + k)] = buffer[Wrap(tail + k)]
  <2>1. tail + k \in 0..(2 * Capacity - 1)
    BY <1>0, CapacityAssumption
  <2>2. Wrap(tail + k) \in 0..(Capacity - 1)
    BY <2>1, <1>0, WrapOnce, CapacityAssumption
  <2>3. \A j \in 0..(n - 1) : Wrap(tail + k) # Wrap(head + j)
    <3> SUFFICES ASSUME NEW j \in 0..(n - 1) PROVE Wrap(tail + k) # Wrap(head + j)
      OBVIOUS
    <3>1. j \in 0..(available - 1)
      BY <1>0, <1>n, CapacityAssumption DEF available
    <3> QED
      BY <3>1, SlotsApart
  <2> QED
    BY <2>2, <2>3, <1>6
<1> QED
  BY <1>4, <1>5, <1>7 DEF n

(* push of at least one item appends its items. *)
LEMMA PushAppends ==
  ASSUME RingTypeOK, NEW src \in Seq(Byte), Len(src) >= 1, push(src)
  PROVE  /\ RingTypeOK'
         /\ Contents' = Contents \o src
         /\ dest' = dest
         /\ Len(src) <= available
<1> DEFINE n == Len(src)
<1>n. n \in Nat /\ n >= 1 /\ n <= Capacity - size /\ n <= available
  BY LenProperties DEF available, push
<1>0. size \in 0..Capacity /\ head \in 0..(Capacity - 1)
  BY SizeRange DEF RingTypeOK, Index
<1>1. head' = IF n <= Capacity - head THEN Wrap(head + n) ELSE n - (Capacity - head)
  <2>1. head' = IF n > Least(n, Capacity - head) THEN n - Least(n, Capacity - head)
                ELSE Wrap(head + Least(n, Capacity - head))
    BY DEF push
  <2> QED
    BY <2>1, <1>0, <1>n, CapacityAssumption DEF Least
<1> DEFINE p == head + n
<1>2. p \in 0..(2 * Capacity - 1) /\ (~(n <= Capacity - head) => n - (Capacity - head) = p - Capacity /\ ~(p < Capacity))
  BY <1>0, <1>n, CapacityAssumption
<1> HIDE DEF n, p
<1>3. head' = Wrap(p)
  BY <1>1, <1>2, WrapOnce, CapacityAssumption DEF p
<1>4. Stores(src)
  <2>1. buffer' = CopyIn(head, src) /\ tail' = tail /\ full' = (head' = tail)
        /\ given' = src /\ dest' = dest
    BY DEF push
  <2> QED
    BY <2>1, <1>3, <1>n, CopyStores DEF Stores, n, p
<1> QED
  BY <1>4, <1>n, Grow DEF n, push

(* Writing through the span and moving head appends the bytes written. *)
LEMMA MoveHeadAppends ==
  ASSUME RingTypeOK, NEW src \in Seq(Byte), Len(src) >= 1, move_head(src)
  PROVE  /\ RingTypeOK'
         /\ Contents' = Contents \o src
         /\ dest' = dest
         /\ Len(src) <= available
<1> DEFINE n == Len(src)
<1>n. n \in Nat /\ n >= 1 /\ n <= available_span
  BY LenProperties DEF move_head
<1>0. size \in 0..Capacity /\ head \in 0..(Capacity - 1)
  BY SizeRange DEF RingTypeOK, Index
<1>1. n <= available /\ n <= Capacity - head
  BY <1>n, <1>0, AvailableSpan, CapacityAssumption DEF available
<1>2. CopyIn(head, src) = [j \in Index |-> IF j >= head /\ j < head + n
                                           THEN src[j - head + 1] ELSE buffer[j]]
  <2>1. Least(n, Capacity - head) = n
    BY <1>1 DEF Least
  <2>2. \A j \in Index : ~(j < n - n)
    BY <1>n DEF Index
  <2> QED
    BY <2>1, <2>2 DEF CopyIn
<1>3. Stores(src)
  <2>1. buffer' = CopyIn(head, src) /\ tail' = tail /\ full' = (head' = tail)
        /\ given' = src /\ dest' = dest /\ head' = Wrap(head + n)
    BY <1>2 DEF move_head
  <2> QED
    BY <2>1, <1>1, CopyStores DEF Stores
<1> QED
  BY <1>3, <1>1, <1>n, Grow DEF move_head

(* push of a single item appends it. *)
LEMMA PushOneAppends ==
  ASSUME RingTypeOK, NEW b \in Byte, push_one(b)
  PROVE  /\ RingTypeOK'
         /\ Contents' = Contents \o <<b>>
         /\ dest' = dest
         /\ 1 <= available
<1>0. size \in 0..Capacity /\ size # Capacity /\ head \in 0..(Capacity - 1)
      /\ buffer \in [0..(Capacity - 1) -> Byte]
  BY SizeRange DEF RingTypeOK, Index, push_one
<1>1. 1 <= available
  BY <1>0, CapacityAssumption DEF available
<1>2. buffer' = CopyIn(head, <<b>>)
  <2>1. Least(1, Capacity - head) = 1
    BY <1>0, CapacityAssumption DEF Least
  <2>2. buffer' = [buffer EXCEPT ![head] = b]
    BY DEF push_one
  <2>3. \A j \in 0..(Capacity - 1) : buffer'[j] = IF j >= head /\ j < head + 1 THEN b ELSE buffer[j]
    BY <2>2, <1>0
  <2>4. buffer' = [j \in 0..(Capacity - 1) |-> IF j >= head /\ j < head + 1 THEN b ELSE buffer[j]]
    BY <2>2, <2>3, <1>0
  <2>5. \A j \in 0..(Capacity - 1) : /\ ~(j < Len(<<b>>) - 1)
                                     /\ j >= head /\ j < head + 1 => <<b>>[j - head + 1] = b
    BY <1>0
  <2> QED
    BY <2>1, <2>4, <2>5 DEF CopyIn, Index
<1> DEFINE src == <<b>>
<1>g. given' = src
  BY DEF push_one
<1>3. src \in Seq(Byte) /\ Len(src) = 1 /\ buffer' = CopyIn(head, src)
  BY <1>2
<1> HIDE DEF src
<1>4. tail' = tail /\ full' = (head' = tail) /\ dest' = dest /\ head' = Wrap(head + Len(src))
  BY <1>3 DEF push_one
<1>5. Len(src) <= available /\ Len(src) >= 1
  BY <1>1, <1>3
<1>6. Stores(src)
  BY <1>3, <1>4, <1>5, <1>g, CopyStores DEF Stores
<1>7. RingTypeOK' /\ Contents' = Contents \o src
  BY <1>3, <1>5, <1>6, Grow
<1> QED
  BY <1>1, <1>4, <1>7 DEF src

(* pop copies the oldest items out and removes them. *)
LEMMA PopTakes ==
  ASSUME RingTypeOK, NEW len \in 0..Capacity, pop(len)
  PROVE  /\ RingTypeOK'
         /\ dest' = SubSeq(Contents, 1, len)
         /\ Contents' = SubSeq(Contents, len + 1, Len(Contents))
         /\ len <= Len(Contents)
<1>0. /\ size \in 0..Capacity /\ tail \in 0..(Capacity - 1)
      /\ len \in 1..size
  BY SizeRange DEF RingTypeOK, Index, pop
<1> DEFINE first == IF len <= Capacity - tail THEN len ELSE Capacity - tail
<1>1. first \in 0..len /\ (first = len \/ first = Capacity - tail)
  BY <1>0, CapacityAssumption
<1>2. tail' = (IF len > first THEN len - first ELSE Wrap(tail + first))
      /\ dest' = [k \in 1..len |-> IF k <= first THEN buffer[tail + k - 1]
                                   ELSE buffer[k - first - 1]]
  BY DEF pop, CopyOut, Least
<1>c. /\ Contents \in Seq(Byte) /\ Len(Contents) = size
      /\ \A k \in 1..size : Contents[k] = buffer[Wrap(tail + k - 1)]
  BY ContentsType DEF ContentsFacts
<1>3. ASSUME NEW k \in 1..len
      PROVE  dest'[k] = Contents[k]
  <2> DEFINE p == tail + k - 1
  <2>1. /\ p \in 0..(2 * Capacity - 1)
        /\ k <= first <=> p < Capacity
        /\ ~(k <= first) => k - first - 1 = p - Capacity
    BY <1>0, <1>1, CapacityAssumption
  <2>2. Contents[k] = buffer[Wrap(p)]
    BY <1>0, <1>c
  <2>3. dest'[k] = IF k <= first THEN buffer[p] ELSE buffer[k - first - 1]
    BY <1>2
  <2> HIDE DEF p, first
  <2>4. Wrap(p) = IF p < Capacity THEN p ELSE p - Capacity
    BY <2>1, WrapOnce
  <2> QED
    BY <2>1, <2>2, <2>3, <2>4
<1>4. tail' = Wrap(tail + len)
  <2> DEFINE p == tail + len
  <2>1. /\ p \in 0..(2 * Capacity - 1)
        /\ len > first => len - first = p - Capacity /\ ~(p < Capacity)
        /\ ~(len > first) => tail + first = p
    BY <1>0, <1>1, CapacityAssumption
  <2> HIDE DEF p, first
  <2>2. tail' = Wrap(p)
    BY <2>1, <1>2, WrapOnce, CapacityAssumption
  <2> QED
    BY <2>2 DEF p
<1> HIDE DEF first
<1>5. dest' = SubSeq(Contents, 1, len) /\ dest' \in Seq(Byte)
  <2>1. /\ SubSeq(Contents, 1, len) \in Seq(Byte)
        /\ Len(SubSeq(Contents, 1, len)) = len
        /\ \A k \in 1..len : SubSeq(Contents, 1, len)[k] = Contents[k]
    BY <1>0, <1>c
  <2>2. dest' \in [1..len -> Byte]
    <3>1. \A k \in 1..len : Contents[k] \in Byte
      BY <1>0, <1>c
    <3> QED
      BY <3>1, <1>2, <1>3
  <2>3. dest' \in Seq(Byte) /\ Len(dest') = len
    BY <2>2, <1>0
  <2> QED
    BY <2>1, <2>3, <1>3, SeqEqual
<1>6. Removes(len)
  BY <1>4, <1>5 DEF pop, Removes
<1> QED
  BY <1>0, <1>c, <1>5, <1>6, Shrink

(* pop of a single item does the same for one item. *)
LEMMA PopOneTakes ==
  ASSUME RingTypeOK, pop_one
  PROVE  pop(1)
<1>1. /\ size \in 0..Capacity /\ size # 0 /\ ~empty /\ tail \in 0..(Capacity - 1)
      /\ buffer \in [0..(Capacity - 1) -> Byte]
  BY SizeRange DEF RingTypeOK, Index, pop_one
<1>2. Least(1, Capacity - tail) = 1 /\ 1 <= size
  BY <1>1, CapacityAssumption DEF Least
<1>3. CopyOut(tail, 1) = <<buffer[tail]>>
  <2>1. CopyOut(tail, 1) = [k \in 1..1 |-> buffer[tail]]
    BY <1>1, <1>2 DEF CopyOut
  <2> QED
    BY <2>1
<1> QED
  BY <1>1, <1>2, <1>3 DEF pop, pop_one

(* move_tail forgets the oldest items. *)
LEMMA MoveTailDrops ==
  ASSUME RingTypeOK, NEW len \in 1..Capacity, move_tail(len)
  PROVE  /\ RingTypeOK'
         /\ Contents' = SubSeq(Contents, len + 1, Len(Contents))
         /\ dest' = dest
         /\ len <= Len(Contents)
<1>1. len \in 1..size
  BY SizeRange, CapacityAssumption DEF move_tail
<1>2. Removes(len)
  BY DEF move_tail, Removes, RingTypeOK
<1>3. len <= Len(Contents)
  BY <1>1, ContentsType DEF ContentsFacts
<1> QED
  BY <1>1, <1>2, <1>3, Shrink DEF move_tail

(* clear forgets everything. *)
LEMMA ClearDrops ==
  ASSUME RingTypeOK, clear
  PROVE  /\ RingTypeOK'
         /\ Contents' = <<>>
         /\ dest' = dest
<1>1. RingTypeOK'
  <2>1. 0 \in Index
    BY CapacityAssumption DEF Index
  <2> QED
    BY <2>1 DEF RingTypeOK, clear
<1>2. size' = 0
  BY DEF clear, size
<1>3. ContentsFacts'
  BY <1>1, ContentsType, PTL
<1> QED
  BY <1>1, <1>2, <1>3 DEF ContentsFacts, clear

-----------------------------------------------------------------------------

(* Every run of items the ring is given is a sequence of bytes. *)
LEMMA RunsAreSequences ==
  ASSUME MinLen = 1, NEW src \in Runs
  PROVE  src \in Seq(Byte) /\ Len(src) >= 1
<1>1. PICK n \in 1..Capacity : src \in [1..n -> Byte]
  BY CapacityAssumption DEF Runs
<1> QED
  BY <1>1, CapacityAssumption

(* A run that fits is a run of the abstract queue. *)
LEMMA FitsIsRun ==
  ASSUME RingTypeOK, NEW src \in Seq(Byte), Len(src) <= available
  PROVE  src \in Queue!Run /\ Len(Contents) + Len(src) <= Capacity
<1>1. /\ size \in 0..Capacity /\ Len(Contents) = size
      /\ Len(src) \in Nat /\ src \in [1..Len(src) -> Byte]
  BY SizeRange, ContentsType, LenProperties DEF ContentsFacts
<1>2. Len(src) \in 0..Capacity /\ Len(Contents) + Len(src) <= Capacity
  BY <1>1, CapacityAssumption DEF available
<1> QED
  BY <1>1, <1>2 DEF Queue!Run

(* One step of the ring is one step of the queue and keeps the types. *)
LEMMA RingStep ==
  ASSUME MinLen = 1, RingTypeOK, RingNext
  PROVE  RingTypeOK' /\ Queue!Next
<1>c. Contents \in Seq(Byte) /\ Len(Contents) \in 0..Capacity
  BY ContentsType, SizeRange DEF ContentsFacts
<1>1. ASSUME NEW src \in Seq(Byte), Len(src) <= available, RingTypeOK',
             Contents' = Contents \o src, given' = src, dest' = dest
      PROVE  RingTypeOK' /\ Queue!Next
  <2>1. src \in Queue!Run /\ Queue!Put(src)
    BY <1>1, FitsIsRun DEF Queue!Put
  <2> QED
    BY <2>1, <1>1 DEF Queue!Next
<1>2. ASSUME NEW b \in Byte, push_one(b)
      PROVE  RingTypeOK' /\ Queue!Next
  <2> DEFINE src == <<b>>
  <2>1. src \in Seq(Byte) /\ Len(src) = 1
    OBVIOUS
  <2>2. RingTypeOK' /\ Contents' = Contents \o src /\ dest' = dest /\ 1 <= available
    BY <1>2, PushOneAppends
  <2>3. given' = src
    BY <1>2 DEF push_one
  <2> HIDE DEF src
  <2> QED
    BY <2>1, <2>2, <2>3, <1>1
<1>3. ASSUME NEW src \in Runs, push(src) \/ move_head(src)
      PROVE  RingTypeOK' /\ Queue!Next
  <2>1. src \in Seq(Byte) /\ Len(src) >= 1
    BY RunsAreSequences
  <2>2. /\ RingTypeOK' /\ Contents' = Contents \o src /\ dest' = dest
        /\ Len(src) <= available
    BY <2>1, <1>3, PushAppends, MoveHeadAppends
  <2>3. given' = src
    BY <1>3 DEF push, move_head
  <2> QED
    BY <2>1, <2>2, <2>3, <1>1
<1>4. ASSUME NEW len \in 0..Capacity, pop(len)
      PROVE  RingTypeOK' /\ Queue!Next
  <2>1. RingTypeOK' /\ Queue!Take(len)
    BY <1>4, PopTakes DEF Queue!Take, pop
  <2> QED
    BY <2>1 DEF Queue!Next
<1>5. ASSUME NEW len \in 1..Capacity, move_tail(len)
      PROVE  RingTypeOK' /\ Queue!Next
  <2>1. RingTypeOK' /\ Queue!Drop(len)
    BY <1>5, MoveTailDrops DEF Queue!Drop, move_tail
  <2>2. len \in 0..Capacity
    BY CapacityAssumption
  <2> QED
    BY <2>1, <2>2 DEF Queue!Next
<1>6. CASE pop_one
  <2>1. pop(1) /\ 1 \in 0..Capacity
    BY <1>6, PopOneTakes, CapacityAssumption
  <2> QED
    BY <2>1, <1>4
<1>7. CASE clear
  <2> DEFINE n == Len(Contents)
  <2>1. SubSeq(Contents, n + 1, n) = <<>>
    BY <1>c, SubSeqEmpty
  <2>2. given' = given
    BY <1>7 DEF clear
  <2>3. RingTypeOK' /\ Queue!Drop(n)
    BY <1>7, <1>c, <2>1, <2>2, ClearDrops DEF Queue!Drop
  <2> QED
    BY <1>c, <2>3 DEF Queue!Next
<1>8. MinLen..Capacity = 1..Capacity /\ 1..Capacity \subseteq 0..Capacity
  BY CapacityAssumption
<1> QED
  BY <1>2, <1>3, <1>4, <1>5, <1>6, <1>7, <1>8 DEF RingNext

(* The initial ring is the empty queue. *)
LEMMA RingInitFacts ==
  ASSUME RingInit
  PROVE  RingTypeOK /\ Queue!Init
<1>1. RingTypeOK
  <2>1. 0 \in Index
    BY CapacityAssumption DEF Index
  <2>2. <<>> \in Seq(Byte)
    OBVIOUS
  <2> QED
    BY <2>1, <2>2 DEF RingInit, RingTypeOK
<1>2. size = 0
  BY DEF RingInit, size
<1>3. Contents = <<>>
  BY <1>1, <1>2, ContentsType DEF ContentsFacts
<1> QED
  BY <1>1, <1>3 DEF Queue!Init, RingInit

(* Type correctness of the ring: indices stay inside the memory and full_ is
   only ever set while head_ and tail_ coincide. *)
THEOREM RingTypeCorrect == MinLen = 1 => (RingSpec => []RingTypeOK)
<1> SUFFICES ASSUME MinLen = 1 PROVE RingSpec => []RingTypeOK
  OBVIOUS
<1>1. RingInit => RingTypeOK
  BY RingInitFacts
<1>2. RingTypeOK /\ [RingNext]_ringVars => RingTypeOK'
  <2>1. RingTypeOK /\ RingNext => RingTypeOK'
    BY RingStep
  <2>2. RingTypeOK /\ UNCHANGED ringVars => RingTypeOK'
    BY DEF RingTypeOK, ringVars
  <2> QED
    BY <2>1, <2>2
<1> QED
  BY <1>1, <1>2, PTL DEF RingSpec

(* Whatever is pushed, popped, read or written in place, the ring behaves as
   a bounded FIFO queue, as long as no caller stores zero items. *)
THEOREM RingImplementsFifo == MinLen = 1 => (RingSpec => ImplementsFifo)
<1> SUFFICES ASSUME MinLen = 1 PROVE RingSpec => ImplementsFifo
  OBVIOUS
<1>1. RingInit => Queue!Init
  BY RingInitFacts
<1>2. RingTypeOK /\ [RingNext]_ringVars => [Queue!Next]_<<Contents, given, dest>>
  <2>1. RingTypeOK /\ RingNext => Queue!Next
    BY RingStep
  <2>2. UNCHANGED ringVars => UNCHANGED <<Contents, given, dest>>
    BY DEF ringVars, Contents, size, at
  <2> QED
    BY <2>1, <2>2
<1> QED
  BY <1>1, <1>2, RingTypeCorrect, PTL DEF RingSpec, ImplementsFifo, Queue!Spec

(* The two spans of a well-formed ring. *)
LEMMA SpansOfRing == ASSUME RingTypeOK PROVE SpansAreSafe
<1>1. /\ size \in 0..Capacity /\ Capacity \in Nat \ {0}
      /\ head \in 0..(Capacity - 1) /\ tail \in 0..(Capacity - 1)
  BY SizeRange, CapacityAssumption DEF RingTypeOK, Index
<1>2. used_span > 0 <=> size > 0
  BY <1>1, SizeRange DEF used_span, empty, size, RingTypeOK
<1>3. available_span > 0 <=> available > 0
  BY <1>1, SizeRange DEF available_span, available, size, RingTypeOK
<1>4. /\ used_span \in 0..size /\ tail + used_span <= Capacity
      /\ available_span \in 0..available /\ head + available_span <= Capacity
  BY <1>1, SizeRange, AvailableSpan DEF used_span, empty, size, RingTypeOK
<1>5. ASSUME NEW i \in 0..(used_span - 1) PROVE buffer[tail + i] = Contents[i + 1]
  <2>1. i + 1 \in 1..size /\ tail + i \in 0..(Capacity - 1)
    BY <1>1, <1>4
  <2>2. Wrap(tail + i) = tail + i
    BY <1>1, <2>1, WrapOnce
  <2>3. Contents[i + 1] = at((i + 1) - 1)
    BY <2>1 DEF Contents
  <2> QED
    BY <2>2, <2>3 DEF at
<1>6. ASSUME NEW i \in head..(head + available_span - 1), NEW k \in 0..(size - 1)
      PROVE  Wrap(tail + k) # i
  <2>1. i - head \in 0..(available - 1) /\ i \in 0..(Capacity - 1)
    BY <1>1, <1>4 DEF available
  <2>2. Wrap(head + (i - head)) = i
    BY <1>1, <2>1, WrapOnce
  <2> QED
    BY <2>1, <2>2, SlotsApart
<1> QED
  BY <1>2, <1>3, <1>4, <1>5, <1>6 DEF SpansAreSafe

(* For every capacity, the span a user reads from starts with the oldest item, and
   the span a socket read fills covers no stored item and is empty only when the
   ring is full. *)
THEOREM RingSpansAreSafe == MinLen = 1 => (RingSpec => []SpansAreSafe)
<1> SUFFICES ASSUME MinLen = 1 PROVE RingSpec => []SpansAreSafe
  OBVIOUS
<1>1. RingSpec => []RingTypeOK
  BY RingTypeCorrect
<1>2. RingTypeOK => SpansAreSafe
  BY SpansOfRing
<1> QED
  BY <1>1, <1>2, PTL

-----------------------------------------------------------------------------
(* Parts of the stream *)

(* s is the part of the stream that follows its first i bytes. *)
Follows(s, i) == s \in Seq(Byte) /\ \A k \in 1..Len(s) : s[k] = i + k

LEMMA Constants ==
  /\ StreamLen \in Nat /\ Byte = 0..StreamLen
  /\ DelimLen \in Nat /\ DelimLen >= 1
  /\ \A d \in DelimAt : d \in Nat /\ d >= 1
  /\ \A n \in ReadSizes : n \in Nat /\ n >= 1
  /\ Capacity \in Nat /\ Capacity >= 1
  BY StreamAssumption, CapacityAssumption

LEMMA FollowsCat ==
  ASSUME NEW i \in Nat, NEW s, NEW t, Follows(s, i), Follows(t, i + Len(s))
  PROVE  Follows(s \o t, i) /\ Len(s \o t) = Len(s) + Len(t)
<1>1. s \in Seq(Byte) /\ t \in Seq(Byte) /\ Len(s) \in Nat /\ Len(t) \in Nat
  BY DEF Follows
<1>2. s \o t \in Seq(Byte) /\ Len(s \o t) = Len(s) + Len(t)
  BY <1>1
<1>3. ASSUME NEW k \in 1..(Len(s) + Len(t)) PROVE (s \o t)[k] = i + k
  <2>1. CASE k <= Len(s)
    BY <1>1, <2>1 DEF Follows
  <2>2. CASE k > Len(s)
    <3>1. k - Len(s) \in 1..Len(t) /\ (s \o t)[k] = t[k - Len(s)]
      BY <1>1, <2>2
    <3>2. t[k - Len(s)] = i + Len(s) + (k - Len(s))
      BY <3>1 DEF Follows
    <3> QED
      BY <1>1, <3>1, <3>2
  <2> QED
    BY <1>1, <2>1, <2>2
<1> QED
  BY <1>2, <1>3 DEF Follows

LEMMA FollowsSub ==
  ASSUME NEW i \in Nat, NEW s, Follows(s, i), NEW a \in Nat, NEW b \in Nat,
         a >= 1, a <= b + 1, b <= Len(s)
  PROVE  Follows(SubSeq(s, a, b), i + a - 1) /\ Len(SubSeq(s, a, b)) = b - a + 1
<1>1. s \in Seq(Byte) /\ Len(s) \in Nat
  BY DEF Follows
<1>2. /\ SubSeq(s, a, b) \in Seq(Byte) /\ Len(SubSeq(s, a, b)) = b - a + 1
      /\ \A k \in 1..(b - a + 1) : SubSeq(s, a, b)[k] = s[a + k - 1]
  BY <1>1
<1>3. ASSUME NEW k \in 1..(b - a + 1) PROVE SubSeq(s, a, b)[k] = i + a - 1 + k
  <2>1. a + k - 1 \in 1..Len(s)
    BY <1>1
  <2> QED
    BY <1>2, <2>1 DEF Follows
<1> QED
  BY <1>2, <1>3 DEF Follows

LEMMA FollowsEmpty == \A i : Follows(<<>>, i)
  BY DEF Follows

LEMMA StreamFollows ==
  ASSUME NEW i \in Nat, NEW n \in Nat, i + n <= StreamLen
  PROVE  Follows(Stream(i, n), i) /\ Len(Stream(i, n)) = n
<1>1. Stream(i, n) \in [1..n -> Byte]
  BY Constants DEF Stream
<1>2. Stream(i, n) \in Seq(Byte) /\ Len(Stream(i, n)) = n
  BY <1>1
<1> QED
  BY <1>2 DEF Follows, Stream

-----------------------------------------------------------------------------
(* The invariant *)

Typed ==
  /\ RingTypeOK
  /\ delim \in DelimAt
  /\ received \in 0..StreamLen
  /\ remaining \in Nat
  /\ search_offset \in Nat

(* StreamInOrder, byte by byte *)
InOrder ==
  /\ Follows(taken, 0)
  /\ Follows(got, Len(taken))
  /\ Follows(Contents, Len(taken) + Len(got))
  /\ received = Len(taken) + Len(got) + size

Short == delim + DelimLen - 1 <= Capacity

(* During read_until nothing has been returned, and everything received is in
   the buffer of the caller whenever that is searched.  No delimiter ends in
   what was searched before.  A short response goes round the ring at most
   once: the ring is never read into beyond its end. *)
Response ==
  stage = "response" =>
    /\ pc \in {"idle", "failed", "aborted", "until_fill", "until_append", "until_search"}
    /\ taken = <<>>
    /\ pc = "idle" => got = <<>>
    /\ pc \in {"idle", "until_fill", "until_search"} => size = 0
    /\ pc \in {"until_fill", "until_append", "until_search"} =>
         search_offset <= Len(got) /\ search_offset < delim + DelimLen - 1
    /\ pc = "until_fill" => search_offset = Len(got)
    /\ Short => /\ pc # "aborted"
                /\ pc # "failed" => received <= Capacity /\ head = Wrap(received)

(* Once it was found the whole delimiter is in the ring. *)
Delimiter ==
  stage = "delimiter" =>
    /\ pc \in {"idle", "failed", "exact_fill", "exact_pop"}
    /\ Len(taken) = delim - 1 /\ got = <<>>
    /\ DelimLen <= size
    /\ pc \in {"exact_fill", "exact_pop"} => remaining = DelimLen

(* Each read_exact has made room in the ring. *)
Frames ==
  stage = "frames" =>
    /\ pc \in {"idle", "failed", "exact_fill", "exact_pop", "wait"}
    /\ Len(taken) >= delim + DelimLen - 1
    /\ pc \in {"idle", "wait"} => got = <<>>
    /\ pc = "wait" => size = 0
    /\ pc \in {"idle", "exact_fill", "wait"} => size < Capacity

Stages == stage \in {"response", "delimiter", "frames"} /\ Response /\ Delimiter /\ Frames

Inv == Typed /\ InOrder /\ Stages

LEMMA Lengths ==
  ASSUME Inv
  PROVE  /\ Len(taken) \in Nat /\ Len(got) \in Nat /\ Len(Contents) = size
         /\ size \in 0..Capacity /\ Capacity \in Nat /\ size \in Nat
         /\ delim \in Nat /\ delim >= 1
         /\ taken \in Seq(Byte) /\ got \in Seq(Byte) /\ Contents \in Seq(Byte)
<1>1. Len(Contents) = size /\ size \in 0..Capacity /\ Capacity \in Nat /\ size \in Nat
  BY ContentsType, SizeRange, Constants DEF Inv, Typed, ContentsFacts
<1> QED
  BY <1>1, Constants DEF Inv, Typed, InOrder, Follows

(* What the invariant says of the ring depends on the ring's variables only. *)
LEMMA RingSame ==
  ASSUME UNCHANGED ringVars
  PROVE  /\ size' = size /\ Contents' = Contents /\ available_span' = available_span
         /\ head' = head /\ (RingTypeOK => RingTypeOK')
<1>1. UNCHANGED <<buffer, head, tail, full, given, dest>>
  BY DEF ringVars
<1>2. size' = size /\ available_span' = available_span /\ head' = head
  BY <1>1 DEF size, available_span
<1>3. Contents' = Contents
  BY <1>1, <1>2 DEF Contents, at
<1>4. RingTypeOK => RingTypeOK'
  BY <1>1 DEF RingTypeOK
<1> QED
  BY <1>2, <1>3, <1>4

LEMMA Initially == Init => Inv
<1> SUFFICES ASSUME Init PROVE Inv
  OBVIOUS
<1>1. RingTypeOK
  <2>1. 0 \in Index /\ 0 \in Byte /\ <<>> \in Seq(Byte)
    BY Constants DEF Index
  <2>2. full \in BOOLEAN /\ ~full
    BY DEF Init
  <2>3. buffer \in [Index -> Byte]
    BY <2>1 DEF Init
  <2> QED
    BY <2>1, <2>2, <2>3 DEF Init, RingTypeOK
<1>2. size = 0
  BY DEF Init, size
<1>3. Contents = <<>>
  BY <1>1, <1>2, ContentsType DEF ContentsFacts
<1>4. Typed
  BY <1>1, Constants DEF Init, Typed
<1>5. InOrder
  BY <1>2, <1>3, FollowsEmpty DEF Init, InOrder
<1>6. head = Wrap(received) /\ received <= Capacity
  BY Constants, WrapOnce DEF Init
<1>7. Stages
  BY <1>2, <1>6 DEF Init, Stages, Response, Delimiter, Frames
<1> QED
  BY <1>4, <1>5, <1>7 DEF Inv

-----------------------------------------------------------------------------
(* The operations *)

(* Steps that move no byte *)
NoBytes == UNCHANGED <<ringVars, delim, received, taken, got>>

LEMMA NoBytesInOrder ==
  ASSUME Inv, NoBytes, remaining' \in Nat, search_offset' \in Nat
  PROVE  Typed' /\ InOrder'
<1>1. /\ size' = size /\ Contents' = Contents /\ RingTypeOK'
      /\ delim' = delim /\ received' = received /\ taken' = taken /\ got' = got
  BY RingSame DEF NoBytes, Inv, Typed
<1> QED
  BY <1>1 DEF Inv, Typed, InOrder, Follows

(* fill_read_buffer goes on with what there is, or with n bytes more at the end of
   what was received, for which there was room without a wrap; or it fails. *)
LEMMA Fills ==
  ASSUME Inv, NEW desired, NEW then, fill_read_buffer(desired, then)
  PROVE  /\ Typed' /\ InOrder'
         /\ UNCHANGED <<stage, delim, taken, got, remaining, search_offset>>
         /\ \/ pc' = then /\ UNCHANGED <<ringVars, received>> /\ size >= desired
            \/ /\ pc' = then
               /\ \E n \in 1..available_span :
                    /\ received' = received + n /\ size' = size + n
                    /\ head' = Wrap(head + n)
            \/ pc' = "failed" /\ UNCHANGED <<ringVars, received>>
<1>1. UNCHANGED <<stage, delim, taken, got, remaining, search_offset>>
  BY DEF fill_read_buffer, Fail
<1>2. CASE UNCHANGED <<ringVars, received>>
  <2>1. Typed' /\ InOrder'
    BY <1>1, <1>2, NoBytesInOrder DEF NoBytes, Inv, Typed
  <2>2. \/ pc' = then /\ size >= desired
        \/ pc' = "failed"
    <3>1. ASSUME NEW n \in 1..Capacity, received' = received + n PROVE FALSE
      BY <1>2, <3>1, Constants DEF Inv, Typed
    <3> QED
      BY <3>1 DEF fill_read_buffer, Fail
  <2> QED
    BY <1>1, <1>2, <2>1, <2>2
<1>3. CASE ~UNCHANGED <<ringVars, received>>
  <2>1. PICK n \in 1..Capacity :
          /\ received + n <= StreamLen
          /\ move_head(Stream(received, n))
          /\ received' = received + n
          /\ pc' = then
    BY <1>3 DEF fill_read_buffer, Fail
  <2> DEFINE new == Stream(received, n)
  <2>2. Follows(new, received) /\ Len(new) = n /\ new \in Seq(Byte)
    BY <2>1, Constants, StreamFollows DEF Inv, Typed, Follows
  <2> HIDE DEF new
  <2>3. RingTypeOK' /\ Contents' = Contents \o new
    BY <2>1, <2>2, MoveHeadAppends DEF Inv, Typed, new
  <2>4. n <= available_span /\ head' = Wrap(head + n)
    BY <2>1, <2>2 DEF move_head, new
  <2>5. available_span \in 0..available
    BY AvailableSpan DEF Inv, Typed
  <2>6. Follows(Contents \o new, Len(taken) + Len(got)) /\ Len(Contents \o new) = size + n
    <3>1. Len(taken) + Len(got) \in Nat /\ Len(taken) + Len(got) + Len(Contents) = received
      <4>1. /\ Len(taken) \in Nat /\ Len(got) \in Nat /\ size \in Nat
            /\ Len(Contents) = size
        BY Lengths
      <4>2. received = Len(taken) + Len(got) + size
        BY DEF Inv, InOrder
      <4> QED
        BY ONLY <4>1, <4>2
    <3>2. Follows(Contents, Len(taken) + Len(got)) /\ Len(Contents) = size
      BY Lengths DEF Inv, InOrder
    <3>3. Follows(new, Len(taken) + Len(got) + Len(Contents))
      BY <2>2, <3>1
    <3> QED
      BY <2>2, <3>1, <3>2, <3>3, FollowsCat
  <2>7. size' = size + n
    <3>1. ContentsFacts'
      BY <2>3, ContentsType, PTL
    <3>2. Len(Contents') = size'
      BY <3>1 DEF ContentsFacts
    <3> QED
      BY <2>3, <2>6, <3>2
  <2>8. Typed'
    BY <1>1, <2>1, <2>3, Constants DEF Inv, Typed
  <2>9. InOrder'
    <3>1. received' = Len(taken') + Len(got') + size'
      BY <1>1, <2>1, <2>7, Lengths DEF Inv, InOrder
    <3>2. Follows(Contents', Len(taken') + Len(got'))
      BY <1>1, <2>3, <2>6
    <3> QED
      BY <1>1, <3>1, <3>2 DEF Inv, InOrder, Follows
  <2>10. n \in 1..available_span
    BY <2>1, <2>4, <2>5, Lengths DEF available
  <2> QED
    BY <1>1, <2>1, <2>4, <2>7, <2>8, <2>9, <2>10
<1> QED
  BY <1>2, <1>3

(* pop hands out the next n bytes of the stream. *)
LEMMA Takes ==
  ASSUME Inv, NEW n \in 0..size, pop(n)
  PROVE  /\ RingTypeOK' /\ head' = head
         /\ n >= 1 /\ size' = size - n
         /\ Follows(dest', Len(taken) + Len(got)) /\ Len(dest') = n
         /\ Follows(Contents', Len(taken) + Len(got) + n)
<1>0. n # 0 /\ head' = head
  BY DEF pop
<1>1. n \in 0..Capacity /\ n >= 1 /\ head' = head
  BY <1>0, Lengths
<1>2. /\ RingTypeOK'
      /\ dest' = SubSeq(Contents, 1, n)
      /\ Contents' = SubSeq(Contents, n + 1, Len(Contents))
  BY <1>1, PopTakes DEF Inv, Typed
<1>3. ContentsFacts'
  BY <1>2, ContentsType, PTL
<1>4. Len(taken) + Len(got) \in Nat /\ Follows(Contents, Len(taken) + Len(got)) /\ Len(Contents) = size
  BY Lengths DEF Inv, InOrder
<1> DEFINE i == Len(taken) + Len(got)
<1> HIDE DEF i
<1>5. Follows(SubSeq(Contents, 1, n), i + 1 - 1) /\ Len(SubSeq(Contents, 1, n)) = n - 1 + 1
  BY <1>1, <1>4, FollowsSub DEF i
<1>6. /\ Follows(SubSeq(Contents, n + 1, Len(Contents)), i + (n + 1) - 1)
      /\ Len(SubSeq(Contents, n + 1, Len(Contents))) = Len(Contents) - (n + 1) + 1
  <2>1. n + 1 \in Nat /\ Len(Contents) \in Nat /\ n + 1 >= 1 /\ n + 1 <= Len(Contents) + 1
    BY <1>1, <1>4, Lengths
  <2>2. i \in Nat /\ Follows(Contents, i)
    BY <1>4 DEF i
  <2> QED
    BY <2>1, <2>2, FollowsSub
<1>7. i \in Nat /\ i + 1 - 1 = i /\ i + (n + 1) - 1 = i + n /\ n - 1 + 1 = n
  BY <1>4 DEF i
<1>8. size' = size - n
  BY <1>2, <1>3, <1>4, <1>6, Lengths DEF ContentsFacts
<1> QED
  BY <1>1, <1>2, <1>5, <1>6, <1>7, <1>8 DEF i

LEMMA CallerStep == ASSUME Inv, Caller PROVE Inv'
<1>1. CASE read_until
  <2>1. /\ pc = "idle" /\ stage = "response" /\ search_offset' = 0 /\ got' = <<>> /\ pc' = "until_fill"
        /\ UNCHANGED <<ringVars, stage, delim, received, taken, remaining>>
    BY <1>1 DEF read_until
  <2>2. got = <<>> /\ size = 0
    BY <2>1 DEF Inv, Stages, Response
  <2>3. Typed' /\ InOrder'
    BY <2>1, <2>2, NoBytesInOrder DEF NoBytes, Inv, Typed
  <2>4. size' = size /\ head' = head
    BY <2>1, RingSame
  <2>5. Stages'
    BY <2>1, <2>2, <2>4, Lengths, Constants DEF Inv, Stages, Response, Delimiter, Frames, Short
  <2> QED
    BY <2>3, <2>5 DEF Inv
<1>2. CASE read_exact
  <2>1. /\ pc = "idle" /\ got' = <<>> /\ pc' = "exact_fill"
        /\ UNCHANGED <<ringVars, stage, delim, received, taken, search_offset>>
    BY <1>2 DEF read_exact
  <2>2. \/ stage = "delimiter" /\ remaining' = DelimLen
        \/ stage = "frames" /\ remaining' \in Nat
    BY <1>2, Constants DEF read_exact
  <2>3. got = <<>>
    BY <2>1, <2>2 DEF Inv, Stages, Delimiter, Frames
  <2>4. Typed' /\ InOrder'
    BY <2>1, <2>2, <2>3, Constants, NoBytesInOrder DEF NoBytes, Inv, Typed
  <2>5. size' = size
    BY <2>1, RingSame
  <2>6. Stages'
    BY <2>1, <2>2, <2>3, <2>5 DEF Inv, Stages, Response, Delimiter, Frames
  <2> QED
    BY <2>4, <2>6 DEF Inv
<1>3. CASE wait_readable
  <2>1. /\ pc = "idle" /\ stage = "frames" /\ pc' = (IF empty THEN "wait" ELSE "idle")
        /\ UNCHANGED <<ringVars, stage, delim, received, taken, got, remaining, search_offset>>
    BY <1>3 DEF wait_readable
  <2>2. Typed' /\ InOrder'
    BY <2>1, NoBytesInOrder DEF NoBytes, Inv, Typed
  <2>3. size' = size /\ (pc' = "wait" => size = 0) /\ pc' \in {"idle", "wait"}
    BY <2>1, RingSame, SizeRange DEF Inv, Typed
  <2>4. Stages'
    BY <2>1, <2>3 DEF Inv, Stages, Response, Delimiter, Frames
  <2> QED
    BY <2>2, <2>4 DEF Inv
<1> QED
  BY <1>1, <1>2, <1>3 DEF Caller

LEMMA ExactStep == ASSUME Inv, read_exact_fill \/ read_exact_pop PROVE Inv'
<1>1. CASE read_exact_fill
  <2>1. pc = "exact_fill" /\ fill_read_buffer(remaining, "exact_pop")
    BY <1>1 DEF read_exact_fill
  <2>2. /\ Typed' /\ InOrder'
        /\ UNCHANGED <<stage, delim, taken, got, remaining, search_offset>>
        /\ \/ pc' = "exact_pop" /\ size' = size
           \/ pc' = "exact_pop" /\ \E n \in 1..available_span : size' = size + n
           \/ pc' = "failed" /\ size' = size
    BY <2>1, Fills, RingSame
  <2>3. available_span \in Nat
    BY AvailableSpan, Lengths DEF Inv, Typed, available
  <2>4. size' >= size /\ pc' \in {"exact_pop", "failed"} /\ size' \in Nat
    BY <2>2, <2>3, Lengths
  <2>5. stage \in {"delimiter", "frames"}
    BY <2>1 DEF Inv, Stages, Response
  <2>6. Stages'
    BY <2>1, <2>2, <2>4, <2>5, Lengths, Constants DEF Inv, Stages, Response, Delimiter, Frames
  <2> QED
    BY <2>2, <2>6 DEF Inv
<1>2. CASE read_exact_pop
  <2> DEFINE n == Least(size, remaining)
  <2>1. /\ pc = "exact_pop" /\ pop(n) /\ remaining' = remaining - n
        /\ UNCHANGED <<delim, received, search_offset>>
    BY <1>2 DEF read_exact_pop
  <2>2. \/ n < remaining /\ pc' = "exact_fill" /\ got' = got \o dest' /\ UNCHANGED <<taken, stage>>
        \/ n = remaining /\ pc' = "idle" /\ got' = <<>> /\ taken' = taken \o got \o dest' /\ stage' = "frames"
    BY <1>2 DEF read_exact_pop
  <2>3. n \in 0..size /\ remaining \in Nat /\ n <= remaining /\ (n < remaining => n = size)
    BY Lengths DEF Least, Inv, Typed
  <2> HIDE DEF n
  <2>4. /\ RingTypeOK' /\ n >= 1 /\ size' = size - n
        /\ Follows(dest', Len(taken) + Len(got)) /\ Len(dest') = n
        /\ Follows(Contents', Len(taken) + Len(got) + n)
    BY <2>1, <2>3, Takes
  <2>5. Typed'
    BY <2>1, <2>3, <2>4, Lengths DEF Inv, Typed
  <2>6. Follows(got \o dest', Len(taken)) /\ Len(got \o dest') = Len(got) + n
    <3>1. Len(taken) \in Nat /\ Follows(got, Len(taken))
      BY Lengths DEF Inv, InOrder
    <3> QED
      BY <2>4, <3>1, FollowsCat
  <2>7. CASE n < remaining
    <3>1. got' = got \o dest' /\ UNCHANGED <<taken, stage>> /\ pc' = "exact_fill"
      BY <2>2, <2>3, <2>7
    <3>2. Len(taken') + Len(got') = Len(taken) + Len(got) + n
      <4>1. Len(taken') = Len(taken) /\ Len(got') = Len(got) + n
        BY <2>6, <3>1
      <4> QED
        BY <2>3, <4>1, Lengths
    <3>3. InOrder'
      BY <2>1, <2>3, <2>4, <2>6, <3>1, <3>2, Lengths, SMTT(40) DEF Inv, InOrder
    <3>4. stage = "frames"
      BY <2>1, <2>3, <2>7, Lengths DEF Inv, Stages, Response, Delimiter
    <3>5. size' < Capacity
      BY <2>3, <2>4, Lengths
    <3>6. Stages'
      BY <2>1, <3>1, <3>4, <3>5 DEF Inv, Stages, Response, Delimiter, Frames
    <3> QED
      BY <2>5, <3>3, <3>6 DEF Inv
  <2>8. CASE n = remaining
    <3>1. got' = <<>> /\ taken' = taken \o got \o dest' /\ stage' = "frames" /\ pc' = "idle"
      BY <2>2, <2>3, <2>8
    <3>2. Follows(taken \o got, 0) /\ Len(taken \o got) = Len(taken) + Len(got)
      <4>1. Follows(taken, 0) /\ Follows(got, 0 + Len(taken))
        BY Lengths DEF Inv, InOrder
      <4> QED
        BY <4>1, FollowsCat
    <3>3. /\ Follows(taken \o got \o dest', 0)
          /\ Len(taken \o got \o dest') = Len(taken) + Len(got) + n
      <4>1. Follows(dest', 0 + Len(taken \o got))
        BY <2>4, <3>2, Lengths
      <4>2. 0 \in Nat /\ Follows(taken \o got, 0)
        BY <3>2
      <4>3. /\ Follows((taken \o got) \o dest', 0)
            /\ Len((taken \o got) \o dest') = Len(taken \o got) + Len(dest')
        BY <4>1, <4>2, FollowsCat
      <4> QED
        BY <2>4, <3>2, <4>3
    <3>4. Len(got') = 0 /\ Len(taken') = Len(taken) + Len(got) + n
      BY <3>1, <3>3
    <3>5. Len(taken') + Len(got') = Len(taken) + Len(got) + n
      BY <2>3, <3>4, Lengths
    <3>6. InOrder'
      <4>1. received' = Len(taken') + Len(got') + size'
        BY <2>1, <2>3, <2>4, <3>5, Lengths, SMTT(40) DEF Inv, InOrder
      <4>2. Follows(Contents', Len(taken') + Len(got'))
        BY <2>4, <3>5
      <4> QED
        BY <3>1, <3>3, <4>1, <4>2, FollowsEmpty DEF InOrder
    <3>7. size' < Capacity
      BY <2>3, <2>4, Lengths
    <3>8. Len(taken') >= delim + DelimLen - 1
      BY <2>1, <2>3, <2>8, <3>4, Lengths, Constants DEF Inv, Stages, Response, Delimiter, Frames
    <3>9. Stages'
      BY <2>1, <3>1, <3>7, <3>8 DEF Stages, Response, Delimiter, Frames
    <3> QED
      BY <2>5, <3>6, <3>9 DEF Inv
  <2> QED
    BY <2>2, <2>7, <2>8
<1> QED
  BY <1>1, <1>2

LEMMA WaitStep == ASSUME Inv, wait_readable_return PROVE Inv'
<1>1. /\ pc = "wait" /\ pc' \in {"idle", "failed"}
      /\ UNCHANGED <<ringVars, stage, delim, received, taken, got, remaining, search_offset>>
  BY DEF wait_readable_return
<1>2. Typed' /\ InOrder'
  BY <1>1, NoBytesInOrder DEF NoBytes, Inv, Typed
<1>3. size' = size /\ stage = "frames"
  BY <1>1, RingSame DEF Inv, Stages, Response, Delimiter
<1>4. Stages'
  BY <1>1, <1>3 DEF Inv, Stages, Response, Delimiter, Frames
<1> QED
  BY <1>2, <1>4 DEF Inv

(* The first round of a short response starts where the memory of the ring does,
   so that what read_some is offered ends with the ring's capacity. *)
LEMMA UntilFillStep == ASSUME Inv, read_until_fill PROVE Inv'
<1>1. pc = "until_fill" /\ fill_read_buffer(Capacity, "until_append")
  BY DEF read_until_fill
<1>2. stage = "response" /\ size = 0 /\ taken = <<>>
  BY <1>1 DEF Inv, Stages, Response, Delimiter, Frames
<1>3. /\ Typed' /\ InOrder'
      /\ UNCHANGED <<stage, delim, taken, got, remaining, search_offset>>
      /\ \/ pc' = "until_append" /\ head' = head /\ received' = received
         \/ /\ pc' = "until_append"
            /\ \E n \in 1..available_span : received' = received + n /\ head' = Wrap(head + n)
         \/ pc' = "failed"
  BY <1>1, Fills DEF ringVars
<1>4. ASSUME Short, pc' = "until_append"
      PROVE  received' <= Capacity /\ head' = Wrap(received')
  <2>1. received <= Capacity /\ head = Wrap(received)
    BY <1>1, <1>2, <1>4 DEF Inv, Stages, Response
  <2>2. CASE head' = head /\ received' = received
    BY <2>1, <2>2
  <2>3. CASE \E n \in 1..available_span : received' = received + n /\ head' = Wrap(head + n)
    <3>1. PICK n \in 1..available_span : received' = received + n /\ head' = Wrap(head + n)
      BY <2>3
    <3>2. received = Len(got) /\ received \in Nat /\ received < Capacity
      BY <1>1, <1>2, <1>4, Lengths, Constants DEF Inv, Stages, Response, InOrder, Short
    <3>3. head = received
      BY <2>1, <3>2, WrapOnce, Constants
    <3>4. empty
      BY <1>2, SizeRange DEF Inv, Typed
    <3>5. available_span = Capacity - received
      BY <3>2, <3>3, <3>4, Constants DEF available_span, empty
    <3> QED
      BY <3>1, <3>2, <3>3, <3>5, Constants
  <2> QED
    BY <1>3, <1>4, <2>2, <2>3
<1>5. pc' \in {"until_append", "failed"}
  BY <1>3
<1>6. Short' <=> Short
  BY <1>3 DEF Short
<1>7. Response'
  BY <1>1, <1>2, <1>3, <1>4, <1>5, <1>6 DEF Inv, Stages, Response
<1>8. Stages'
  BY <1>2, <1>3, <1>7 DEF Stages, Delimiter, Frames
<1> QED
  BY <1>3, <1>8 DEF Inv

LEMMA UntilAppendStep == ASSUME Inv, read_until_append PROVE Inv'
<1>1. /\ pc = "until_append"
      /\ UNCHANGED <<stage, delim, received, taken, remaining, search_offset>>
  BY DEF read_until_append, Fail
<1>2. stage = "response" /\ taken = <<>> /\ Len(taken) = 0
  BY <1>1 DEF Inv, Stages, Response, Delimiter, Frames
<1>3. CASE pc' = "failed" /\ UNCHANGED <<ringVars, got>>
  <2>1. Typed' /\ InOrder'
    BY <1>1, <1>3, NoBytesInOrder DEF NoBytes, Inv, Typed
  <2>2. Stages'
    BY <1>1, <1>2, <1>3 DEF Inv, Stages, Response, Delimiter, Frames, Short
  <2> QED
    BY <2>1, <2>2 DEF Inv
<1>4. CASE pop(size) /\ got' = got \o dest' /\ pc' = "until_search"
  <2>1. size \in 0..size /\ size - size = 0
    BY Lengths
  <2>2. /\ RingTypeOK' /\ head' = head /\ size >= 1 /\ size' = 0
        /\ Follows(dest', Len(taken) + Len(got)) /\ Len(dest') = size
        /\ Follows(Contents', Len(taken) + Len(got) + size)
    BY <1>4, <2>1, Takes
  <2>3. Follows(got \o dest', Len(taken)) /\ Len(got \o dest') = Len(got) + size
    <3>1. Len(taken) \in Nat /\ Follows(got, Len(taken))
      BY Lengths DEF Inv, InOrder
    <3> QED
      BY <2>2, <3>1, FollowsCat
  <2>4. Typed'
    BY <1>1, <2>2 DEF Inv, Typed
  <2>5. InOrder'
    <3>1. Len(taken') = Len(taken) /\ Len(got') = Len(got) + size
      BY <1>1, <1>4, <2>3
    <3>2. Len(taken) \in Nat /\ Len(got) \in Nat /\ size \in Nat
      BY Lengths
    <3> DEFINE t == Len(taken)
               g == Len(got)
    <3>3. Len(taken') + Len(got') = t + g + size
      <4> HIDE DEF t, g
      <4>1. t \in Nat /\ g \in Nat /\ size \in Nat
        BY <3>2 DEF t, g
      <4>2. Len(taken') = t /\ Len(got') = g + size
        BY <3>1 DEF t, g
      <4> QED
        BY ONLY <4>1, <4>2
    <3>4. received' = Len(taken') + Len(got') + size'
      BY <1>1, <2>2, <3>3, Lengths DEF Inv, InOrder
    <3>5. Follows(Contents', Len(taken') + Len(got'))
      BY <2>2, <3>3
    <3>6. Follows(taken', 0) /\ Follows(got', Len(taken'))
      BY <1>1, <1>4, <2>3, <3>1 DEF Inv, InOrder
    <3> QED
      BY <3>4, <3>5, <3>6 DEF InOrder
  <2>6. search_offset <= Len(got') /\ search_offset < delim + DelimLen - 1
    <3>1. search_offset <= Len(got) /\ search_offset < delim + DelimLen - 1 /\ search_offset \in Nat
      BY <1>1, <1>2 DEF Inv, Stages, Response, Typed
    <3> QED
      BY <1>4, <2>3, <3>1, Lengths
  <2>7. Stages'
    BY <1>1, <1>2, <1>4, <2>2, <2>6 DEF Inv, Stages, Response, Delimiter, Frames, Short
  <2> QED
    BY <2>4, <2>5, <2>7 DEF Inv
<1> QED
  BY <1>3, <1>4 DEF read_until_append, Fail

(* std::search finds the delimiter where it is, as soon as it is complete. *)
LEMMA Found ==
  ASSUME Inv, pc = "until_search"
  PROVE  /\ \A i \in Matches : i = delim
         /\ delim \in Matches <=> Len(got) >= delim + DelimLen - 1
<1>1. stage = "response" /\ taken = <<>> /\ Len(taken) = 0
  BY DEF Inv, Stages, Response, Delimiter, Frames
<1>2. Follows(got, 0) /\ got \in Seq(Byte) /\ Len(got) \in Nat
  BY <1>1, Lengths DEF Inv, InOrder
<1>3. /\ search_offset \in Nat /\ search_offset < delim + DelimLen - 1
      /\ delim \in Nat /\ delim >= 1 /\ DelimLen \in Nat /\ DelimLen >= 1
  BY <1>1, Lengths, Constants DEF Inv, Stages, Response, Typed
<1>4. search_start \in Nat /\ search_start <= delim - 1
  BY <1>3 DEF search_start, Least
<1>5. ASSUME NEW i \in Matches PROVE i = delim
  <2>1. i \in Nat /\ i >= 1 /\ i + DelimLen - 1 <= Len(got)
    BY <1>2, <1>3, <1>4 DEF Matches
  <2>2. SubSeq(got, i, i + DelimLen - 1)[1] = i
    <3>1. i + DelimLen - 1 \in Nat /\ i <= i + DelimLen - 1 /\ 0 + i - 1 + 1 = i
      BY <1>3, <2>1
    <3> DEFINE e == i + DelimLen - 1
    <3>2. e \in Nat /\ i <= e + 1 /\ e <= Len(got) /\ e - i + 1 = DelimLen
      BY <1>3, <2>1
    <3> HIDE DEF e
    <3>3. Follows(SubSeq(got, i, e), 0 + i - 1) /\ Len(SubSeq(got, i, e)) = e - i + 1
      <4> HIDE DEF Matches
      <4>1. 0 \in Nat /\ Follows(got, 0) /\ i \in Nat /\ i >= 1
        BY <1>2, <2>1
      <4> QED
        BY <3>2, <4>1, FollowsSub
    <3>4. 1 \in 1..Len(SubSeq(got, i, e))
      BY <1>3, <3>2, <3>3
    <3>5. SubSeq(got, i, e)[1] = 0 + i - 1 + 1
      BY <3>3, <3>4 DEF Follows
    <3> QED
      BY <3>1, <3>5 DEF e
  <2>3. DelimBytes[1] = delim
    BY <1>3 DEF DelimBytes
  <2> QED
    BY <2>2, <2>3 DEF Matches
<1>6. ASSUME Len(got) >= delim + DelimLen - 1 PROVE delim \in Matches
  <2> DEFINE e == delim + DelimLen - 1
             s == SubSeq(got, delim, e)
  <2>1. e \in Nat /\ delim <= e + 1 /\ e <= Len(got) /\ e - delim + 1 = DelimLen
    BY <1>2, <1>3, <1>6
  <2> HIDE DEF e
  <2>2. Follows(s, 0 + delim - 1) /\ Len(s) = e - delim + 1
    BY <1>2, <1>3, <2>1, FollowsSub
  <2> HIDE DEF s
  <2>3. s = [k \in 1..DelimLen |-> s[k]]
    BY <2>1, <2>2 DEF Follows
  <2>4. \A k \in 1..DelimLen : s[k] = delim + k - 1
    BY <1>3, <2>1, <2>2 DEF Follows
  <2>5. s = DelimBytes
    BY <2>3, <2>4 DEF DelimBytes
  <2>6. delim \in (search_start + 1)..(Len(got) - DelimLen + 1)
    BY <1>2, <1>3, <1>4, <1>6
  <2> QED
    BY <2>5, <2>6 DEF Matches, s, e
<1>7. ASSUME delim \in Matches PROVE Len(got) >= delim + DelimLen - 1
  BY <1>2, <1>3, <1>4, <1>7 DEF Matches
<1> QED
  BY <1>5, <1>6, <1>7

(* What read_until pushes back follows what it returns. *)
LEMMA UntilSearchStep == ASSUME Inv, read_until_search PROVE Inv'
<1>1. pc = "until_search"
  BY DEF read_until_search
<1>2. /\ stage = "response" /\ taken = <<>> /\ Len(taken) = 0 /\ size = 0
      /\ Short => received <= Capacity /\ head = Wrap(received)
  BY <1>1 DEF Inv, Stages, Response, Delimiter, Frames
<1>3. Follows(got, 0) /\ received = Len(got)
  BY <1>2, Lengths DEF Inv, InOrder
<1>4. CASE Matches = {}
  <2>1. /\ search_offset' = Len(got) /\ pc' = "until_fill"
        /\ UNCHANGED <<ringVars, stage, delim, received, taken, got, remaining>>
    BY <1>4 DEF read_until_search
  <2>2. Len(got) < delim + DelimLen - 1
    BY <1>1, <1>4, Found, Lengths, Constants
  <2>3. Typed' /\ InOrder'
    BY <2>1, Lengths, NoBytesInOrder DEF NoBytes, Inv, Typed
  <2>4. size' = size /\ head' = head
    BY <2>1, RingSame
  <2>5. Stages'
    BY <1>2, <2>1, <2>2, <2>4, Lengths DEF Stages, Response, Delimiter, Frames, Short
  <2> QED
    BY <2>3, <2>5 DEF Inv
<1>5. CASE Matches # {}
  <2> DEFINE rest == SubSeq(got, delim, Len(got))
             before == SubSeq(got, 1, delim - 1)
  <2>1. delim \in Matches /\ Len(got) >= delim + DelimLen - 1
    BY <1>1, <1>5, Found
  <2>2. read_until_found(delim)
    BY <1>1, <1>5, Found DEF read_until_search
  <2>3. /\ Follows(rest, 0 + delim - 1) /\ Len(rest) = Len(got) - delim + 1
        /\ Follows(before, 0 + 1 - 1) /\ Len(before) = delim - 1 - 1 + 1
    <3>1. delim \in Nat /\ delim >= 1 /\ delim - 1 \in Nat /\ Len(got) \in Nat
          /\ delim <= Len(got) + 1 /\ delim - 1 <= Len(got) /\ 1 <= delim - 1 + 1
      BY <2>1, Lengths, Constants, SMTT(40)
    <3>2. Follows(rest, 0 + delim - 1) /\ Len(rest) = Len(got) - delim + 1
      BY <1>3, <3>1, FollowsSub
    <3>3. Follows(before, 0 + 1 - 1) /\ Len(before) = delim - 1 - 1 + 1
      BY <1>3, <3>1, FollowsSub
    <3> QED
      BY <3>2, <3>3
  <2>4. /\ Len(rest) \in Nat /\ Len(rest) >= DelimLen /\ Len(rest) >= 1
        /\ delim - 1 + Len(rest) = Len(got) /\ Len(rest) <= Len(got) /\ Len(before) = delim - 1
        /\ rest \in Seq(Byte) /\ before \in Seq(Byte)
    <3> HIDE DEF rest, before
    <3>1. rest \in Seq(Byte) /\ before \in Seq(Byte)
      BY <2>3 DEF Follows
    <3>2. delim \in Nat /\ Len(got) \in Nat /\ DelimLen \in Nat /\ DelimLen >= 1 /\ delim >= 1
      BY Lengths, Constants
    <3>3. Len(rest) = Len(got) - delim + 1 /\ Len(before) = delim - 1 - 1 + 1
      BY <2>3
    <3>4. Len(got) >= delim + DelimLen - 1
      BY <2>1
    <3>5. Len(before) = delim - 1
      BY <3>2, <3>3
    <3> QED
      BY <3>1, <3>2, <3>3, <3>4, <3>5
  <2>5. \/ /\ push(rest)
           /\ taken' = taken \o before
           /\ got' = <<>> /\ stage' = "delimiter" /\ pc' = "idle"
           /\ UNCHANGED <<delim, received, remaining, search_offset>>
        \/ /\ Len(rest) > available
           /\ pc' = "aborted"
           /\ UNCHANGED <<ringVars, stage, delim, received, taken, got, remaining, search_offset>>
    BY <2>2 DEF read_until_found
  <2> HIDE DEF rest, before
  <2>6. CASE pc' = "aborted"
    <3>1. /\ Len(rest) > available
          /\ UNCHANGED <<ringVars, stage, delim, received, taken, got, remaining, search_offset>>
      BY <2>5, <2>6
    <3>2. Typed' /\ InOrder'
      BY <3>1, NoBytesInOrder DEF NoBytes, Inv, Typed
    <3>3. ~Short
      BY <1>2, <1>3, <2>4, <3>1, Lengths DEF available
    <3>4. Stages'
      BY <1>2, <2>6, <3>1, <3>3 DEF Stages, Response, Delimiter, Frames, Short
    <3> QED
      BY <3>2, <3>4 DEF Inv
  <2>7. CASE pc' # "aborted"
    <3>1. /\ push(rest)
          /\ taken' = taken \o before
          /\ got' = <<>> /\ stage' = "delimiter" /\ pc' = "idle"
          /\ UNCHANGED <<delim, received, remaining, search_offset>>
      BY <2>5, <2>7
    <3>2. RingTypeOK' /\ Contents' = Contents \o rest
      BY <2>4, <3>1, PushAppends DEF Inv, Typed
    <3>3. Contents = <<>>
      BY <1>2, Lengths
    <3>4. Contents' = rest /\ taken' = before
      BY <1>2, <2>4, <3>1, <3>2, <3>3
    <3>5. ContentsFacts'
      BY <3>2, ContentsType, PTL
    <3>6. size' = Len(rest)
      BY <3>4, <3>5 DEF ContentsFacts
    <3>7. Typed'
      BY <3>1, <3>2 DEF Inv, Typed
    <3>8. Len(taken') = delim - 1 /\ Len(got') = 0 /\ Len(taken') + Len(got') = 0 + delim - 1
      BY <2>4, <3>1, <3>4, Lengths
    <3>9. InOrder'
      <4>1. received' = Len(taken') + Len(got') + size'
        BY <1>3, <2>4, <3>1, <3>6, <3>8, Lengths
      <4>2. Follows(Contents', Len(taken') + Len(got'))
        BY <2>3, <3>4, <3>8
      <4>3. Follows(taken', 0) /\ Follows(got', Len(taken'))
        BY <2>3, <3>1, <3>4, FollowsEmpty
      <4> QED
        BY <4>1, <4>2, <4>3 DEF InOrder
    <3>10. Stages'
      BY <2>4, <3>1, <3>6, <3>8 DEF Stages, Response, Delimiter, Frames
    <3> QED
      BY <3>7, <3>9, <3>10 DEF Inv
  <2> QED
    BY <2>6, <2>7
<1> QED
  BY <1>4, <1>5

LEMMA Invariance == Spec => []Inv
<1>1. ASSUME Inv, [Next]_vars PROVE Inv'
  <2>1. CASE Caller
    BY <1>1, <2>1, CallerStep
  <2>2. CASE Socket
    BY <1>1, <2>2, ExactStep, UntilFillStep, UntilAppendStep, UntilSearchStep, WaitStep DEF Socket
  <2>3. CASE UNCHANGED vars
    <3>1. UNCHANGED <<ringVars, callVars>>
      BY <2>3 DEF vars
    <3>2. UNCHANGED <<pc, stage, delim, received, taken, got, remaining, search_offset>>
      BY <3>1 DEF callVars
    <3>3. Typed' /\ InOrder'
      BY <1>1, <3>1, <3>2, NoBytesInOrder DEF NoBytes, Inv, Typed
    <3>4. size' = size /\ head' = head
      BY <3>1, RingSame
    <3>5. Stages'
      BY <1>1, <3>2, <3>4 DEF Inv, Stages, Response, Delimiter, Frames, Short
    <3> QED
      BY <3>3, <3>5 DEF Inv
  <2> QED
    BY <1>1, <2>1, <2>2, <2>3 DEF Next
<1> QED
  BY <1>1, Initially, PTL DEF Spec

-----------------------------------------------------------------------------

(* Nothing is lost, repeated or reordered between the transport and the callers of
   read_until and read_exact, wherever the ring wraps, however the reads are cut
   and whatever read_until pushes back: for every capacity, every delimiter and
   every stream. *)
THEOREM SocketStreamInOrder == Spec => []StreamInOrder
<1>1. ASSUME Inv PROVE StreamInOrder
  <2>1. Follows(taken \o got, 0) /\ Len(taken \o got) = Len(taken) + Len(got)
    <3>1. Follows(taken, 0) /\ Follows(got, 0 + Len(taken))
      BY <1>1, Lengths DEF Inv, InOrder
    <3> QED
      BY <3>1, FollowsCat
  <2>2. /\ Follows((taken \o got) \o Contents, 0)
        /\ Len((taken \o got) \o Contents) = Len(taken \o got) + Len(Contents)
    <3>1. Follows(Contents, 0 + Len(taken \o got))
      <4>1. Len(taken) \in Nat /\ Len(got) \in Nat
        BY <1>1, Lengths
      <4>2. Follows(Contents, Len(taken) + Len(got))
        BY <1>1 DEF Inv, InOrder
      <4>3. 0 + Len(taken \o got) = Len(taken) + Len(got)
        BY ONLY <2>1, <4>1
      <4> QED
        BY <4>2, <4>3
    <3> QED
      BY <2>1, <3>1, FollowsCat, ZenonT(60)
  <2> DEFINE all == (taken \o got) \o Contents
  <2> HIDE DEF all
  <2>3. Follows(all, 0) /\ Len(all) = received /\ received \in Nat
    BY <1>1, <2>1, <2>2, Lengths, SMTT(40) DEF Inv, InOrder, all
  <2>4. all = [k \in 1..received |-> 0 + k]
    BY <2>3 DEF Follows
  <2> QED
    BY <2>4 DEF StreamInOrder, Stream, all
<1> QED
  BY <1>1, Invariance, PTL

(* read_until stops at the first delimiter even when it arrives in pieces, and
   leaves exactly what precedes it. *)
THEOREM SocketDelimiterNotMissed == Spec => []DelimiterNotMissed
<1>1. ASSUME Inv PROVE DelimiterNotMissed
  <2>1. pc = "until_fill" => Len(got) < delim + DelimLen - 1
    BY <1>1 DEF Inv, Stages, Response, Delimiter, Frames
  <2>2. ASSUME stage = "delimiter"
        PROVE  Len(taken) + Len(got) + 1 \in delim..(delim + DelimLen - 1)
    <3>1. Len(taken) = delim - 1 /\ Len(got) = 0
      BY <1>1, <2>2 DEF Inv, Stages, Delimiter
    <3> QED
      BY <1>1, <3>1, Lengths, Constants
  <2> QED
    BY <1>1, <2>1, <2>2 DEF DelimiterNotMissed, Inv, Stages, Frames
<1> QED
  BY <1>1, Invariance, PTL

(* fill_read_buffer never asks the transport to fill an empty span, and
   wait_readable waits only when everything received was handed out. *)
THEOREM SocketNoUselessWait == Spec => []NoUselessWait
<1>1. ASSUME Inv PROVE NoUselessWait
  <2>1. size < Capacity => available_span > 0
    BY <1>1, SpansOfRing, Lengths DEF Inv, Typed, SpansAreSafe, available
  <2>2. pc = "exact_fill" /\ size < remaining => size < Capacity
    BY <1>1, Lengths, Constants DEF Inv, Stages, Response, Delimiter, Frames
  <2>3. ASSUME pc = "wait" PROVE taken = Stream(0, received)
    <3>1. size = 0 /\ Len(got) = 0
      BY <1>1, <2>3 DEF Inv, Stages, Response, Delimiter, Frames
    <3>2. Follows(taken, 0) /\ Len(taken) = received /\ received \in Nat
      BY <1>1, <3>1, Lengths DEF Inv, InOrder
    <3>3. taken = [k \in 1..received |-> 0 + k]
      BY <3>2 DEF Follows
    <3> QED
      BY <3>3 DEF Stream
  <2> QED
    BY <2>1, <2>2, <2>3 DEF NoUselessWait
<1> QED
  BY <1>1, Invariance, PTL

(* A response that ends, with its delimiter, inside the first Capacity bytes never
   overflows the ring when its tail is pushed back. *)
THEOREM SocketShortResponseFits == Spec => []ShortResponseFits
<1>1. ASSUME Inv PROVE ShortResponseFits
  BY <1>1 DEF Inv, Stages, Response, Delimiter, Frames, Short, ShortResponseFits
<1> QED
  BY <1>1, Invariance, PTL
=============================================================================
