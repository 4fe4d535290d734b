---------------------------- MODULE MessageBuffer ----------------------------
(***************************************************************************)
(* Buffer (Buffer.hpp), the growing buffer messages are read into: the     *)
(* objects, the blocks of the heap they own, and what a caller may rely on *)
(* to be in them.  Objects are created, moved between and destroyed.       *)
(*                                                                         *)
(* A byte is a value a caller wrote, or Junk if none did.  The sum in      *)
(* append() does not wrap around: the client refuses a payload that is     *)
(* larger than max_size() - size() before it calls it.                     *)
(***************************************************************************)
EXTENDS Naturals, Sequences, FiniteSetsExt, TLC

CONSTANTS
  Buffers,    (* the objects *)
  Blocks,     (* the blocks of the heap *)
  Values,     (* bytes a caller writes *)
  MaxSize,    (* bound on every size *)
  MaxSizes    (* the values max_size is given *)

Null == "null"
Junk == "junk"

VARIABLES
  obj,        (* the members of the objects that live *)
  heap,       (* the contents of the blocks that are allocated *)
  shadow      (* what the caller has put into each object *)

vars == <<obj, heap, shadow>>

Init == obj = <<>> /\ heap = <<>> /\ shadow = <<>>

(* functions that grow and shrink *)
Put(f, x, v) == [y \in DOMAIN f \cup {x} |-> IF y = x THEN v ELSE f[y]]
Drop(f, x) == [y \in DOMAIN f \ {x} |-> f[y]]
Resized(s, n) == [i \in 1..n |-> IF i <= Len(s) THEN s[i] ELSE Junk]

free(p) == Drop(heap, p)

(* std::realloc: the outcomes for the block p and the size n.  The block
   stays, moves, or is left alone because there is no memory; the size zero
   frees it. *)
realloc(p, n) ==
  LET old == IF p = Null THEN <<>> ELSE heap[p]
  IN  IF n = 0 THEN {[ptr |-> Null, heap |-> free(p)]}
      ELSE {[ptr |-> Null, heap |-> heap]} \cup
           {[ptr |-> q, heap |-> Put(free(p), q, Resized(old, n))] :
              q \in (Blocks \ DOMAIN heap) \cup ({p} \ {Null})}

(* the outcomes of internal_reserve(size) on the object o *)
Unchanged(o) == [ok |-> FALSE, o |-> o, heap |-> heap]
Grown(o, size, r) ==
  [ok |-> TRUE, heap |-> r.heap,
   o |-> [o EXCEPT !.ptr = r.ptr, !.cap = size, !.used = Min({o.used, size})]]
internal_reserveMutant(o, size) ==
  IF size > o.max THEN {Unchanged(o)}
  ELSE {IF r.ptr = Null THEN [Unchanged(o) EXCEPT !.heap = r.heap] ELSE Grown(o, size, r) :
          r \in realloc(o.ptr, size)}
internal_reserve(o, size) ==
  IF size > o.max THEN {Unchanged(o)}
  ELSE {IF r.ptr = Null THEN [Unchanged(o) EXCEPT !.heap = r.heap] ELSE Grown(o, size, r) :
          r \in realloc(o.ptr, Max({1, size}))}

Ok(o) == {[ok |-> TRUE, o |-> o, heap |-> heap]}

-----------------------------------------------------------------------------
(* reserve(size) *)
Reserved(o, size) == IF size > o.cap THEN internal_reserve(o, size) ELSE Ok(o)

create(x, initial_size, max_size) ==
  /\ x \notin DOMAIN obj /\ initial_size <= max_size
  /\ \E r \in Reserved([max |-> max_size, cap |-> 0, used |-> 0, ptr |-> Null], initial_size) :
       /\ r.ok
       /\ obj' = Put(obj, x, r.o) /\ heap' = r.heap /\ shadow' = Put(shadow, x, <<>>)

(* ~Buffer *)
Destroy(x) ==
  /\ obj' = Drop(obj, x) /\ shadow' = Drop(shadow, x)
  /\ heap' = free(obj[x].ptr)

Emptied(o) == [o EXCEPT !.ptr = Null, !.cap = 0, !.used = 0]

(* Buffer(Buffer&&): x is a new object *)
MoveConstructMutant(x, other) ==
  /\ x \notin DOMAIN obj
  /\ obj' = Put([obj EXCEPT ![other] = [@ EXCEPT !.cap = 0, !.used = 0]], x, obj[other])
  /\ shadow' = Put([shadow EXCEPT ![other] = <<>>], x, shadow[other])
  /\ UNCHANGED heap
MoveConstruct(x, other) ==
  /\ x \notin DOMAIN obj
  /\ obj' = Put([obj EXCEPT ![other] = Emptied(@)], x, obj[other])
  /\ shadow' = Put([shadow EXCEPT ![other] = <<>>], x, shadow[other])
  /\ UNCHANGED heap

(* operator=(Buffer&&) *)
MoveAssign(x, other) ==
  /\ x # other
  /\ heap' = free(obj[x].ptr)
  /\ obj' = [obj EXCEPT ![x] = obj[other], ![other] = Emptied(@)]
  /\ shadow' = [shadow EXCEPT ![x] = shadow[other], ![other] = <<>>]

clear(x) ==
  /\ obj' = [obj EXCEPT ![x].used = 0] /\ shadow' = [shadow EXCEPT ![x] = <<>>]
  /\ UNCHANGED heap

resetMutant(x) ==
  /\ heap' = free(obj[x].ptr)
  /\ obj' = [obj EXCEPT ![x] = [@ EXCEPT !.ptr = Null, !.used = 0]]
  /\ shadow' = [shadow EXCEPT ![x] = <<>>]
reset(x) ==
  /\ heap' = free(obj[x].ptr)
  /\ obj' = [obj EXCEPT ![x] = Emptied(@)]
  /\ shadow' = [shadow EXCEPT ![x] = <<>>]

set_max_size(x, max_size) ==
  obj' = [obj EXCEPT ![x].max = max_size] /\ UNCHANGED <<heap, shadow>>

(* the outcome r of an operation on x, after which used is n *)
Apply(x, r, n, contents) ==
  /\ heap' = r.heap
  /\ IF r.ok THEN /\ obj' = [obj EXCEPT ![x] = [r.o EXCEPT !.used = n]]
                  /\ shadow' = [shadow EXCEPT ![x] = contents]
             ELSE obj' = [obj EXCEPT ![x] = r.o] /\ UNCHANGED shadow

reserve(x, size) ==
  \E r \in Reserved(obj[x], size) : Apply(x, r, r.o.used, shadow[x])

resize(x, size) ==
  \E r \in IF size # obj[x].cap THEN internal_reserve(obj[x], size) ELSE Ok(obj[x]) :
    Apply(x, r, size, Resized(shadow[x], size))

discard_end(x, size) ==
  /\ size <= obj[x].used
  /\ obj' = [obj EXCEPT ![x].used = @ - size]
  /\ shadow' = [shadow EXCEPT ![x] = SubSeq(@, 1, Len(@) - size)]
  /\ UNCHANGED heap

(* append(size) leaves the bytes for the caller to fill in *)
append(x, size) ==
  LET new_pos == obj[x].used + size
  IN  \E r \in IF new_pos > obj[x].cap THEN internal_reserve(obj[x], new_pos) ELSE Ok(obj[x]) :
        Apply(x, r, new_pos, Resized(shadow[x], new_pos))

(* append(data, size) copies the bytes d behind those that are there *)
Copied(r, pos, d) ==
  IF r.ok /\ d # <<>>
  THEN [r EXCEPT !.heap = Put(@, r.o.ptr,
          [i \in 1..Len(r.heap[r.o.ptr]) |->
             IF i \in pos + 1..pos + Len(d) THEN d[i - pos] ELSE r.heap[r.o.ptr][i]])]
  ELSE r
append_data(x, d) ==
  LET new_pos == obj[x].used + Len(d)
  IN  \E r \in IF new_pos > obj[x].cap THEN internal_reserve(obj[x], new_pos) ELSE Ok(obj[x]) :
        Apply(x, Copied(r, obj[x].used, d), new_pos, shadow[x] \o d)

(* at(pos), operator[] and the spans: the caller writes a byte *)
at(x, pos, v) ==
  /\ pos < obj[x].used
  /\ heap' = [heap EXCEPT ![obj[x].ptr][pos + 1] = v]
  /\ shadow' = [shadow EXCEPT ![x][pos + 1] = v]
  /\ UNCHANGED obj

-----------------------------------------------------------------------------
Sizes == 0..MaxSize

Next ==
  \/ \E x \in Buffers, n, max \in Sizes : max \in MaxSizes /\ create(x, n, max)
  \/ \E x \in Buffers, y \in DOMAIN obj : MoveConstruct(x, y)
  \/ \E x \in DOMAIN obj :
       \/ Destroy(x) \/ clear(x) \/ reset(x)
       \/ \E y \in DOMAIN obj : MoveAssign(x, y)
       \/ \E max \in MaxSizes : set_max_size(x, max)
       \/ \E n \in Sizes : reserve(x, n) \/ resize(x, n) \/ discard_end(x, n) \/ append(x, n)
       \/ \E n \in Sizes : \E d \in [1..n -> Values] : append_data(x, d)
       \/ \E pos \in Sizes, v \in Values : at(x, pos, v)

(* blocks, objects and bytes are interchangeable *)
Symmetry == Permutations(Blocks) \cup Permutations(Buffers) \cup Permutations(Values)

Spec == Init /\ [][Next]_vars

-----------------------------------------------------------------------------
(* Every allocated block has exactly one owner and every pointer leads to an
   allocated block: nothing leaks, is freed twice or is used after it was
   freed, through moves, resets, failed and zero-sized reallocations
   (Buffer's destructor, moves and internal_reserve). *)
BlocksAreOwned ==
  /\ \A b \in DOMAIN heap : \E x \in DOMAIN obj : obj[x].ptr = b
  /\ \A x \in DOMAIN obj : obj[x].ptr \in DOMAIN heap \cup {Null}
  /\ \A x, y \in DOMAIN obj : (obj[x].ptr = obj[y].ptr /\ obj[x].ptr # Null) => x = y

(* The object never believes it has more memory than its block has: used is
   at most the capacity, the capacity at most the block (every operation of
   Buffer; append() writes without another test). *)
CapacityIsReal ==
  \A x \in DOMAIN obj :
    /\ obj[x].used <= obj[x].cap
    /\ obj[x].cap <= (IF obj[x].ptr \in DOMAIN heap THEN Len(heap[obj[x].ptr]) ELSE 0)

(* What a caller has written stays in the buffer, in its place, until it is
   cut off: growing, shrinking, moving and failed calls keep it ("Existing
   data in the buffer is preserved"). *)
ContentKept ==
  \A x \in DOMAIN obj :
    /\ Len(shadow[x]) = obj[x].used
    /\ \A i \in 1..Len(shadow[x]) :
         shadow[x][i] # Junk => /\ obj[x].ptr \in DOMAIN heap
                                /\ heap[obj[x].ptr][i] = shadow[x][i]

(* No call makes a buffer hold more than its maximum size allows (the check
   internal_reserve makes for append() and resize()). *)
MaximumIsKept ==
  [][\A x \in DOMAIN obj \cap DOMAIN obj' :
       (obj'[x].max = obj[x].max /\ obj'[x].used > obj[x].used) => obj'[x].used <= obj'[x].max]_vars
=============================================================================
