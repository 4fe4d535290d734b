-------------------------------- MODULE Fifo --------------------------------
(***************************************************************************)
(* What a CircularBuffer promises its users: a bounded first-in first-out  *)
(* queue.  Nothing here knows about indices, wrap-around or a full flag.   *)
(***************************************************************************)
EXTENDS Naturals, Sequences

CONSTANTS
  Limit,   (* how many items the queue holds at most *)
  Item     (* what an item is *)

VARIABLES
  items,   (* the stored items, oldest first *)
  in,      (* what the last caller handed in *)
  out      (* what the last removal handed to the caller *)

Init ==
  /\ items = <<>>
  /\ in = <<>> /\ out = <<>>

(* Items go in at the young end and only if all of them fit. *)
Put(s) ==
  /\ Len(items) + Len(s) <= Limit
  /\ in' = s
  /\ items' = items \o s
  /\ out' = out

(* The n oldest items leave in the order in which they came. *)
Take(n) ==
  /\ n <= Len(items)
  /\ out' = SubSeq(items, 1, n)
  /\ items' = SubSeq(items, n + 1, Len(items))
  /\ in' = in

(* The n oldest items leave and nobody looks at them. *)
Drop(n) ==
  /\ n <= Len(items)
  /\ items' = SubSeq(items, n + 1, Len(items))
  /\ UNCHANGED <<in, out>>

(* Runs of items that can fit. *)
Run == UNION {[1..n -> Item] : n \in 0..Limit}

Next ==
  \/ \E s \in Run : Put(s)
  \/ \E n \in 0..Limit : Take(n) \/ Drop(n)

Spec == Init /\ [][Next]_<<items, in, out>>
=============================================================================
