-------------------------------- MODULE Utf8 ---------------------------------
(***************************************************************************)
(* is_valid_utf8 (utils/utf8.hpp, the version without simdutf): one action *)
(* per pass of its loop.  A byte is its number; the tests of its bits are  *)
(* written as divisions.  The caller passes a size_t, the function takes   *)
(* an int of IntBits bits.                                                 *)
(***************************************************************************)
EXTENDS Integers, Sequences

CONSTANTS
  Bytes,     (* the bytes strings are made of *)
  MaxSize,   (* bound on the length of a string *)
  IntBits    (* width of an int *)

VARIABLES
  s,         (* the string *)
  i,         (* the loop's index *)
  result     (* running, valid or invalid *)

vars == <<s, i, result>>

(* the conversion of a size_t to the parameter len *)
len(n) ==
  LET r == n % (2 ^ IntBits) IN IF r >= 2 ^ (IntBits - 1) THEN r - 2 ^ IntBits ELSE r

Init ==
  /\ s \in UNION {[1..n -> Bytes] : n \in 0..MaxSize}
  /\ i = 0 /\ result = "running"

Byte(k) == s[k + 1]
Continues(k) == Byte(k) \div 64 = 2         (* 10xxxxxx *)

(* 110XXXXx 10xxxxxx *)
Bad2(b) == i + 1 >= len(Len(s)) \/ ~Continues(i + 1) \/ b \div 2 = 96

(* 1110XXXX 10Xxxxxx 10xxxxxx; b & 0xa0 tests bits 7 and 5 *)
Bad3Mutant(b) ==
  \/ i + 2 >= len(Len(s)) \/ ~Continues(i + 1) \/ ~Continues(i + 2)
  \/ b = 224 /\ Byte(i + 1) \div 32 = 4
  \/ b = 237 /\ Byte(i + 1) > 160
Bad3(b) ==
  \/ i + 2 >= len(Len(s)) \/ ~Continues(i + 1) \/ ~Continues(i + 2)
  \/ b = 224 /\ Byte(i + 1) \div 32 = 4
  \/ b = 237 /\ Byte(i + 1) \div 128 = 1 /\ (Byte(i + 1) \div 32) % 2 = 1

(* 11110XXX 10XXxxxx 10xxxxxx 10xxxxxx *)
Bad4(b) ==
  \/ i + 3 >= len(Len(s))
  \/ ~Continues(i + 1) \/ ~Continues(i + 2) \/ ~Continues(i + 3)
  \/ b = 240 /\ Byte(i + 1) \div 16 = 8
  \/ b = 244 /\ Byte(i + 1) > 143
  \/ b > 244

Advance(bad, n) ==
  IF bad THEN result' = "invalid" /\ i' = i
         ELSE result' = result /\ i' = i + n

is_valid_utf8 ==
  /\ result = "running" /\ i < len(Len(s))
  /\ LET b == Byte(i) IN
     \/ b < 128 /\ Advance(FALSE, 1)
     \/ b \div 32 = 6 /\ Advance(Bad2(b), 2)
     \/ b \div 16 = 14 /\ Advance(Bad3(b), 3)
     \/ b \div 8 = 30 /\ Advance(Bad4(b), 4)
     \/ /\ b >= 128 /\ b \div 32 # 6 /\ b \div 16 # 14 /\ b \div 8 # 30
        /\ Advance(TRUE, 0)
  /\ UNCHANGED s

LoopEnds ==
  /\ result = "running" /\ i >= len(Len(s))
  /\ result' = "valid" /\ UNCHANGED <<s, i>>

Next == is_valid_utf8 \/ LoopEnds
Spec == Init /\ [][Next]_vars

-----------------------------------------------------------------------------
(* The reference: a code point is encoded in the fewest bytes that hold it. *)
Encodes(b) ==
  LET tail(k) == b[k] - 128
      two == (b[1] - 192) * 64 + tail(2)
      three == ((b[1] - 224) * 64 + tail(2)) * 64 + tail(3)
      four == (((b[1] - 240) * 64 + tail(2)) * 64 + tail(3)) * 64 + tail(4)
  IN  /\ \A k \in 2..Len(b) : b[k] \in 128..191
      /\ \/ Len(b) = 1 /\ b[1] < 128
         \/ Len(b) = 2 /\ b[1] \in 192..223 /\ two >= 128
         \/ Len(b) = 3 /\ b[1] \in 224..239 /\ three >= 2048 /\ ~(three >= 55296 /\ three <= 57343)
         \/ Len(b) = 4 /\ b[1] \in 240..247 /\ four >= 65536 /\ four <= 1114111

(* boundaries of pieces of the string that are encoded code points, each from a
   boundary to a later one *)
Divides(E) ==
  \A a \in E \ {Len(s)} : \E k \in 1..4 : a + k \in E /\ Encodes(SubSeq(s, a + 1, a + k))
WellFormed == \E E \in SUBSET (0..Len(s)) : {0, Len(s)} \subseteq E /\ Divides(E)

(* The verdict is that of the definition of UTF-8: no overlong form, no surrogate,
   nothing above U+10FFFF, no sequence cut off at the end.  A length that is no
   int is outside of it (is_valid_utf8 on every string). *)
VerdictIsRight ==
  result # "running" /\ len(Len(s)) = Len(s) => (result = "valid" <=> WellFormed)

(* The same of every length, also of one that is no int ("Checks if the given
   string is a valid UTF-8 string", utf8.hpp:25). *)
VerdictAtAnyLength == result # "running" => (result = "valid" <=> WellFormed)
=============================================================================
