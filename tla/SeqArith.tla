------------------------------ MODULE SeqArith ------------------------------
(***************************************************************************)
(* The unsigned sequence arithmetic of the ARQ layer.  The code keeps UDP  *)
(* sequence numbers in uint32_t and compares two of them by the pair of    *)
(* wrapped differences a = x - y and b = y - x.  SeqSpace stands for 2^32. *)
(***************************************************************************)
EXTENDS Integers

CONSTANT SeqSpace   \* number of sequence numbers: 2^32 in the code

ASSUME SeqSpaceAssumption == SeqSpace \in Nat /\ SeqSpace > 4

SeqNum == 0 .. SeqSpace - 1

(* uint32_t addition and subtraction, for operands below SeqSpace.         *)
AddNoWrap(x, n) == x + n
Add(x, n) == IF x + n < SeqSpace THEN x + n ELSE x + n - SeqSpace
Sub(x, y) == IF x >= y THEN x - y ELSE x - y + SeqSpace
Next1(x)  == Add(x, 1)

(* x is newer than y: the wrapped distance from y up to x is the shorter.  *)
Ahead(x, y) == Sub(x, y) < Sub(y, x)

(* The ahead-of-sequence check: a new number is accepted when it is not    *)
(* above last + width, in the two branches the code distinguishes.         *)
WithinTolerance(s, last, width) ==
    LET limit == Add(last, width)
    IN  IF last < limit THEN s <= limit ELSE ~(s > limit /\ s < last)
=============================================================================
