------------------------------- MODULE Digits -------------------------------
(***************************************************************************)
(* Lengths as bytes: the loops that put a number digit by digit in front   *)
(* of a message and take it out again, those of netty/utils/binary.go and  *)
(* of the package encoding/binary.  A byte of a varint holds a digit and,  *)
(* unless it is the last one, the continuation bit, which adds base to it. *)
(***************************************************************************)
EXTENDS Integers, Sequences

(* x after i shifts by a digit.                                            *)
Shifted(base, x, i) ==
    LET q[j \in 0..i] == IF j = 0 THEN x ELSE q[j - 1] \div base
    IN q[i]

(* The number of the digits ds, the highest of them first.                 *)
Number(base, ds) ==
    LET q[j \in 0..Len(ds)] == IF j = 0 THEN 0 ELSE (q[j - 1] * base) + ds[j]
    IN q[Len(ds)]

(* The lowest digit first; the loop ends with a rest of one digit.         *)
PutUvarint(base, x) ==
    LET n == CHOOSE n \in 1..x + 1 : /\ Shifted(base, x, n - 1) < base
                                     /\ \A j \in 1..n - 1 : Shifted(base, x, j - 1) >= base
    IN [i \in 1..n |-> (Shifted(base, x, i - 1) % base) + IF i < n THEN base ELSE 0]

(* The bytes of the varint in front of s, 0 when no byte ends it, and its  *)
(* value.                                                                  *)
UvarintLen(base, s) ==
    LET ends == {i \in 1..Len(s) : s[i] < base}
    IN IF ends = {} THEN 0 ELSE CHOOSE i \in ends : \A j \in ends : i <= j

Uvarint(base, s) ==
    LET n == UvarintLen(base, s)
    IN Number(base, [i \in 1..n |-> s[n + 1 - i] % base])
=============================================================================
