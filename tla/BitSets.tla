------------------------------- MODULE BitSets -------------------------------
(* Strings of bits, and polynomials over GF(2), as the set of the positions   *)
(* of their ones.                                                            *)
EXTENDS Integers, FiniteSets

a (+) b == (a \ b) \cup (b \ a)

(* The bits that an odd number of the sets f(i), i \in S, have.  (TLC        *)
(* computes every pair once.)                                               *)
XorOver(S, f(_)) ==
    LET t == {<<i, f(i)>> : i \in S}
    IN  {p \in UNION {c[2] : c \in t} : Cardinality({c \in t : p \in c[2]}) % 2 = 1}

Up(a, k) == {p + k : p \in a}
Down(a, k) == {p - k : p \in {q \in a : q >= k}}
Low(a, n) == {p \in a : p < n}

(* The carry-less product, by its definition: the bit p counts the pairs of  *)
(* bits with the sum p.                                                     *)
Product(a, b, size) ==
    {p \in 0 .. 2 * size - 2 : Cardinality({i \in a : p - i \in b}) % 2 = 1}
=============================================================================
