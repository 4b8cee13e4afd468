---------------------------- MODULE CarrylessMul -----------------------------
(***************************************************************************)
(* base_mul of gf2x.c: the carry-less product of two words.                 *)
(***************************************************************************)
EXTENDS BitSets

CONSTANTS WORD,       \* bits of a word, 64 in the program
          WINDOW      \* bits of a that base_mul takes at a time, 4 in the program

Shl(a, k) == Low(Up(a, k), WORD)
Shr(a, k) == Down(a, k)

(* <<low, high>> word of the product of two words.  u holds the multiples   *)
(* of b without its top bits, so that they fit a word; the top bits are put *)
(* in at the end.                                                          *)
base_mul(a, b) ==
    LET u == [n \in SUBSET (0 .. WINDOW - 1) |->
                 XorOver(n, LAMBDA j : Shl(b \cap (0 .. WORD - WINDOW - 1), j))]
        g(i) == u[{j \in 0 .. WINDOW - 1 : i + j \in a}]
        windows == {WINDOW * k : k \in 0 .. (WORD \div WINDOW) - 1}
        top == {k \in WORD - WINDOW .. WORD - 1 : k \in b}
    IN  << XorOver(windows, LAMBDA i : Shl(g(i), i)) (+) XorOver(top, LAMBDA k : Shl(a, k)),
           XorOver(windows \ {0}, LAMBDA i : Shr(g(i), WORD - i))
               (+) XorOver(top, LAMBDA k : Shr(a, WORD - k)) >>
==============================================================================
