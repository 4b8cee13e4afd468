------------------------------ MODULE ReedMuller ------------------------------
(***************************************************************************)
(* reed_muller.c: a byte becomes MULTIPLICITY copies of a word of the code *)
(* RM(1,7).  A word is the set of its positions that hold a one; copy c    *)
(* occupies the positions from 128 c.                                      *)
(***************************************************************************)
EXTENDS GF, FiniteSets

CONSTANT MULTIPLICITY

PARAM_N2 == 128 * MULTIPLICITY

LOCAL Bit(x, i) == (x \div 2^i) % 2

(* One copy.  Bits 0 to 4 and 7 give the first quarter of 32 positions; bit *)
(* 5 and bit 6 flip the others, in the order 0, 1, 3, 2.                    *)
encode(message) ==
    LET b(i) == Bit(message, i)
        flips == <<0, b(5), b(5) + b(6) + b(5), b(5) + b(6)>>
        first(j) == b(7) + b(0) * Bit(j, 0) + b(1) * Bit(j, 1) + b(2) * Bit(j, 2)
                         + b(3) * Bit(j, 3) + b(4) * Bit(j, 4)
    IN  {j \in 0..127 : (first(j) + flips[j \div 32 + 1]) % 2 = 1}

(* How many copies have a one at each position. *)
expand_and_sum(src) ==
    Array(128, LAMBDA j : Cardinality({c \in 0 .. MULTIPLICITY - 1 : 128*c + j \in src}))

(* Seven passes of sums and differences of neighbours. *)
hadamard(src) ==
    LET Pass(p) == Array(128, LAMBDA i : IF i < 64 THEN p[2*i] + p[2*i + 1]
                                         ELSE p[2*(i - 64)] - p[2*(i - 64) + 1])
    IN  Pass(Pass(Pass(Pass(Pass(Pass(Pass(src)))))))

(* The first position of the value farthest from 0; bit 7 tells its sign.  *)
find_peaks(transform) ==
    LET abs(i) == IF transform[i] < 0 THEN -transform[i] ELSE transform[i]
        pos == CHOOSE i \in 0..127 :
                  \A j \in 0..127 : abs(j) < abs(i) \/ (abs(j) = abs(i) /\ i <= j)
    IN  IF transform[pos] >= 0 THEN pos + 128 ELSE pos

(* A word of bytes, and the word of blocks of PARAM_N2 bits that carries it. *)
reed_muller_encode(msg) ==
    [i \in DOMAIN msg |->
        LET word == encode(msg[i])
        IN  {p \in 0 .. PARAM_N2 - 1 : p % 128 \in word}]

\* Mutant: the first value of the transform stays too high.
decodeUncentered(cdw) ==
    [i \in DOMAIN cdw |-> find_peaks(hadamard(expand_and_sum(cdw[i])))]

(* The first value of the transform is 64 MULTIPLICITY too high: a 0 stands *)
(* for -1/2 and a 1 for 1/2.                                                *)
reed_muller_decode(cdw) ==
    [i \in DOMAIN cdw |->
        LET transform == hadamard(expand_and_sum(cdw[i]))
        IN  find_peaks([transform EXCEPT ![0] = @ - 64 * MULTIPLICITY])]
===============================================================================
