-------------------------------- MODULE KeccakF --------------------------------
(***************************************************************************)
(* KeccakF1600_StatePermute of fips202.c, and the permutation as FIPS 202  *)
(* defines it.  A lane is the set of its bits that are 1.  The program     *)
(* names a lane by the vowel of its x and the consonant of its y, in the   *)
(* orders a e i o u and b g k m s; here it is number x + 5 y.              *)
(***************************************************************************)
EXTENDS Integers, Sequences, FiniteSetsExt

NROUNDS == 24

Lanes == 0..24

a (+) b == SymDiff(a, b)

ROL(a, offset) == {(b + offset) % 64 : b \in a}

KeccakF_RoundConstants == <<
    {0}, {1, 7, 15}, {1, 3, 7, 15, 63}, {15, 31, 63}, {0, 1, 3, 7, 15}, {0, 31},
    {0, 7, 15, 31, 63}, {0, 3, 15, 63}, {1, 3, 7}, {3, 7}, {0, 3, 15, 31}, {1, 3, 31},
    {0, 1, 3, 7, 15, 31}, {0, 1, 3, 7, 63}, {0, 3, 7, 15, 63}, {0, 1, 15, 63}, {1, 15, 63}, {7, 63},
    {1, 3, 15}, {1, 3, 31, 63}, {0, 7, 15, 31, 63}, {7, 15, 63}, {0, 31}, {3, 15, 31, 63}>>

(* For each lane BCa .. BCu of each group the lane of A it is taken from and *)
(* the bits that one is rotated by.                                         *)
Source == << 0, 6, 12, 18, 24,   3, 9, 10, 16, 22,   1, 7, 13, 19, 20,
             4, 5, 11, 17, 23,   2, 8, 14, 15, 21 >>

Rotation == << 0, 44, 43, 21, 14,   28, 20, 3, 45, 61,   1, 6, 25, 8, 18,
               27, 36, 10, 15, 56,   62, 55, 39, 41, 2 >>

prepareTheta(A) == << >> \o [x \in 1..5 |->
    A[x - 1] (+) A[x + 4] (+) A[x + 9] (+) A[x + 14] (+) A[x + 19]]

\* Mutant: the wrong one of the two lanes is complemented.
chiOther(BC, x) == BC[x + 1] (+) (BC[((x + 1) % 5) + 1] \ BC[((x + 2) % 5) + 1])

(* A group of five lanes of the result, from its lanes BCa .. BCu. *)
chi(BC, x) == BC[x + 1] (+) (BC[((x + 2) % 5) + 1] \ BC[((x + 1) % 5) + 1])

(* Half of the loop's body: a round, from A to E or from E to A.  Each lane  *)
(* is XORed with its D in place, and is used once.                          *)
thetaRhoPiChiIota(A, BC, constant) ==
    LET D == << >> \o [x \in 1..5 |-> BC[((x + 3) % 5) + 1] (+) ROL(BC[(x % 5) + 1], 1)]
        group == << >> \o [y \in 1..5 |-> << >> \o [x \in 1..5 |->
                    LET k == 5 * (y - 1) + x
                    IN  ROL(A[Source[k]] (+) D[(Source[k] % 5) + 1], Rotation[k])]]
    IN  [k \in Lanes |-> IF k = 0 THEN chi(group[1], 0) (+) constant
                         ELSE chi(group[(k \div 5) + 1], k % 5)]

-----------------------------------------------------------------------------
(* The step mappings of FIPS 202, section 3.2, on lanes <<x, y>>.          *)
Coordinates == (0..4) \X (0..4)

Grid(A) == [c \in Coordinates |-> A[c[1] + 5 * c[2]]]

Theta(G) ==
    LET C == [x \in 0..4 |-> G[<<x, 0>>] (+) G[<<x, 1>>] (+) G[<<x, 2>>] (+) G[<<x, 3>>] (+) G[<<x, 4>>]]
    IN  [c \in Coordinates |-> G[c] (+) (C[(c[1] + 4) % 5] (+) ROL(C[(c[1] + 1) % 5], 1))]

(* The offsets are triangular numbers along the walk of <<1, 0>> by         *)
(* <<x, y>> -> <<y, 2x + 3y>>.                                              *)
RhoOffset ==
    LET walk[t \in 0..23] ==
            IF t = 0 THEN <<1, 0>>
            ELSE LET c == walk[t - 1] IN <<c[2], (2 * c[1] + 3 * c[2]) % 5>>
    IN  [c \in Coordinates |->
            IF c = <<0, 0>> THEN 0
            ELSE LET t == CHOOSE i \in 0..23 : walk[i] = c IN (((t + 1) * (t + 2)) \div 2) % 64]

Rho(G) == [c \in Coordinates |-> ROL(G[c], RhoOffset[c])]

Pi(G) == [c \in Coordinates |-> G[<<(c[1] + 3 * c[2]) % 5, c[1]>>]]

Chi(G) == [c \in Coordinates |->
    G[c] (+) (((0..63) \ G[<<(c[1] + 1) % 5, c[2]>>]) \cap G[<<(c[1] + 2) % 5, c[2]>>])]

(* Bit t of the round constants: a register of eight bits with the feedback *)
(* of x^8 + x^6 + x^5 + x^4 + 1.                                            *)
Shifted == [R \in SUBSET (0..7) |->
    LET moved == {i + 1 : i \in R}
    IN  IF 8 \in moved THEN (moved \ {8}) (+) {0, 4, 5, 6} ELSE moved]

RcRegister[t \in Nat] == IF t = 0 THEN {0} ELSE Shifted[RcRegister[t - 1]]

RoundConstant(i) == {2^j - 1 : j \in {k \in 0..6 : 0 \in RcRegister[(k + 7 * i) % 255]}}

Iota(G, i) == [G EXCEPT ![<<0, 0>>] = @ (+) RoundConstant(i)]

(* Round i of KECCAK-p[1600, 24]. *)
Rnd(G, i) == Iota(Chi(Pi(Rho(Theta(G)))), i)

(* The tables of the program are those of FIPS 202: a closed statement about *)
(* numbers, which TLC evaluates.                                            *)
TablesAgree ==
    /\ \A x \in 0..4, y \in 0..4 :
           Rotation[5 * y + x + 1] = RhoOffset[<<(x + 3 * y) % 5, x>>]
    /\ \A i \in 0 .. NROUNDS - 1 : KeccakF_RoundConstants[i + 1] = RoundConstant(i)
===============================================================================
