---------------------------------- MODULE GF ----------------------------------
(***************************************************************************)
(* The field GF(2^8) in which the Reed-Solomon code of HQC computes:       *)
(* elements are bytes, addition is the exclusive or of their bits, and     *)
(* multiplication goes through the powers and logarithms of alpha that     *)
(* gf.h tabulates.  The ways the program really multiplies, in gf.c and in *)
(* the accelerator, are checked against this field in Accelerators.        *)
(***************************************************************************)
EXTENDS Integers, Sequences

PARAM_M == 8

PARAM_GF_POLY == 285      \* x^8 + x^4 + x^3 + x^2 + 1

PARAM_GF_MUL_ORDER == 255

Field == 0 .. 2^PARAM_M - 1

XorOfNibbles ==
    [a \in 0..15 |-> [b \in 0..15 |->
        LET bit(w) == w * ((a \div w + b \div w) % 2) IN bit(1) + bit(2) + bit(4) + bit(8)]]

(* Addition: exclusive or of two bytes. *)
a ++ b == 16 * XorOfNibbles[a \div 16][b \div 16] + XorOfNibbles[a % 16][b % 16]

(* f(lo) ++ f(lo + 1) ++ ... ++ f(hi) *)
XorSum(f(_), lo, hi) ==
    LET sum[i, j \in Int] ==
            IF i > j THEN 0
            ELSE IF i = j THEN f(i)
            ELSE sum[i, (i + j) \div 2] ++ sum[(i + j) \div 2 + 1, j]
    IN  sum[lo, hi]

(* The array of length n with f(i) at index i.  (Written over a sequence    *)
(* because TLC then computes every element once.)                          *)
Array(n, f(_)) == LET s == [i \in 1..n |-> f(i - 1)] \o <<>>
                  IN  [i \in 0 .. n - 1 |-> s[i + 1]]

(* The powers of alpha = 2. *)
gf_exp ==
    LET t == <<
          1, 2, 4, 8, 16, 32, 64, 128, 29, 58, 116, 232, 205, 135, 19, 38, 76, 152, 45, 90, 180,
          117, 234, 201, 143, 3, 6, 12, 24, 48, 96, 192, 157, 39, 78, 156, 37, 74, 148, 53, 106,
          212, 181, 119, 238, 193, 159, 35, 70, 140, 5, 10, 20, 40, 80, 160, 93, 186, 105, 210,
          185, 111, 222, 161, 95, 190, 97, 194, 153, 47, 94, 188, 101, 202, 137, 15, 30, 60, 120,
          240, 253, 231, 211, 187, 107, 214, 177, 127, 254, 225, 223, 163, 91, 182, 113, 226, 217,
          175, 67, 134, 17, 34, 68, 136, 13, 26, 52, 104, 208, 189, 103, 206, 129, 31, 62, 124,
          248, 237, 199, 147, 59, 118, 236, 197, 151, 51, 102, 204, 133, 23, 46, 92, 184, 109,
          218, 169, 79, 158, 33, 66, 132, 21, 42, 84, 168, 77, 154, 41, 82, 164, 85, 170, 73, 146,
          57, 114, 228, 213, 183, 115, 230, 209, 191, 99, 198, 145, 63, 126, 252, 229, 215, 179,
          123, 246, 241, 255, 227, 219, 171, 75, 150, 49, 98, 196, 149, 55, 110, 220, 165, 87,
          174, 65, 130, 25, 50, 100, 200, 141, 7, 14, 28, 56, 112, 224, 221, 167, 83, 166, 81,
          162, 89, 178, 121, 242, 249, 239, 195, 155, 43, 86, 172, 69, 138, 9, 18, 36, 72, 144,
          61, 122, 244, 245, 247, 243, 251, 235, 203, 139, 11, 22, 44, 88, 176, 125, 250, 233,
          207, 131, 27, 54, 108, 216, 173, 71, 142, 1>>
    IN  [i \in 0..255 |-> t[i + 1]]

(* The logarithm of 0 is set to 0 by convention. *)
gf_log == [x \in Field |-> IF x = 0 THEN 0 ELSE CHOOSE i \in 0..254 : gf_exp[i] = x]

a ** b == IF a = 0 \/ b = 0 THEN 0
          ELSE gf_exp[(gf_log[a] + gf_log[b]) % PARAM_GF_MUL_ORDER]

(* The inverse, and 0 for 0. *)
Inv(a) == IF a = 0 THEN 0 ELSE gf_exp[PARAM_GF_MUL_ORDER - gf_log[a]]
===============================================================================
