------------------------------ MODULE AdditiveFFT ------------------------------
(***************************************************************************)
(* fft.c: the additive Fourier transform of Gao and Mateer, by which the   *)
(* Reed-Solomon decoder evaluates the error locator polynomial on every    *)
(* element of the field at once.  A polynomial is the function from        *)
(* 0 .. 2^m_f - 1 to its coefficients.                                     *)
(***************************************************************************)
EXTENDS GF, FiniteSets

CONSTANT PARAM_FFT      \* the transform takes 2^PARAM_FFT coefficients

LOCAL Bit(x, i) == (x \div 2^i) % 2

(* The basis, without its last element 1. *)
compute_fft_betas == Array(PARAM_M - 1, LAMBDA i : 2^(PARAM_M - 1 - i))

(* Element i is the sum of the elements of set that the bits of i select. *)
compute_subset_sums(set, size) ==
    Array(2^size, LAMBDA i : XorSum(LAMBDA b : Bit(i, b) * set[b], 0, size - 1))

LOCAL Joined(low, high, n) == Array(2*n, LAMBDA i : IF i < n THEN low[i] ELSE high[i - n])

RECURSIVE radix(_, _)

(* The step for polynomials of more than 16 coefficients: quotient and     *)
(* remainder by (x^2 - x)^n, then each of them.                            *)
radix_big(f, m_f) ==
    LET n == 2^(m_f - 2)
        Q == Array(2*n, LAMBDA i : IF i < n THEN f[3*n + i] ++ f[2*n + i] ELSE f[2*n + i])
        R == Array(2*n, LAMBDA i : IF i < n THEN f[i] ELSE f[i] ++ Q[i - n])
        q == radix(Q, m_f - 1)
        r == radix(R, m_f - 1)
    IN  <<Joined(r[1], q[1], n), Joined(r[2], q[2], n)>>

(* <<f0, f1>> with f(x) = f0(x^2 - x) + x f1(x^2 - x); unrolled up to 16   *)
(* coefficients.                                                           *)
radix(f, m_f) ==
    CASE m_f = 4 ->
            LET b5 == f[11] ++ f[13]
                b3 == f[7] ++ f[11] ++ f[15]
                a5 == f[10] ++ f[12] ++ b5
                a4 == f[8] ++ f[12]
                a3 == f[6] ++ f[10] ++ f[14] ++ b3
                a2 == f[4] ++ a4 ++ a3 ++ b3
                b1 == f[3] ++ f[5] ++ f[9] ++ f[13] ++ b3
                a1 == f[2] ++ a2 ++ b1
                a == <<f[0], a1, a2, a3, a4, a5, f[12] ++ f[14], f[14] ++ f[15]>>
                b == <<f[1] ++ a1, b1, f[3] ++ b1 ++ a3, b3,
                       f[9] ++ f[13] ++ a5, b5, f[13] ++ f[14], f[15]>>
            IN  <<Array(8, LAMBDA i : a[i + 1]), Array(8, LAMBDA i : b[i + 1])>>
      [] m_f = 3 ->
            LET b1 == f[3] ++ f[5] ++ f[7]
                a2 == f[4] ++ f[6]
                a1 == f[2] ++ a2 ++ b1
                a == <<f[0], a1, a2, f[6] ++ f[7]>>
                b == <<f[1] ++ a1, b1, f[5] ++ f[6], f[7]>>
            IN  <<Array(4, LAMBDA i : a[i + 1]), Array(4, LAMBDA i : b[i + 1])>>
      [] m_f = 2 ->
            LET a1 == f[2] ++ f[3]
            IN  <<Array(2, LAMBDA i : IF i = 0 THEN f[0] ELSE a1),
                  Array(2, LAMBDA i : IF i = 0 THEN f[1] ++ a1 ELSE f[3])>>
      [] m_f = 1 -> <<Array(1, LAMBDA i : f[0]), Array(1, LAMBDA i : f[1])>>
      [] OTHER -> radix_big(f, m_f)

(* The values of f0(x^2 - x) + x f1(x^2 - x) at the sums of a basis whose  *)
(* last element is 1, from the values u of f0 and v of f1.                 *)
LOCAL Combined(u, v, gamma_sums, k) ==
    LET low == Array(k, LAMBDA i : u[i] ++ gamma_sums[i] ** v[i])
    IN  Array(2*k, LAMBDA i : IF i < k THEN low[i] ELSE low[i - k] ++ v[i - k])

RECURSIVE fft_rec(_, _, _, _, _)

(* The values of f at all subset sums of the m betas. *)
fft_rec(f, f_coeffs, m, m_f, betas) ==
    IF m_f = 1
    THEN LET sums == compute_subset_sums(Array(m, LAMBDA i : betas[i] ** f[1]), m)
         IN  Array(2^m, LAMBDA i : f[0] ++ sums[i])
    ELSE LET last == betas[m - 1]
             power[i \in Nat] == IF i = 0 THEN 1 ELSE power[i - 1] ** last
             halves == radix(Array(2^m_f, LAMBDA i : power[i] ** f[i]), m_f)
             gammas == Array(m - 1, LAMBDA i : betas[i] ** Inv(last))
             deltas == Array(m - 1, LAMBDA i : gammas[i] ** gammas[i] ++ gammas[i])
             k == 2^(m - 1)
             u == fft_rec(halves[1], (f_coeffs + 1) \div 2, m - 1, m_f - 1, deltas)
             v == IF f_coeffs <= 3 THEN Array(k, LAMBDA i : halves[2][0])
                  ELSE fft_rec(halves[2], f_coeffs \div 2, m - 1, m_f - 1, deltas)
         IN  Combined(u, v, compute_subset_sums(gammas, m - 1), k)

(* The values of f on the whole field: w[i] is f at subset sum i of the    *)
(* betas, w[2^(PARAM_M-1) + i] f at that sum plus 1.  fft is one more level *)
(* of fft_rec whose last beta is 1, so that it has no coefficient to twist. *)
fft(f, f_coeffs) ==
    fft_rec(f, f_coeffs, PARAM_M, PARAM_FFT,
            Array(PARAM_M, LAMBDA i : IF i = PARAM_M - 1 THEN 1 ELSE compute_fft_betas[i]))

(* The element at which w[i] is the value. *)
FieldPoints ==
    LET k == 2^(PARAM_M - 1)
        sums == compute_subset_sums(compute_fft_betas, PARAM_M - 1)
    IN  [i \in Field |-> IF i < k THEN sums[i] ELSE sums[i - k] ++ 1]

\* Mutant: the element 1 is treated like the others.
retrieveWithoutOne(w) ==
    LET position(x) == IF x = 0 THEN 0 ELSE PARAM_GF_MUL_ORDER - gf_log[x]
        roots == {FieldPoints[i] : i \in {j \in Field : w[j] = 0}}
    IN  [p \in Field |-> Cardinality({x \in roots : position(x) = p}) % 2]

(* A root marks the position of its inverse; 0 and 1 both mark position 0,  *)
(* and two marks cancel.                                                    *)
fft_retrieve_error_poly(w) ==
    LET position(x) == IF x \in {0, 1} THEN 0 ELSE PARAM_GF_MUL_ORDER - gf_log[x]
        roots == {FieldPoints[i] : i \in {j \in Field : w[j] = 0}}
    IN  [p \in Field |-> Cardinality({x \in roots : position(x) = p}) % 2]
===============================================================================
