------------------------------ MODULE ReedSolomon ------------------------------
(***************************************************************************)
(* reed_solomon.c: the shortened Reed-Solomon code of PARAM_N1 symbols, of *)
(* which the last PARAM_K are the message, and its decoder, one operator   *)
(* per function.  Words and polynomials are functions from 0 .. n - 1.     *)
(***************************************************************************)
EXTENDS AdditiveFFT, SequencesExt

CONSTANTS PARAM_N1, PARAM_K,
          PARAM_DELTA,          \* errors the code corrects
          RS_POLY_COEFS         \* the generator polynomial, constant coefficient first

(* What the parameters have in common; HqcCodes assumes it of each level.    *)
SizesFit == /\ PARAM_N1 - PARAM_K = 2 * PARAM_DELTA
            /\ PARAM_N1 < 2^PARAM_M
            /\ 2^PARAM_FFT > PARAM_DELTA
            /\ Len(RS_POLY_COEFS) = 2 * PARAM_DELTA + 1

\* Mutant: the powers start at alpha^0.
alphaFromZero(i, j) == gf_exp[(i * (j + 1)) % PARAM_GF_MUL_ORDER]

alpha_ij_pow(i, j) == gf_exp[((i + 1) * (j + 1)) % PARAM_GF_MUL_ORDER]

(* Systematic encoding by a shift register with feedback. *)
reed_solomon_encode(msg) ==
    LET last == PARAM_N1 - PARAM_K - 1
        register[i \in 0..PARAM_K] ==
            IF i = 0 THEN Array(last + 1, LAMBDA k : 0)
            ELSE LET cdw == register[i - 1]
                     gate_value == msg[PARAM_K - i] ++ cdw[last]
                 IN  Array(last + 1, LAMBDA k :
                        (IF k = 0 THEN 0 ELSE cdw[k - 1]) ++ gate_value ** RS_POLY_COEFS[k + 1])
        parity == register[PARAM_K]
    IN  [i \in 0 .. PARAM_N1 - 1 |-> IF i <= last THEN parity[i] ELSE msg[i - last - 1]]

(* The received word as a polynomial, at alpha^1 .. alpha^(2 DELTA). *)
compute_syndromes(cdw) ==
    [i \in 0 .. 2*PARAM_DELTA - 1 |->
        cdw[0] ++ XorSum(LAMBDA j : cdw[j] ** alpha_ij_pow(i, j - 1), 1, PARAM_N1 - 1)]

\* Mutant: the locator grows whenever the discrepancy is not 0.
growsWheneverOff(d, deg, deg_X) == d # 0

(* A discrepancy d that the locator of degree deg cannot repair.           *)
grows(d, deg, deg_X) == d # 0 /\ deg_X > deg

(* Berlekamp's simplified algorithm: <<error locator, its degree>>. *)
compute_elp(syndromes) ==
    LET Start == [sigma |-> [i \in 0..PARAM_DELTA |-> IF i = 0 THEN 1 ELSE 0], deg |-> 0,
                  X_sigma_p |-> [i \in 0..PARAM_DELTA |-> IF i = 1 THEN 1 ELSE 0], deg_p |-> 0,
                  pp |-> -1, d_p |-> 1, d |-> syndromes[0]]
        Round(r, mu) ==
            LET top == IF mu < PARAM_DELTA THEN mu + 1 ELSE PARAM_DELTA
                dd == r.d ** Inv(r.d_p)
                sigma == Array(PARAM_DELTA + 1, LAMBDA i :
                            IF i \in 1..top THEN r.sigma[i] ++ dd ** r.X_sigma_p[i] ELSE r.sigma[i])
                deg_X == mu - r.pp + r.deg_p
                longer == grows(r.d, r.deg, deg_X)
                from == IF longer THEN r.sigma ELSE r.X_sigma_p
            IN  [sigma |-> sigma,
                 deg |-> IF longer THEN deg_X ELSE r.deg,
                 X_sigma_p |-> Array(PARAM_DELTA + 1, LAMBDA i : IF i = 0 THEN 0 ELSE from[i - 1]),
                 deg_p |-> IF longer THEN r.deg ELSE r.deg_p,
                 pp |-> IF longer THEN mu ELSE r.pp,
                 d_p |-> IF longer THEN r.d ELSE r.d_p,
                 d |-> IF mu = 2*PARAM_DELTA - 1 THEN r.d
                       ELSE syndromes[mu + 1]
                            ++ XorSum(LAMBDA i : sigma[i] ** syndromes[mu + 1 - i], 1, top)]
        end == FoldLeft(Round, Start, [mu \in 1 .. 2*PARAM_DELTA |-> mu - 1])
    IN  <<end.sigma, end.deg>>

(* compute_roots: the values of the locator on the field, and error[i] = 1 *)
(* where the inverse of alpha^i is a root.                                 *)
locator_values(sigma) ==
    fft(Array(2^PARAM_FFT, LAMBDA i : IF i <= PARAM_DELTA THEN sigma[i] ELSE 0), PARAM_DELTA + 1)

compute_roots(w) == fft_retrieve_error_poly(w)

\* Mutant: the loop ends one degree early.
z_polyWithoutTop(sigma, degree, syndromes) ==
    [i \in 0..PARAM_DELTA |->
        IF i = 0 THEN 1
        ELSE IF i = 1 THEN (IF degree >= 1 THEN sigma[1] ELSE 0) ++ syndromes[0]
        ELSE IF i >= degree THEN 0
        ELSE sigma[i] ++ syndromes[i - 1]
             ++ XorSum(LAMBDA j : sigma[j] ** syndromes[i - j - 1], 1, i - 1)]

compute_z_poly(sigma, degree, syndromes) ==
    [i \in 0..PARAM_DELTA |->
        IF i = 0 THEN 1
        ELSE IF i = 1 THEN (IF degree >= 1 THEN sigma[1] ELSE 0) ++ syndromes[0]
        ELSE IF i > degree THEN 0
        ELSE sigma[i] ++ syndromes[i - 1]
             ++ XorSum(LAMBDA j : sigma[j] ** syndromes[i - j - 1], 1, i - 1)]

(* The value of the error at each position, of the first DELTA marked ones. *)
compute_error_values(z, error) ==
    LET marked == SelectSeq([i \in 1..PARAM_N1 |-> i - 1], LAMBDA i : error[i] # 0)
        found == IF Len(marked) < PARAM_DELTA THEN Len(marked) ELSE PARAM_DELTA
        beta == Array(PARAM_DELTA, LAMBDA j : IF j < found THEN gf_exp[marked[j + 1]] ELSE 0)
        value(i) ==
            LET inverse == Inv(beta[i])
                power[j \in 0..PARAM_DELTA] == IF j = 0 THEN 1 ELSE power[j - 1] ** inverse
                product[k \in 0 .. PARAM_DELTA - 1] ==
                    IF k = 0 THEN 1
                    ELSE product[k - 1] ** (1 ++ inverse ** beta[(i + k) % PARAM_DELTA])
            IN  (1 ++ XorSum(LAMBDA j : power[j] ** z[j], 1, PARAM_DELTA))
                ** Inv(product[PARAM_DELTA - 1])
        values == Array(found, value)
    IN  [i \in 0 .. PARAM_N1 - 1 |->
            IF \E j \in 1..found : marked[j] = i
            THEN values[(CHOOSE j \in 1..found : marked[j] = i) - 1] ELSE 0]

correct_errors(cdw, error_values) == [i \in 0 .. PARAM_N1 - 1 |-> cdw[i] ++ error_values[i]]

(* The message part of a codeword, its last PARAM_K symbols. *)
MessageOf(cdw) == [i \in 0 .. PARAM_K - 1 |-> cdw[2*PARAM_DELTA + i]]
===============================================================================
