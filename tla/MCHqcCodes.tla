------------------------------ MODULE MCHqcCodes ------------------------------
(* Inputs for the codes of HQC: all the noise the small code corrects, one    *)
(* more error, and the hardest noise at the real sizes.                       *)
EXTENDS HqcCodes, FiniteSetsExt

MCSmallMessages == {[i \in 0..1 |-> a * i + 7] : a \in {0, 240}}

(* Every change of at most two of the six symbols, and some of three.  The   *)
(* values are powers of alpha, so that the first syndromes may be 0 though   *)
(* there are errors.                                                        *)
MCSmallChanges ==
    UNION {[S -> {1, 2, 8, 255}] : S \in {T \in SUBSET (0..5) : Cardinality(T) <= 2}}
        \cup [{0, 2, 5} -> {1, 8}]
===============================================================================
