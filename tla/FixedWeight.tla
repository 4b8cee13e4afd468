----------------------------- MODULE FixedWeight -----------------------------
(***************************************************************************)
(* vect_set_random_fixed_weight of vector.c: as many numbers as the weight *)
(* are drawn, each is reduced to a position, positions drawn twice are     *)
(* replaced, and the positions become the bits of a vector.                *)
(***************************************************************************)
EXTENDS Integers, FiniteSets

CONSTANTS PARAM_N,     \* length of the vector in bits
          DRAWS,       \* how many values a drawn number has, 2^32 in the program
          Weights      \* the weights asked for

(* The table m_val starts with the quotient for PARAM_N and has an entry for *)
(* every index; a position fits half the range of a drawn number.           *)
ASSUME SizesAssumption ==
    /\ PARAM_N \in Nat \ {0}
    /\ DRAWS \in Nat /\ 2 * PARAM_N <= DRAWS
    /\ Weights \subseteq 1..PARAM_N

VARIABLES weight,     \* how many positions to draw
          support,    \* the positions
          at,         \* the index settled last; -1 when there is nothing to settle
          v           \* the vector, as the set of its bits

samplerVars == <<weight, support, at, v>>

m_val(i) == DRAWS \div (PARAM_N - i)

(* r - n in DRAWS values, plus n again if that looks negative.              *)
cond_sub(r, n) ==
    LET d == (r - n) % DRAWS
    IN  IF d >= DRAWS \div 2 THEN (d + n) % DRAWS ELSE d

(* The remainder of a by PARAM_N - i, by a multiplication with the inverse. *)
reduce(a, i) ==
    LET n == PARAM_N - i
        q == (a * m_val(i)) \div DRAWS
    IN  cond_sub(a - q * n, n)

SamplerInit == weight = 0 /\ support = << >> /\ at = -1 /\ v = {}

(* The numbers a[0], ..., a[w - 1] come from the seed expander; position i  *)
(* is drawn from i .. PARAM_N - 1.                                          *)
Draw(w, a) ==
    /\ at = -1
    /\ weight' = w
    /\ support' = [i \in 0 .. w - 1 |-> i + reduce(a[i], i)]
    /\ at' = w - 1
    /\ v' = {}

Repeated(i) == \E j \in i + 1 .. weight - 1 : support[j] = support[i]

\* Mutant: a position drawn twice is not replaced.
SettleNothing ==
    /\ at > 0
    /\ at' = at - 1
    /\ UNCHANGED <<weight, support, v>>

(* From the last index but one down to 0: a position that a later index has *)
(* as well is replaced by the index.                                        *)
Settle ==
    /\ at > 0
    /\ at' = at - 1
    /\ support' = [support EXCEPT ![at - 1] = IF Repeated(at - 1) THEN at - 1 ELSE @]
    /\ UNCHANGED <<weight, v>>

Collect ==
    /\ at = 0
    /\ v' = {support[i] : i \in 0 .. weight - 1}
    /\ at' = -1
    /\ UNCHANGED <<weight, support>>

SamplerNext ==
    \/ \E w \in Weights : \E a \in [0 .. w - 1 -> 0 .. DRAWS - 1] : Draw(w, a)
    \/ Settle
    \/ Collect

SamplerSpec == SamplerInit /\ [][SamplerNext]_samplerVars

-----------------------------------------------------------------------------
(* vect_set_random_fixed_weight gives a vector of exactly the weight asked  *)
(* for, within its length, whatever is drawn.                               *)
WeightIsExact == at = -1 => v \subseteq 0 .. PARAM_N - 1 /\ Cardinality(v) = weight

(* The inductive invariant: positions are in range, not below their index,  *)
(* and from the index settled last on no two are the same.                  *)
Positions == support \in [0 .. weight - 1 -> 0 .. PARAM_N - 1]

Distinct == \A i, j \in 0 .. weight - 1 : at <= i /\ i < j => support[i] # support[j]

SupportInv ==
    /\ weight \in 0 .. PARAM_N
    /\ at \in -1 .. weight - 1
    /\ Positions
    /\ \A i \in 0 .. weight - 1 : support[i] >= i
    /\ Distinct
    /\ at = -1 => v = {support[i] : i \in 0 .. weight - 1}
===============================================================================
