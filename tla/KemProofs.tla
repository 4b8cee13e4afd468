------------------------------ MODULE KemProofs ------------------------------
(***************************************************************************)
(* Proofs about Polynomials, Parsing and Kem, for every choice of the       *)
(* parameters (ParametersFit): base_mul and Karatsuba multiplication over   *)
(* one block of scratch memory compute the product of polynomials and       *)
(* reduce brings it back modulo X^PARAM_N - 1; such products form a ring;   *)
(* what is written to strings is read back; the sampler draws the same      *)
(* vectors from the same seed; and so every variable of a session is a      *)
(* function of the seed, from which key agreement follows.                  *)
(***************************************************************************)
EXTENDS Kem, FiniteSetTheorems, SequenceTheorems, WellFoundedInduction, TLAPS

(***************************************************************************)
(* vect_mul                                                                *)
(***************************************************************************)

-----------------------------------------------------------------------------
(* The least element of a set of numbers.                                  *)
LEMMA Least ==
    ASSUME NEW T, T \subseteq Nat, T # {}
    PROVE  \E n \in T : \A m \in T : n <= m
<1>1. PICK n \in T : \A m \in T : ~(<<m, n>> \in OpToRel(<, Nat))
    BY WFMin, NatLessThanWellFounded
<1>2. ASSUME NEW m \in T PROVE n <= m
    <2>1. m \in Nat /\ n \in Nat
        OBVIOUS
    <2>2. ASSUME m < n PROVE <<m, n>> \in OpToRel(<, Nat)
        BY <2>1, <2>2, Zenon DEF OpToRel
    <2>3. ~(m < n)
        BY <1>1, <2>2, Zenon
    <2> QED
        BY <2>1, <2>3
<1> QED
    BY <1>2

(* The carry-less product of any two sets of bits: the sums that an odd    *)
(* number of pairs have.                                                   *)
Odd(S) == Cardinality(S) % 2 = 1

Ways(x, y, p) == {i \in x : p - i \in y}

Conv(x, y) == {p \in Int : Odd(Ways(x, y, p))}

BitSet(x) == x \in SUBSET Int /\ IsFiniteSet(x)

(* A symmetric difference is odd if one of the two sets alone is.          *)
LEMMA OddSum ==
    ASSUME NEW A, NEW V, IsFiniteSet(A), IsFiniteSet(V)
    PROVE  IsFiniteSet(A (+) V) /\ (Odd(A (+) V) <=> ~(Odd(A) <=> Odd(V)))
<1>1. PICK a \in Nat, w \in Nat, c \in Nat :
          /\ Cardinality(A) = a /\ Cardinality(V) = w /\ Cardinality(A \cap V) = c
          /\ Cardinality(A \ V) = a - c /\ Cardinality(V \ A) = w - c
          /\ IsFiniteSet(A \ V) /\ IsFiniteSet(V \ A)
    <2>1. /\ IsFiniteSet(A \ V) /\ IsFiniteSet(V \ A) /\ IsFiniteSet(A \cap V)
        BY FS_Subset
    <2>2. /\ Cardinality(A \ V) = Cardinality(A) - Cardinality(A \cap V)
          /\ Cardinality(V \ A) = Cardinality(V) - Cardinality(V \cap A)
        BY FS_Difference
    <2>3. A \cap V = V \cap A
        OBVIOUS
    <2>4. Cardinality(A) \in Nat /\ Cardinality(V) \in Nat /\ Cardinality(A \cap V) \in Nat
        BY <2>1, FS_CardinalityType
    <2> QED
        BY <2>1, <2>2, <2>3, <2>4
<1>2. /\ IsFiniteSet(A (+) V)
      /\ Cardinality(A (+) V) = Cardinality(A \ V) + Cardinality(V \ A)
    <2>1. (A \ V) \cap (V \ A) = {}
        OBVIOUS
    <2>2. /\ IsFiniteSet((A \ V) \cup (V \ A))
          /\ Cardinality((A \ V) \cup (V \ A)) =
                Cardinality(A \ V) + Cardinality(V \ A) - Cardinality((A \ V) \cap (V \ A))
        BY <1>1, FS_Union
    <2>3. Cardinality({}) = 0
        BY FS_EmptySet
    <2>4. A (+) V = (A \ V) \cup (V \ A)
        BY DEF (+)
    <2>5. Cardinality((A \ V) \cap (V \ A)) = 0
        BY <2>1, <2>3
    <2>6. PICK m \in Nat, n \in Nat : Cardinality(A \ V) = m /\ Cardinality(V \ A) = n
        BY <1>1, FS_CardinalityType
    <2>7. Cardinality((A \ V) \cup (V \ A)) = m + n
        BY <2>2, <2>5, <2>6
    <2>8. Cardinality((A \ V) \cup (V \ A)) = Cardinality(A \ V) + Cardinality(V \ A)
        BY <2>6, <2>7
    <2> QED
        BY <2>2, <2>4, <2>8
<1>3. Cardinality(A (+) V) = (a - c) + (w - c)
    BY <1>1, <1>2
<1>4. ((a - c) + (w - c)) % 2 = 1 <=> ~(a % 2 = 1 <=> w % 2 = 1)
    OBVIOUS
<1> QED
    BY <1>1, <1>2, <1>3, <1>4 DEF Odd

(* The empty set has an even number of elements.                           *)
LEMMA NoneIsEven == ~Odd({})
    BY FS_EmptySet DEF Odd

(* Sets with a bijection between them are both odd or both even.           *)
LEMMA OddBijection ==
    ASSUME NEW S, NEW T, NEW f \in Bijection(S, T), IsFiniteSet(S)
    PROVE  Odd(S) <=> Odd(T)
    BY FS_Bijection DEF Odd, ExistsBijection

(* XorOver(S, f), with the values of f at the elements of S in a function. *)
IsXor(X, S, g) ==
    \E t : /\ \A c : c \in t <=> \E i \in S : c = <<i, g[i]>>
           /\ X = {p \in UNION {c[2] : c \in t} : Cardinality({c \in t : p \in c[2]}) % 2 = 1}

Having(S, g, p) == {i \in S : p \in g[i]}

(* XorOver has the bits that an odd number of the values have.             *)
LEMMA XorCounts ==
    ASSUME NEW S, IsFiniteSet(S), NEW g, NEW X, IsXor(X, S, g), NEW p
    PROVE  p \in X <=> Odd(Having(S, g, p))
<1>1. PICK t : /\ \A c : c \in t <=> \E i \in S : c = <<i, g[i]>>
               /\ X = {q \in UNION {c[2] : c \in t} : Cardinality({c \in t : q \in c[2]}) % 2 = 1}
    BY DEF IsXor
<1> DEFINE C == {c \in t : p \in c[2]}
           I == Having(S, g, p)
           f == [i \in I |-> <<i, g[i]>>]
<1>2. \A c \in t : c[1] \in S /\ c = <<c[1], g[c[1]]>> /\ c[2] = g[c[1]]
    BY <1>1
<1>3. f \in Bijection(I, C)
    <2>1. f \in [I -> C]
        <3>1. ASSUME NEW i \in I PROVE <<i, g[i]>> \in C
            <4>1. <<i, g[i]>> \in t /\ <<i, g[i]>>[2] = g[i]
                BY <1>1 DEF Having
            <4> QED
                BY <4>1 DEF Having
        <3> QED
            BY <3>1
    <2>2. \A i, j \in I : f[i] = f[j] => i = j
        OBVIOUS
    <2>3. \A c \in C : \E i \in I : f[i] = c
        <3> SUFFICES ASSUME NEW c \in C PROVE c[1] \in I /\ f[c[1]] = c
            OBVIOUS
        <3> QED
            BY <1>2 DEF Having
    <2> QED
        BY <2>1, <2>2, <2>3 DEF Bijection, Injection, Surjection, IsInjective
<1>4. IsFiniteSet(I)
    <2>1. I \subseteq S
        BY DEF Having
    <2> QED
        BY <2>1, FS_Subset
<1>5. Odd(I) <=> Odd(C)
    BY <1>3, <1>4, OddBijection
<1>6. Odd(C) => C # {}
    BY NoneIsEven
<1>7. p \in X <=> (\E c \in t : p \in c[2]) /\ Odd(C)
    BY <1>1 DEF Odd
<1> HIDE DEF I
<1>8. p \in X <=> Odd(I)
    BY <1>5, <1>6, <1>7
<1> QED
    BY <1>8 DEF I

(* The bits of a value shifted up                                          *)
LEMMA Shifted ==
    ASSUME NEW x \in SUBSET Int, NEW k \in Int, NEW p
    PROVE  p \in Up(x, k) <=> p \in Int /\ p - k \in x
<1>1. ASSUME p \in Up(x, k) PROVE p \in Int /\ p - k \in x
    BY <1>1 DEF Up
<1>2. ASSUME p \in Int, p - k \in x PROVE p \in Up(x, k)
    <2>1. p = (p - k) + k
        BY <1>2
    <2> QED
        BY <1>2, <2>1 DEF Up
<1> QED
    BY <1>1, <1>2

(* The bits of a value shifted down                                        *)
LEMMA ShiftedDown ==
    ASSUME NEW x \in SUBSET Int, NEW k \in Int, NEW p
    PROVE  p \in Down(x, k) <=> p \in Int /\ p >= 0 /\ p + k \in x
<1>1. ASSUME p \in Down(x, k) PROVE p \in Int /\ p >= 0 /\ p + k \in x
    <2>1. PICK q \in x : q >= k /\ p = q - k
        BY <1>1 DEF Down
    <2> QED
        BY <2>1
<1>2. ASSUME p \in Int, p >= 0, p + k \in x PROVE p \in Down(x, k)
    <2>1. p = (p + k) - k /\ p + k >= k
        BY <1>2
    <2> QED
        BY <1>2, <2>1 DEF Down
<1> QED
    BY <1>1, <1>2

(* Finitely many pairs make up a bit of a product.                         *)
LEMMA FewWays ==
    ASSUME NEW x, BitSet(x), NEW y, NEW p
    PROVE  IsFiniteSet(Ways(x, y, p))
    BY FS_Subset DEF Ways, BitSet

(* The sum of finite values is one.                                        *)
LEMMA SumsAreBits ==
    ASSUME NEW x, NEW y, BitSet(x), BitSet(y)
    PROVE  BitSet(x (+) y)
    BY OddSum DEF BitSet, (+)

(* It is linear in both factors, and shifts with them.                     *)
LEMMA Linear ==
    ASSUME NEW x, NEW y, NEW z, BitSet(x), BitSet(y), BitSet(z)
    PROVE  /\ Conv(x (+) y, z) = Conv(x, z) (+) Conv(y, z)
           /\ Conv(z, x (+) y) = Conv(z, x) (+) Conv(z, y)
<1>1. ASSUME NEW p \in Int
      PROVE  /\ Odd(Ways(x (+) y, z, p)) <=> ~(Odd(Ways(x, z, p)) <=> Odd(Ways(y, z, p)))
             /\ Odd(Ways(z, x (+) y, p)) <=> ~(Odd(Ways(z, x, p)) <=> Odd(Ways(z, y, p)))
    <2>1. Ways(x (+) y, z, p) = Ways(x, z, p) (+) Ways(y, z, p)
        BY DEF Ways, (+)
    <2>2. Ways(z, x (+) y, p) = Ways(z, x, p) (+) Ways(z, y, p)
        BY DEF Ways, (+)
    <2> QED
        BY <2>1, <2>2, FewWays, OddSum
<1>2. \A A, V, p : p \in A (+) V <=> ~(p \in A <=> p \in V)
    BY DEF (+)
<1>3. \A p : p \in Conv(x (+) y, z) <=> p \in Conv(x, z) (+) Conv(y, z)
    BY <1>1, <1>2 DEF Conv
<1>4. \A p : p \in Conv(z, x (+) y) <=> p \in Conv(z, x) (+) Conv(z, y)
    BY <1>1, <1>2 DEF Conv
<1> QED
    BY <1>3, <1>4

(* So is a shifted value.                                                  *)
LEMMA UpIsBits ==
    ASSUME NEW x, BitSet(x), NEW k \in Int
    PROVE  BitSet(Up(x, k)) /\ [p \in x |-> p + k] \in Bijection(x, Up(x, k))
<1> DEFINE f == [p \in x |-> p + k]
<1>1. x \in SUBSET Int /\ IsFiniteSet(x)
    BY DEF BitSet
<1>2. Up(x, k) \in SUBSET Int
    BY <1>1, Shifted
<1>3. f \in Bijection(x, Up(x, k))
    <2>1. f \in [x -> Up(x, k)]
        BY DEF Up
    <2>2. \A i, j \in x : f[i] = f[j] => i = j
        BY <1>1
    <2>3. \A q \in Up(x, k) : \E i \in x : f[i] = q
        BY DEF Up
    <2> QED
        BY <2>1, <2>2, <2>3 DEF Bijection, Injection, Surjection, IsInjective
<1>4. IsFiniteSet(Up(x, k))
    BY <1>1, <1>3, FS_Bijection DEF ExistsBijection
<1> QED
    BY <1>2, <1>3, <1>4 DEF BitSet

(* A shift of a factor shifts the product.                                 *)
LEMMA ShiftsFactor ==
    ASSUME NEW x, NEW y, BitSet(x), BitSet(y), NEW k \in Int
    PROVE  /\ Conv(Up(x, k), y) = Up(Conv(x, y), k)
           /\ Conv(x, Up(y, k)) = Up(Conv(x, y), k)
<1>1. x \in SUBSET Int /\ y \in SUBSET Int /\ Conv(x, y) \in SUBSET Int
    BY DEF BitSet, Conv
<1>2. ASSUME NEW p \in Int PROVE Odd(Ways(Up(x, k), y, p)) <=> Odd(Ways(x, y, p - k))
    <2> DEFINE A == Ways(x, y, p - k)
               f == [i \in A |-> i + k]
    <2>1. BitSet(A)
        BY <1>1, FewWays DEF BitSet, Ways
    <2>2. f \in Bijection(A, Up(A, k)) /\ IsFiniteSet(A)
        BY <2>1, UpIsBits DEF BitSet
    <2>3. ASSUME NEW q PROVE q \in Up(A, k) <=> q \in Ways(Up(x, k), y, p)
        <3>1. q \in Up(A, k) <=> q \in Int /\ q - k \in A
            BY <2>1, Shifted DEF BitSet
        <3>2. q \in Up(x, k) <=> q \in Int /\ q - k \in x
            BY <1>1, Shifted
        <3>3. q \in Int => (p - k) - (q - k) = p - q
            OBVIOUS
        <3> QED
            BY <3>1, <3>2, <3>3 DEF Ways
    <2>4. Up(A, k) = Ways(Up(x, k), y, p)
        BY <2>3
    <2> QED
        BY <2>2, <2>4, OddBijection
<1>3. ASSUME NEW p \in Int PROVE Ways(x, Up(y, k), p) = Ways(x, y, p - k)
    <2>1. ASSUME NEW i \in x PROVE p - i \in Up(y, k) <=> (p - k) - i \in y
        <3>1. (p - i) - k = (p - k) - i /\ p - i \in Int
            BY <1>1
        <3> QED
            BY <1>1, <3>1, Shifted
    <2> QED
        BY <2>1 DEF Ways
<1>4. \A p : p \in Up(Conv(x, y), k) <=> p \in Int /\ p - k \in Conv(x, y)
    BY <1>1, Shifted
<1>5. \A p \in Int : p - k \in Int
    OBVIOUS
<1>6. \A p : p \in Conv(Up(x, k), y) <=> p \in Up(Conv(x, y), k)
    BY <1>2, <1>4, <1>5 DEF Conv
<1>7. \A p : p \in Conv(x, Up(y, k)) <=> p \in Up(Conv(x, y), k)
    BY <1>3, <1>4, <1>5 DEF Conv
<1> QED
    BY <1>6, <1>7

(* Shifting is linear, and shifts add up.                                  *)
LEMMA ShiftsAdd ==
    ASSUME NEW x \in SUBSET Int, NEW y \in SUBSET Int, NEW k \in Int, NEW n \in Int
    PROVE  /\ Up(x (+) y, k) = Up(x, k) (+) Up(y, k)
           /\ Up(Up(x, k), n) = Up(x, k + n)
<1>1. \A p : p \in x (+) y <=> ~(p \in x <=> p \in y)
    BY DEF (+)
<1>2. x (+) y \in SUBSET Int /\ Up(x, k) \in SUBSET Int
    BY Shifted DEF (+)
<1>3. \A A, V, p : p \in A (+) V <=> ~(p \in A <=> p \in V)
    BY DEF (+)
<1>4. ASSUME NEW p PROVE p \in Up(x (+) y, k) <=> p \in Up(x, k) (+) Up(y, k)
    <2>1. p \in Up(x (+) y, k) <=> p \in Int /\ p - k \in x (+) y
        BY <1>2, Shifted
    <2>2. p \in Up(x, k) <=> p \in Int /\ p - k \in x
        BY Shifted
    <2>3. p \in Up(y, k) <=> p \in Int /\ p - k \in y
        BY Shifted
    <2>4. p \in Up(x, k) (+) Up(y, k) <=> ~(p \in Up(x, k) <=> p \in Up(y, k))
        BY <1>3
    <2> QED
        BY <1>1, <2>1, <2>2, <2>3, <2>4
<1>5. ASSUME NEW p PROVE p \in Up(Up(x, k), n) <=> p \in Up(x, k + n)
    <2>1. p \in Up(Up(x, k), n) <=> p \in Int /\ p - n \in Up(x, k)
        BY <1>2, Shifted
    <2>2. p \in Int => (p - n \in Up(x, k) <=> (p - n) - k \in x)
        BY Shifted
    <2>3. p \in Up(x, k + n) <=> p \in Int /\ p - (k + n) \in x
        BY Shifted
    <2>4. p \in Int => (p - n) - k = p - (k + n)
        OBVIOUS
    <2> QED
        BY <2>1, <2>2, <2>3, <2>4
<1> QED
    BY <1>4, <1>5

(* The carry-less product is commutative.                                  *)
LEMMA WaysCommute ==
    ASSUME NEW x, NEW y, BitSet(x), BitSet(y)
    PROVE  Conv(x, y) = Conv(y, x)
<1>1. ASSUME NEW p \in Int PROVE Odd(Ways(x, y, p)) <=> Odd(Ways(y, x, p))
    <2> DEFINE A == Ways(x, y, p)
               V == Ways(y, x, p)
               f == [i \in A |-> p - i]
    <2>1. A \in SUBSET Int /\ V \in SUBSET Int /\ IsFiniteSet(A)
        BY FewWays DEF BitSet, Ways
    <2>2. \A i \in Int : p - (p - i) = i /\ p - i \in Int
        OBVIOUS
    <2>3. \A i \in A : p - i \in V
        BY <2>1, <2>2 DEF Ways
    <2>4. \A i \in V : p - i \in A
        BY <2>1, <2>2 DEF Ways
    <2> HIDE DEF A, V
    <2>5. f \in Bijection(A, V)
        <3>1. f \in [A -> V]
            BY <2>3
        <3>2. \A i, j \in A : f[i] = f[j] => i = j
            BY <2>1
        <3>3. \A j \in V : \E i \in A : f[i] = j
            <4> SUFFICES ASSUME NEW j \in V PROVE p - j \in A /\ f[p - j] = j
                OBVIOUS
            <4> QED
                BY <2>1, <2>2, <2>4
        <3> QED
            BY <3>1, <3>2, <3>3 DEF Bijection, Injection, Surjection, IsInjective
    <2>6. Odd(A) <=> Odd(V)
        BY <2>1, <2>5, OddBijection
    <2> QED
        BY <2>6 DEF A, V
<1> QED
    BY <1>1 DEF Conv

(* Intervals of integers are finite.                                       *)
LEMMA FiniteInterval ==
    ASSUME NEW m \in Int, NEW n \in Int, NEW S \in SUBSET (m .. n)
    PROVE  BitSet(S)
<1>1. IsFiniteSet(m .. n)
    BY FS_Interval
<1>2. IsFiniteSet(S)
    BY <1>1, FS_Subset
<1> QED
    BY <1>2 DEF BitSet
-----------------------------------------------------------------------------
(* base_mul of gf2x.c.                                                     *)

WordFits == WORD \in Nat \ {0} /\ WINDOW \in Nat \ {0} /\ WORD % WINDOW = 0

Word == SUBSET (0 .. WORD - 1)

(* A product with a natural number is monotone.                            *)
LEMMA Monotone ==
    ASSUME NEW a \in Int, NEW b \in Int, NEW c \in Nat, a <= b
    PROVE  c * a <= c * b /\ a * c <= b * c
BY SMT

(* The windows of a word                                                   *)
LEMMA WindowsFill ==
    ASSUME WordFits
    PROVE  /\ WORD \div WINDOW \in Nat \ {0}
           /\ WINDOW * (WORD \div WINDOW) = WORD
           /\ WINDOW <= WORD
BY SMT DEF WordFits

(* The window of a that begins at bit i, and the windows below the k-th.   *)
Window(a, i) == {j \in 0 .. WINDOW - 1 : i + j \in a}

Windows(k) == {WINDOW * m : m \in 0 .. k - 1}

Below(a, k) == {j \in a : j < WINDOW * k}

(* A window has finitely many bits.                                        *)
LEMMA WindowBits ==
    ASSUME WordFits, NEW a, NEW i
    PROVE  BitSet(Window(a, i))
<1>1. PICK m \in Int, n \in Int : m = 0 /\ n = WINDOW - 1
    BY DEF WordFits
<1>2. Window(a, i) \in SUBSET (m .. n)
    BY <1>1 DEF Window
<1> QED
    BY <1>2, FiniteInterval

(* A word has finitely many bits.                                          *)
LEMMA WordBits ==
    ASSUME WordFits, NEW x \in Word
    PROVE  BitSet(x) /\ \A y \in SUBSET x : BitSet(y)
<1>1. PICK m \in Int, n \in Int : m = 0 /\ n = WORD - 1
    BY DEF WordFits
<1>2. \A y \in SUBSET x : y \in SUBSET (m .. n)
    BY <1>1 DEF Word
<1> QED
    BY <1>2, FiniteInterval

(* There are finitely many windows, at different bits.                     *)
LEMMA WindowsFinite ==
    ASSUME WordFits, NEW k \in Nat
    PROVE  /\ IsFiniteSet(Windows(k)) /\ Windows(k) \in SUBSET Int
           /\ WINDOW * k \in Nat /\ WINDOW * k \notin Windows(k)
           /\ \A i \in Windows(k) : 0 <= i /\ i + WINDOW <= WINDOW * k
<1>1. WINDOW * k \in Nat
    BY DEF WordFits
<1>2. ASSUME NEW m \in 0 .. k - 1
      PROVE  WINDOW * m \in Nat /\ WINDOW * m + WINDOW <= WINDOW * k
    <2>1. m + 1 \in Int /\ m + 1 <= k /\ WINDOW \in Nat
        BY DEF WordFits
    <2>2. WINDOW * (m + 1) <= WINDOW * k
        BY <2>1, Monotone
    <2>3. WINDOW * (m + 1) = WINDOW * m + WINDOW /\ WINDOW * m \in Nat
        BY <2>1
    <2> QED
        BY <2>2, <2>3
<1>3. \A i \in Windows(k) : i \in Nat /\ i + WINDOW <= WINDOW * k
    BY <1>2 DEF Windows
<1>4. PICK m \in Int, n \in Int : m = 0 /\ n = WINDOW * k
    BY <1>1
<1>5. Windows(k) \in SUBSET (m .. n)
    BY <1>1, <1>3, <1>4 DEF WordFits
<1>6. BitSet(Windows(k))
    BY <1>5, FiniteInterval
<1> QED
    BY <1>1, <1>3, <1>6 DEF BitSet, WordFits

(* The multiples of w at the windows of a below the k-th add up to the     *)
(* product with the bits of a there.                                       *)
Partial(a, w, k, p) == {i \in Windows(k) : p - i \in Conv(Window(a, i), w)}

(* One more window                                                         *)
LEMMA NextWindow ==
    ASSUME WordFits, NEW a \in Word, NEW w, BitSet(w), NEW k \in Nat, NEW p \in Int,
           Odd(Partial(a, w, k, p)) <=> Odd(Ways(Below(a, k), w, p))
    PROVE  Odd(Partial(a, w, k + 1, p)) <=> Odd(Ways(Below(a, k + 1), w, p))
<1> USE DEF WordFits
<1> DEFINE n == WINDOW * k
           W == Window(a, n)
           D == Up(W, n)
           T == {i \in {n} : p - i \in Conv(Window(a, i), w)}
<1>1. n \in Int /\ a \in SUBSET Int
    BY DEF Word
<1>2. BitSet(W) /\ BitSet(D) /\ BitSet(Below(a, k))
    <2>1. BitSet(W)
        BY WindowBits
    <2>2. BitSet(Below(a, k))
        BY WordBits DEF Below
    <2> QED
        BY <1>1, <2>1, <2>2, UpIsBits
<1>3. Partial(a, w, k + 1, p) = Partial(a, w, k, p) (+) T
    <2>1. Windows(k + 1) = Windows(k) \cup {n} /\ n \notin Windows(k)
        BY DEF Windows
    <2> QED
        BY <2>1 DEF Partial, (+)
<1>4. Odd(T) <=> p - n \in Conv(W, w)
    <2>1. CASE p - n \in Conv(W, w)
        <3>1. T = {n}
            BY <2>1
        <3>2. Cardinality({n}) = 1
            BY FS_Singleton
        <3>3. 1 % 2 = 1
            OBVIOUS
        <3> QED
            BY <2>1, <3>1, <3>2, <3>3 DEF Odd
    <2>2. CASE p - n \notin Conv(W, w)
        <3>1. T = {}
            BY <2>2
        <3> QED
            BY <2>2, <3>1, NoneIsEven
    <2> QED
        BY <2>1, <2>2
<1>5. IsFiniteSet(Partial(a, w, k, p)) /\ IsFiniteSet(T)
    <2>1. IsFiniteSet(Windows(k)) /\ IsFiniteSet({n})
        BY WindowsFinite, FS_Singleton
    <2>2. Partial(a, w, k, p) \subseteq Windows(k) /\ T \subseteq {n}
        BY DEF Partial
    <2> QED
        BY <2>1, <2>2, FS_Subset
<1>6. Below(a, k + 1) = Below(a, k) (+) D
    <2>1. \A j : j \in D <=> j \in Int /\ j - n \in W
        BY <1>1, <1>2, Shifted DEF BitSet
    <2>2. \A j \in Int : j - n \in W <=> j - n \in 0 .. WINDOW - 1 /\ n + (j - n) \in a
        BY DEF Window
    <2>3. \A j \in Int : n + (j - n) = j /\ (j - n \in 0 .. WINDOW - 1 <=> j >= n /\ j < n + WINDOW)
        BY <1>1
    <2>4. WINDOW * (k + 1) = n + WINDOW
        OBVIOUS
    <2> HIDE DEF n, W, D
    <2>5. \A j : j \in D <=> j \in a /\ j >= n /\ j < n + WINDOW
        BY <1>1, <2>1, <2>2, <2>3
    <2>6. \A j \in a : (j < n <=> ~(j >= n)) /\ (j < n => j < n + WINDOW)
        BY <1>1
    <2>7. \A j : j \in Below(a, k + 1) <=> j \in a /\ j < n + WINDOW
        BY <2>4 DEF Below
    <2>8. \A j : j \in Below(a, k) <=> j \in a /\ j < n
        BY DEF Below, n
    <2>9. \A j : j \in Below(a, k + 1) <=> j \in Below(a, k) (+) D
        BY <2>5, <2>6, <2>7, <2>8 DEF (+)
    <2> QED
        BY <2>9
<1>7. Conv(D, w) = Up(Conv(W, w), n)
    BY <1>1, <1>2, ShiftsFactor
<1>8. p \in Up(Conv(W, w), n) <=> p - n \in Conv(W, w)
    <2>1. Conv(W, w) \in SUBSET Int
        BY DEF Conv
    <2> HIDE DEF n, W
    <2> QED
        BY <1>1, <2>1, Shifted
<1> HIDE DEF n, W, D, T
<1>9. Odd(Ways(Below(a, k + 1), w, p)) <=> ~(Odd(Ways(Below(a, k), w, p)) <=> Odd(Ways(D, w, p)))
    <2>1. p \in Conv(Below(a, k) (+) D, w) <=> p \in Conv(Below(a, k), w) (+) Conv(D, w)
        BY <1>2, Linear
    <2>2. p \in Conv(Below(a, k), w) (+) Conv(D, w) <=>
              ~(p \in Conv(Below(a, k), w) <=> p \in Conv(D, w))
        BY DEF (+)
    <2> QED
        BY <1>6, <2>1, <2>2 DEF Conv
<1>10. Odd(Ways(D, w, p)) <=> Odd(T)
    BY <1>4, <1>7, <1>8 DEF Conv
<1>11. Odd(Partial(a, w, k + 1, p)) <=> ~(Odd(Partial(a, w, k, p)) <=> Odd(T))
    BY <1>3, <1>5, OddSum
<1> QED
    BY <1>9, <1>10, <1>11

(* All sixteen windows of a word, by induction                             *)
LEMMA AllWindows ==
    ASSUME WordFits, NEW a \in Word, NEW w, BitSet(w), NEW p \in Int
    PROVE  Odd(Partial(a, w, WORD \div WINDOW, p)) <=> Odd(Ways(a, w, p))
<1> USE DEF WordFits
<1> DEFINE Good(k) == Odd(Partial(a, w, k, p)) <=> Odd(Ways(Below(a, k), w, p))
           Bad == {k \in Nat : ~Good(k)}
<1>1. Good(0)
    <2>1. Partial(a, w, 0, p) = {}
        BY DEF Partial, Windows
    <2>2. Ways(Below(a, 0), w, p) = {}
        <3>1. WINDOW * 0 = 0 /\ \A j \in 0 .. WORD - 1 : ~(j < 0)
            OBVIOUS
        <3>2. \A j \in a : ~(j < WINDOW * 0)
            BY <3>1 DEF Word
        <3>3. Below(a, 0) = {}
            BY <3>2 DEF Below
        <3> QED
            BY <3>3 DEF Ways
    <2> QED
        BY <2>1, <2>2
<1>2. \A k \in Nat : Good(k) => Good(k + 1)
    BY NextWindow
<1> HIDE DEF Good
<1>3. Bad = {}
    <2> SUFFICES ASSUME Bad # {} PROVE FALSE
        OBVIOUS
    <2>1. PICK k \in Bad : \A m \in Bad : k <= m
        BY Least
    <2>2. k # 0 /\ k - 1 \in Nat /\ k = (k - 1) + 1
        BY <1>1
    <2>3. k - 1 \notin Bad
        BY <2>1, <2>2
    <2> QED
        BY <1>2, <2>2, <2>3
<1>4. Good(WORD \div WINDOW)
    BY <1>3
<1>5. Below(a, WORD \div WINDOW) = a
    <2>1. WINDOW * (WORD \div WINDOW) = WORD /\ \A j \in 0 .. WORD - 1 : j < WORD
        BY WindowsFill
    <2>2. \A j \in a : j < WINDOW * (WORD \div WINDOW)
        BY <2>1 DEF Word
    <2> QED
        BY <2>2 DEF Below
<1> QED
    BY <1>4, <1>5 DEF Good

(* The table u: the multiples of w, without its upper bits, by two bits.   *)
LEMMA MultiplesFit ==
    ASSUME WordFits, NEW n \in SUBSET (0 .. WINDOW - 1), NEW w \in SUBSET (0 .. WORD - WINDOW - 1)
    PROVE  XorOver(n, LAMBDA j : Low(Up(w, j), WORD)) = Conv(n, w)
<1> USE DEF WordFits
<1> DEFINE g == [j \in n |-> Low(Up(w, j), WORD)]
           X == XorOver(n, LAMBDA j : Low(Up(w, j), WORD))
<1>1. IsXor(X, n, g)
    <2> DEFINE t == {<<j, Low(Up(w, j), WORD)>> : j \in n}
    <2>1. \A c : c \in t <=> \E j \in n : c = <<j, g[j]>>
        OBVIOUS
    <2>2. X = {p \in UNION {c[2] : c \in t} : Cardinality({c \in t : p \in c[2]}) % 2 = 1}
        BY DEF XorOver
    <2> HIDE DEF t, g, X
    <2> QED
        BY <2>1, <2>2 DEF IsXor
<1>2. ASSUME NEW j \in n, NEW p PROVE p \in g[j] <=> p \in Int /\ p - j \in w
    <2>1. p \in Up(w, j) <=> p \in Int /\ p - j \in w
        BY Shifted
    <2>2. p \in Int /\ p - j \in w => p < WORD
        OBVIOUS
    <2> QED
        BY <2>1, <2>2 DEF Low
<1> HIDE DEF g, X
<1>3. ASSUME NEW p \in Int PROVE Having(n, g, p) = Ways(n, w, p)
    BY <1>2 DEF Having, Ways
<1>4. ASSUME NEW p, p \notin Int PROVE Having(n, g, p) = {}
    BY <1>2, <1>4 DEF Having
<1>5. IsFiniteSet(n)
    <2>1. PICK m \in Int, k \in Int : m = 0 /\ k = WINDOW - 1
        OBVIOUS
    <2> QED
        BY <2>1, FiniteInterval DEF BitSet
<1>6. ASSUME NEW p PROVE p \in X <=> p \in Conv(n, w)
    <2>1. p \in X <=> Odd(Having(n, g, p))
        BY <1>1, <1>5, XorCounts
    <2>2. CASE p \in Int
        BY <1>3, <2>1, <2>2 DEF Conv
    <2>3. CASE p \notin Int
        BY <1>4, <2>1, <2>3, NoneIsEven DEF Conv
    <2> QED
        BY <2>2, <2>3
<1> QED
    BY <1>6 DEF X

(* The lower and the upper words of a sum of shifted values.               *)
Lower(S, f) == XorOver(S, LAMBDA i : Low(Up(f[i], i), WORD))
Upper(S, f) == XorOver(S, LAMBDA i : Down(f[i], WORD - i))

Sums(S, f, p) == {i \in S : p - i \in f[i]}

(* The bits of the lower word of such a sum                                *)
LEMMA LowerBits ==
    ASSUME WordFits, NEW S \in SUBSET Int, IsFiniteSet(S), NEW f, \A i \in S : f[i] \in SUBSET Int, NEW p
    PROVE  p \in Lower(S, f) <=> p \in Int /\ p < WORD /\ Odd(Sums(S, f, p))
<1> USE DEF WordFits
<1> DEFINE g == [i \in S |-> Low(Up(f[i], i), WORD)]
<1>1. IsXor(Lower(S, f), S, g)
    <2> DEFINE t == {<<i, Low(Up(f[i], i), WORD)>> : i \in S}
    <2>1. \A c : c \in t <=> \E i \in S : c = <<i, g[i]>>
        OBVIOUS
    <2>2. Lower(S, f) = {q \in UNION {c[2] : c \in t} : Cardinality({c \in t : q \in c[2]}) % 2 = 1}
        BY DEF Lower, XorOver
    <2> HIDE DEF t, g
    <2> QED
        BY <2>1, <2>2 DEF IsXor
<1>2. ASSUME NEW i \in S PROVE p \in g[i] <=> p \in Int /\ p < WORD /\ p - i \in f[i]
    BY Shifted DEF Low
<1> HIDE DEF g
<1>3. p \in Lower(S, f) <=> Odd(Having(S, g, p))
    BY <1>1, XorCounts
<1>4. CASE p \in Int /\ p < WORD
    <2>1. Having(S, g, p) = Sums(S, f, p)
        BY <1>2, <1>4 DEF Having, Sums
    <2> QED
        BY <1>3, <1>4, <2>1
<1>5. CASE ~(p \in Int /\ p < WORD)
    <2>1. Having(S, g, p) = {}
        BY <1>2, <1>5 DEF Having
    <2> QED
        BY <1>3, <1>5, <2>1, NoneIsEven
<1> QED
    BY <1>4, <1>5

(* The bits of the upper word                                              *)
LEMMA UpperBits ==
    ASSUME WordFits, NEW S \in SUBSET Int, IsFiniteSet(S), NEW f, \A i \in S : f[i] \in SUBSET Int, NEW p
    PROVE  p \in Upper(S, f) <=> p \in Int /\ p >= 0 /\ Odd(Sums(S, f, p + WORD))
<1> USE DEF WordFits
<1> DEFINE g == [i \in S |-> Down(f[i], WORD - i)]
<1>1. IsXor(Upper(S, f), S, g)
    <2> DEFINE t == {<<i, Down(f[i], WORD - i)>> : i \in S}
    <2>1. \A c : c \in t <=> \E i \in S : c = <<i, g[i]>>
        OBVIOUS
    <2>2. Upper(S, f) = {q \in UNION {c[2] : c \in t} : Cardinality({c \in t : q \in c[2]}) % 2 = 1}
        BY DEF Upper, XorOver
    <2> HIDE DEF t, g
    <2> QED
        BY <2>1, <2>2 DEF IsXor
<1>2. ASSUME NEW i \in S PROVE p \in g[i] <=> p \in Int /\ p >= 0 /\ (p + WORD) - i \in f[i]
    <2>1. PICK k \in Int : k = WORD - i
        OBVIOUS
    <2>3. p \in Down(f[i], k) <=> p \in Int /\ p >= 0 /\ p + k \in f[i]
        BY ShiftedDown
    <2>2. p \in Int => p + k = (p + WORD) - i
        BY <2>1
    <2> QED
        BY <2>1, <2>2, <2>3
<1> HIDE DEF g
<1>3. p \in Upper(S, f) <=> Odd(Having(S, g, p))
    BY <1>1, XorCounts
<1>4. CASE p \in Int /\ p >= 0
    <2>1. Having(S, g, p) = Sums(S, f, p + WORD)
        BY <1>2, <1>4 DEF Having, Sums
    <2> QED
        BY <1>3, <1>4, <2>1
<1>5. CASE ~(p \in Int /\ p >= 0)
    <2>1. Having(S, g, p) = {}
        BY <1>2, <1>5 DEF Having
    <2> QED
        BY <1>3, <1>5, <2>1, NoneIsEven
<1> QED
    BY <1>4, <1>5

(* base_mul: the windows of a with the lower bits of w, and the upper bits *)
(* of w with all of a.                                                     *)
LEMMA BaseMulMultiplies ==
    ASSUME WordFits, NEW a \in Word, NEW w \in Word, NEW p
    PROVE  /\ p \in base_mul(a, w)[1] <=> p \in Int /\ p < WORD /\ p \in Conv(a, w)
           /\ p \in base_mul(a, w)[2] <=> p \in Int /\ p >= 0 /\ p + WORD \in Conv(a, w)
<1> USE DEF WordFits
<1> DEFINE c == w \cap (0 .. WORD - WINDOW - 1)
           top == {k \in WORD - WINDOW .. WORD - 1 : k \in w}
           S == Windows(WORD \div WINDOW)
           R == Windows(WORD \div WINDOW) \ {0}
           f == [i \in S |-> Conv(Window(a, i), c)]
           e == [k \in top |-> a]
           low == Lower(S, f) (+) Lower(top, e)
           high == Upper(R, f) (+) Upper(top, e)
<1>1. base_mul(a, w) = <<low, high>>
    <2> DEFINE u == [n \in SUBSET (0 .. WINDOW - 1) |->
                        XorOver(n, LAMBDA j : Low(Up(w \cap (0 .. WORD - WINDOW - 1), j), WORD))]
               g(i) == u[{j \in 0 .. WINDOW - 1 : i + j \in a}]
               windows == {WINDOW * k : k \in 0 .. (WORD \div WINDOW) - 1}
               upper == {k \in WORD - WINDOW .. WORD - 1 : k \in w}
    <2>2. base_mul(a, w) =
             << XorOver(windows, LAMBDA i : Low(Up(g(i), i), WORD))
                   (+) XorOver(upper, LAMBDA k : Low(Up(a, k), WORD)),
                XorOver(windows \ {0}, LAMBDA i : Down(g(i), WORD - i))
                   (+) XorOver(upper, LAMBDA k : Down(a, WORD - k)) >>
        BY DEF base_mul, Shl, Shr
    <2>3. ASSUME NEW i PROVE g(i) = Conv(Window(a, i), c)
        <3>1. Window(a, i) \in SUBSET (0 .. WINDOW - 1) /\ c \in SUBSET (0 .. WORD - WINDOW - 1)
            BY DEF Window
        <3>2. Window(a, i) = {j \in 0 .. WINDOW - 1 : i + j \in a}
            BY DEF Window
        <3>3. PICK n \in SUBSET (0 .. WINDOW - 1) : n = Window(a, i)
            BY <3>1
        <3>4. u[n] = XorOver(n, LAMBDA j : Low(Up(w \cap (0 .. WORD - WINDOW - 1), j), WORD))
            OBVIOUS
        <3>5. w \cap (0 .. WORD - WINDOW - 1) = c
            OBVIOUS
        <3> HIDE DEF c, u
        <3>6. u[n] = XorOver(n, LAMBDA j : Low(Up(c, j), WORD))
            <4>1. {<<j, Low(Up(w \cap (0 .. WORD - WINDOW - 1), j), WORD)>> : j \in n} =
                      {<<j, Low(Up(c, j), WORD)>> : j \in n}
                BY <3>5
            <4> QED
                BY <3>4, <4>1, Zenon DEF XorOver
        <3> QED
            BY <3>1, <3>2, <3>3, <3>6, MultiplesFit
    <2>4. \A i \in S : g(i) = f[i]
        BY <2>3
    <2>5. windows = S /\ upper = top
        BY DEF Windows
    <2> HIDE DEF u, g, f, S, windows, upper
    <2>6. XorOver(S, LAMBDA i : Low(Up(g(i), i), WORD)) = Lower(S, f)
        <3>1. {<<i, Low(Up(g(i), i), WORD)>> : i \in S} = {<<i, Low(Up(f[i], i), WORD)>> : i \in S}
            BY <2>4
        <3> QED
            BY <3>1, Zenon DEF Lower, XorOver
    <2>7. XorOver(R, LAMBDA i : Down(g(i), WORD - i)) = Upper(R, f)
        <3>1. {<<i, Down(g(i), WORD - i)>> : i \in R} = {<<i, Down(f[i], WORD - i)>> : i \in R}
            BY <2>4 DEF S
        <3> QED
            BY <3>1, Zenon DEF Upper, XorOver
    <2>8. XorOver(top, LAMBDA k : Low(Up(a, k), WORD)) = Lower(top, e)
        <3>1. {<<i, Low(Up(e[i], i), WORD)>> : i \in top} = {<<i, Low(Up(a, i), WORD)>> : i \in top}
            OBVIOUS
        <3> HIDE DEF top, e
        <3> QED
            BY <3>1, Zenon DEF Lower, XorOver
    <2>9. XorOver(top, LAMBDA k : Down(a, WORD - k)) = Upper(top, e)
        <3>1. {<<i, Down(e[i], WORD - i)>> : i \in top} = {<<i, Down(a, WORD - i)>> : i \in top}
            OBVIOUS
        <3> HIDE DEF top, e
        <3> QED
            BY <3>1, Zenon DEF Upper, XorOver
    <2> QED
        BY <2>2, <2>5, <2>6, <2>7, <2>8, <2>9 DEF S
<1>2. /\ c \in SUBSET (0 .. WORD - WINDOW - 1) /\ BitSet(a) /\ BitSet(w) /\ BitSet(c) /\ BitSet(top)
      /\ w = c (+) top
    <2>1. c \subseteq w /\ top \subseteq w
        OBVIOUS
    <2>2. BitSet(a) /\ BitSet(w) /\ BitSet(c) /\ BitSet(top)
        BY <2>1, WordBits
    <2>3. \A q : q \in w <=> q \in c (+) top
        <3>1. \A q \in w : q \in 0 .. WORD - 1 /\ (q \in 0 .. WORD - WINDOW - 1 <=> ~(q \in WORD - WINDOW .. WORD - 1))
            BY DEF Word
        <3>2. \A q : q \in c (+) top <=> ~(q \in c <=> q \in top)
            BY DEF (+)
        <3> QED
            BY <3>1, <3>2
    <2> QED
        BY <2>2, <2>3
<1>3. S \in SUBSET Int /\ R \in SUBSET Int /\ IsFiniteSet(S) /\ IsFiniteSet(R)
    <2>1. WORD \div WINDOW \in Nat
        BY WindowsFill
    <2> QED
        BY <2>1, WindowsFinite, FS_Subset
<1>4. /\ \A i \in S : f[i] \in SUBSET Int
      /\ \A i \in R : f[i] \in SUBSET Int
      /\ \A k \in top : e[k] \in SUBSET Int
    BY DEF Conv, Word
<1>5. ASSUME NEW q \in Int
      PROVE  ~(Odd(Sums(S, f, q)) <=> Odd(Sums(top, e, q))) <=> q \in Conv(a, w)
    <2>1. Sums(S, f, q) = Partial(a, c, WORD \div WINDOW, q)
        BY DEF Sums, Partial
    <2>2. Odd(Sums(S, f, q)) <=> q \in Conv(a, c)
        BY <1>2, <2>1, AllWindows DEF Conv
    <2>3. Sums(top, e, q) = Ways(top, a, q)
        BY DEF Sums, Ways
    <2>4. Odd(Sums(top, e, q)) <=> q \in Conv(a, top)
        <3>1. Conv(top, a) = Conv(a, top)
            BY <1>2, WaysCommute
        <3> QED
            BY <2>3, <3>1 DEF Conv
    <2>5. Conv(a, w) = Conv(a, c) (+) Conv(a, top)
        BY <1>2, Linear
    <2>6. q \in Conv(a, c) (+) Conv(a, top) <=> ~(q \in Conv(a, c) <=> q \in Conv(a, top))
        BY DEF (+)
    <2> QED
        BY <2>2, <2>4, <2>5, <2>6
<1>6. ASSUME NEW q \in Int, q >= WORD PROVE Sums(R, f, q) = Sums(S, f, q)
    <2>1. q - 0 \notin Conv(Window(a, 0), c)
        <3>1. ASSUME NEW j \in Window(a, 0), (q - 0) - j \in c PROVE FALSE
            BY <1>6, <3>1 DEF Window
        <3>2. Ways(Window(a, 0), c, q - 0) = {}
            BY <3>1 DEF Ways
        <3> QED
            BY <3>2, NoneIsEven DEF Conv
    <2> QED
        BY <2>1 DEF Sums
<1> HIDE DEF c, top, S, R, f, e
<1>7. \A A, V, q : q \in A (+) V <=> ~(q \in A <=> q \in V)
    BY DEF (+)
<1>8. ASSUME NEW q PROVE q \in low <=> q \in Int /\ q < WORD /\ q \in Conv(a, w)
    <2>1. q \in Lower(S, f) <=> q \in Int /\ q < WORD /\ Odd(Sums(S, f, q))
        BY <1>3, <1>4, LowerBits
    <2>2. q \in Lower(top, e) <=> q \in Int /\ q < WORD /\ Odd(Sums(top, e, q))
        BY <1>2, <1>4, LowerBits DEF BitSet
    <2> QED
        BY <1>5, <1>7, <2>1, <2>2
<1>9. ASSUME NEW q PROVE q \in high <=> q \in Int /\ q >= 0 /\ q + WORD \in Conv(a, w)
    <2>1. q \in Upper(R, f) <=> q \in Int /\ q >= 0 /\ Odd(Sums(R, f, q + WORD))
        BY <1>3, <1>4, UpperBits
    <2>2. q \in Upper(top, e) <=> q \in Int /\ q >= 0 /\ Odd(Sums(top, e, q + WORD))
        BY <1>2, <1>4, UpperBits DEF BitSet
    <2>3. q \in Int /\ q >= 0 => q + WORD \in Int /\ q + WORD >= WORD
        OBVIOUS
    <2>4. q \in Int /\ q >= 0 => Sums(R, f, q + WORD) = Sums(S, f, q + WORD)
        BY <1>6, <2>3
    <2> QED
        BY <1>5, <1>7, <2>1, <2>2, <2>3, <2>4
<1> HIDE DEF low, high
<1>10. base_mul(a, w)[1] = low /\ base_mul(a, w)[2] = high
    BY <1>1
<1> QED
    BY <1>8, <1>9, <1>10

(* The parameters the multiplication needs.                                *)
SizesFit == WordFits /\ PARAM_N \in Nat \ {0}

(* Bits of an array of words, by word and place.                           *)
LEMMA Digits ==
    ASSUME WordFits, NEW i \in Int, NEW p \in 0 .. WORD - 1
    PROVE  (WORD * i + p) \div WORD = i /\ (WORD * i + p) % WORD = p
<1> DEFINE e == WORD * i + p
           d == e \div WORD
           m == e % WORD
<1>1. e \in Int /\ d \in Int /\ m \in 0 .. WORD - 1 /\ e = WORD * d + m
    BY SMT DEF WordFits
<1> HIDE DEF d, m
<1>2. d - i \in Int /\ WORD * (d - i) = p - m
    BY <1>1, SMT DEF WordFits
<1>3. p - m < WORD /\ m - p < WORD
    BY <1>1, SMT DEF WordFits
<1>4. ~(d - i >= 1)
    BY <1>2, <1>3, SMT DEF WordFits
<1>5. ~(d - i <= -1)
    <2> SUFFICES ASSUME d - i <= -1 PROVE FALSE
        OBVIOUS
    <2>1. WORD * (d - i) <= WORD * (-1)
        BY <1>2, Monotone DEF WordFits
    <2>2. WORD * (-1) = -WORD
        BY SMT DEF WordFits
    <2> QED
        BY <1>1, <1>2, <1>3, <2>1, <2>2, SMT DEF WordFits
<1>6. d = i
    BY <1>1, <1>2, <1>4, <1>5, SMT
<1> QED
    BY <1>1, <1>6, SMT DEF d, m, WordFits

LEMMA ByDigits ==
    ASSUME WordFits, NEW e \in Int
    PROVE  /\ e \div WORD \in Int /\ e % WORD \in 0 .. WORD - 1
           /\ e = WORD * (e \div WORD) + (e % WORD)
BY SMT DEF WordFits

(* The polynomial in the n words of mem from x on.                         *)
Value(mem, x, n) == {e \in Nat : e \div WORD < n /\ e % WORD \in mem[x + (e \div WORD)]}

LEMMA QuotientBelow ==
    ASSUME WordFits, NEW e \in Nat, NEW n \in Nat
    PROVE  e \div WORD \in Nat /\ (e \div WORD < n <=> e < WORD * n)
<1> DEFINE d == e \div WORD
           m == e % WORD
<1>1. d \in Int /\ m \in 0 .. WORD - 1 /\ e = WORD * d + m
    BY ByDigits
<1> HIDE DEF d, m
<1>2. ~(d <= -1)
    BY <1>1, SMT DEF WordFits
<1>3. d < n => e < WORD * n
    <2> SUFFICES ASSUME d < n PROVE e < WORD * n
        OBVIOUS
    <2>1. WORD * (d + 1) <= WORD * n
        BY <1>1, SMT DEF WordFits
    <2> QED
        BY <1>1, <2>1, SMT DEF WordFits
<1>4. d >= n => e >= WORD * n
    <2> SUFFICES ASSUME d >= n PROVE e >= WORD * n
        OBVIOUS
    <2>1. WORD * d >= WORD * n
        BY <1>1, SMT DEF WordFits
    <2> QED
        BY <1>1, <2>1, SMT DEF WordFits
<1>5. d \in Nat
    BY <1>1, <1>2, SMT
<1> HIDE DEF WordFits
<1>6. (d < n <=> e < WORD * n)
    <2>1. WORD * n \in Int
        BY SMT DEF WordFits
    <2>2. (d < n \/ d >= n) /\ ~(e < WORD * n /\ e >= WORD * n)
        BY <2>1, <1>5, SMT
    <2> QED
        BY <1>3, <1>4, <2>2
<1> QED
    BY <1>5, <1>6 DEF d

LEMMA ShiftedDigits ==
    ASSUME WordFits, NEW e \in Int, NEW n \in Int
    PROVE  /\ e - WORD * n \in Int
           /\ (e - WORD * n) \div WORD = (e \div WORD) - n /\ (e - WORD * n) % WORD = e % WORD
<1> DEFINE d == e \div WORD
           m == e % WORD
<1>1. d \in Int /\ m \in 0 .. WORD - 1 /\ e = WORD * d + m
    BY ByDigits
<1> HIDE DEF d, m
<1>2. e - WORD * n = WORD * (d - n) + m
    BY <1>1, SMT DEF WordFits
<1>3. e - WORD * n \in Int /\ d - n \in Int
    BY <1>1, SMT DEF WordFits
<1>4. (WORD * (d - n) + m) \div WORD = d - n /\ (WORD * (d - n) + m) % WORD = m
    BY <1>1, <1>3, Digits
<1> QED
    BY <1>2, <1>3, <1>4 DEF d, m

LEMMA ValueIsBits ==
    ASSUME WordFits, NEW mem, NEW x, NEW n \in Nat
    PROVE  BitSet(Value(mem, x, n)) /\ \A e \in Value(mem, x, n) : e \in 0 .. WORD * n - 1
<1>1. \A e \in Value(mem, x, n) : e \in Nat /\ e < WORD * n
    BY QuotientBelow DEF Value
<1>2. WORD * n \in Int
    BY SMT DEF WordFits
<1>3. \A e \in Value(mem, x, n) : e \in 0 .. WORD * n - 1
    BY <1>1, <1>2
<1>4. PICK lo \in Int, hi \in Int : lo = 0 /\ hi = WORD * n - 1
    BY <1>2
<1>5. Value(mem, x, n) \in SUBSET (lo .. hi)
    BY <1>3, <1>4
<1> QED
    BY <1>3, <1>5, FiniteInterval

(* The words from x on and those from x + n on.                            *)
LEMMA ValueSplits ==
    ASSUME WordFits, NEW mem, NEW x \in Nat, NEW n \in Nat, NEW k \in Nat,
           NEW y, y = x + n, NEW all, all = n + k
    PROVE  Value(mem, x, all) = Value(mem, x, n) (+) Up(Value(mem, y, k), WORD * n)
<1> DEFINE A == Value(mem, x, n)
           B == Value(mem, y, k)
<1>1. WORD * n \in Int /\ B \in SUBSET Int
    BY SMT DEF WordFits, Value
<1> SUFFICES ASSUME NEW e
             PROVE  e \in Value(mem, x, all) <=> e \in A (+) Up(B, WORD * n)
    OBVIOUS
<1>2. e \in Up(B, WORD * n) <=> e \in Int /\ e - WORD * n \in B
    BY <1>1, Shifted
<1>3. CASE e \notin Nat
    <2>1. e \notin A /\ e \notin Value(mem, x, all)
        BY <1>3 DEF Value
    <2>2. e \in Int => e - WORD * n \notin Nat
        BY <1>3, SMT DEF WordFits
    <2>3. e \in Int => e - WORD * n \notin B
        BY <2>2 DEF Value
    <2> QED
        BY <1>2, <2>1, <2>3 DEF (+)
<1>4. CASE e \in Nat
    <2> DEFINE d == e \div WORD
               m == e % WORD
    <2>1. d \in Nat /\ (d < n <=> e < WORD * n)
        BY <1>4, QuotientBelow
    <2>2. /\ e - WORD * n \in Int
          /\ (e - WORD * n) \div WORD = d - n /\ (e - WORD * n) % WORD = m
        BY <1>4, ShiftedDigits
    <2>3. e - WORD * n \in B <=> ~(e < WORD * n) /\ d - n < k /\ m \in mem[y + (d - n)]
        <3>1. e - WORD * n \in Nat <=> ~(e < WORD * n)
            BY <1>1, <2>2, <1>4
        <3> QED
            BY <2>2, <3>1 DEF Value
    <2>4. e \in A <=> d < n /\ m \in mem[x + d]
        BY <1>4 DEF Value
    <2>5. e \in Value(mem, x, all) <=> d < all /\ m \in mem[x + d]
        BY <1>4 DEF Value
    <2> HIDE DEF d, m, A, B
    <2>6. y + (d - n) = x + d /\ (d < n => d < all) /\ (d - n < k <=> d < all)
        BY <2>1
    <2>7. e \in A (+) Up(B, WORD * n) <=> ~(e \in A <=> e \in Up(B, WORD * n))
        BY DEF (+)
    <2> QED
        BY <1>2, <1>4, <2>1, <2>3, <2>4, <2>5, <2>6, <2>7
<1> QED
    BY <1>3, <1>4

LEMMA Sizes ==
    ASSUME SizesFit
    PROVE  /\ VEC_N_SIZE_64 \in Nat \ {0} /\ MemorySize \in Nat
           /\ MemorySize = 12 * VEC_N_SIZE_64 /\ 0 \in 0 .. WORD - 1
<1>1. (PARAM_N + WORD - 1) \in Int /\ PARAM_N + WORD - 1 >= WORD
    BY SMT DEF SizesFit, WordFits
<1>2. ASSUME NEW e \in Int, e >= WORD PROVE e \div WORD \in Nat \ {0}
    <2>1. e \in Nat /\ e \div WORD \in Int /\ e % WORD \in 0 .. WORD - 1
          /\ e = WORD * (e \div WORD) + (e % WORD)
        BY <1>2, ByDigits, SMT DEF SizesFit, WordFits
    <2>2. e \div WORD \in Nat
        BY <2>1, QuotientBelow DEF SizesFit
    <2>3. e \div WORD # 0
        BY <1>2, <2>1, SMT DEF SizesFit, WordFits
    <2> QED
        BY <2>2, <2>3
<1>3. VEC_N_SIZE_64 \in Nat \ {0}
    BY <1>1, <1>2 DEF VEC_N_SIZE_64, Words
<1> QED
    BY <1>3, SMT DEF MemorySize, SizesFit, WordFits

(* The n words of g put into mem from x on.                                *)
Stored(mem, x, n, g) == Put(mem, x, n, LAMBDA i : g[i])

(* The n words of mem from x on are words.                                 *)
AreWords(mem, x, n) == \A k \in x .. x + n - 1 : mem[k] \in Word

LEMMA StoredIs ==
    ASSUME SizesFit, NEW mem \in Memories, NEW x \in Nat, NEW n \in Nat, NEW g,
           \A i \in 0 .. n - 1 : g[i] \in Word, x + n <= 2 * MemorySize
    PROVE  /\ Stored(mem, x, n, g) \in Memories
           /\ \A i \in 0 .. n - 1 : Stored(mem, x, n, g)[x + i] = g[i]
           /\ \A k \in 0 .. 2 * MemorySize - 1 :
                  k \notin x .. x + n - 1 => Stored(mem, x, n, g)[k] = mem[k]
           /\ AreWords(Stored(mem, x, n, g), x, n)
<1> DEFINE r == Stored(mem, x, n, g)
           top == 2 * MemorySize - 1
           Cell == SUBSET (-1 .. WORD - 1)
<1>1. MemorySize \in Nat
    BY Sizes
<1>2. r = [k \in 0 .. top |-> IF k \in x .. x + n - 1 THEN g[k - x] ELSE mem[k]]
    <2>1. DOMAIN mem = 0 .. top
        BY DEF Memories
    <2> QED
        BY <2>1 DEF Stored, Put
<1>3. \A k \in 0 .. top : mem[k] \in Cell
    BY DEF Memories
<1>4. \A i \in 0 .. n - 1 : g[i] \in Cell
    BY SMT DEF Word, SizesFit, WordFits
<1>5. \A k \in x .. x + n - 1 : k - x \in 0 .. n - 1
    OBVIOUS
<1> HIDE DEF r, Cell
<1>6. \A k \in 0 .. top : r[k] \in Cell
    BY <1>2, <1>3, <1>4, <1>5
<1>7. r \in [0 .. top -> Cell]
    BY <1>2, <1>6
<1>8. ASSUME NEW i \in 0 .. n - 1 PROVE r[x + i] = g[i]
    <2>1. x + i \in 0 .. top /\ x + i \in x .. x + n - 1 /\ (x + i) - x = i
        BY <1>1
    <2> QED
        BY <1>2, <2>1
<1>9. \A k \in 0 .. top : k \notin x .. x + n - 1 => r[k] = mem[k]
    BY <1>2
<1>10. AreWords(r, x, n)
    <2> SUFFICES ASSUME NEW k \in x .. x + n - 1 PROVE r[k] \in Word
        BY DEF AreWords
    <2>1. k - x \in 0 .. n - 1 /\ x + (k - x) = k
        OBVIOUS
    <2> QED
        BY <1>8, <2>1
<1> QED
    BY <1>7, <1>8, <1>9, <1>10 DEF r, Cell, Memories

(* Two memories are the same in n words from x on.                         *)
SameIn(mem, r, x, n) == \A k \in x .. x + n - 1 : mem[k] = r[k]

(* The value in a part of the memory depends on that part only.            *)
LEMMA ValueAlike ==
    ASSUME WordFits, NEW mem, NEW r, NEW x \in Nat, NEW n \in Nat, SameIn(mem, r, x, n)
    PROVE  Value(mem, x, n) = Value(r, x, n)
<1> SUFFICES ASSUME NEW e \in Nat, e \div WORD < n
             PROVE  mem[x + (e \div WORD)] = r[x + (e \div WORD)]
    BY DEF Value
<1>1. e \div WORD \in Nat
    BY QuotientBelow
<1> QED
    BY <1>1 DEF SameIn

(* The n words of r from z on are those of mem from x on, with the first k *)
(* of g from y on added to them.                                                          *)
AddedUp(r, z, n, mem, x, g, y, k) ==
    \A i \in 0 .. n - 1 : r[z + i] = IF i < k THEN mem[x + i] (+) g[y + i] ELSE mem[x + i]

(* The value of a sum is the sum of the values.                            *)
LEMMA ValueSums ==
    ASSUME WordFits, NEW r, NEW z \in Nat, NEW n \in Nat, NEW mem, NEW x \in Nat, NEW g, NEW y \in Nat,
           NEW k \in Nat, k <= n, AddedUp(r, z, n, mem, x, g, y, k)
    PROVE  Value(r, z, n) = Value(mem, x, n) (+) Value(g, y, k)
<1> SUFFICES ASSUME NEW e
             PROVE  e \in Value(r, z, n) <=> e \in Value(mem, x, n) (+) Value(g, y, k)
    OBVIOUS
<1>1. \A A, B : e \in A (+) B <=> ~(e \in A <=> e \in B)
    BY DEF (+)
<1>2. CASE e \notin Nat \/ (e \in Nat /\ ~(e \div WORD < n))
    <2>1. e \in Nat => e \div WORD \in Nat
        BY QuotientBelow
    <2>2. e \notin Value(r, z, n) /\ e \notin Value(mem, x, n) /\ e \notin Value(g, y, k)
        BY <1>2, <2>1 DEF Value
    <2> QED
        BY <1>1, <2>2
<1>3. CASE e \in Nat /\ e \div WORD < n
    <2> DEFINE d == e \div WORD
               m == e % WORD
    <2>1. d \in 0 .. n - 1
        BY <1>3, QuotientBelow
    <2>2. /\ e \in Value(r, z, n) <=> m \in r[z + d]
          /\ e \in Value(mem, x, n) <=> m \in mem[x + d]
          /\ e \in Value(g, y, k) <=> d < k /\ m \in g[y + d]
        BY <1>3 DEF Value
    <2> HIDE DEF d, m
    <2>4. r[z + d] = IF d < k THEN mem[x + d] (+) g[y + d] ELSE mem[x + d]
        BY <2>1 DEF AddedUp
    <2>3. m \in mem[x + d] (+) g[y + d] <=> ~(m \in mem[x + d] <=> m \in g[y + d])
        BY DEF (+)
    <2> QED
        BY <1>1, <2>1, <2>2, <2>3, <2>4
<1> QED
    BY <1>2, <1>3

LEMMA SumOfWords ==
    ASSUME NEW a \in Word, NEW b \in Word
    PROVE  a (+) b \in Word
BY DEF Word, (+)

(* Where karatsuba_add1 is called, and what it has done                    *)
CanAdd1(mem, alh, blh, a, b, l, h) ==
    /\ mem \in Memories /\ {alh, blh, a, b, l, h} \subseteq Nat
    /\ h <= l /\ l <= h + 1
    /\ a + l + h <= b /\ b + l + h <= alh /\ blh = alh + l /\ blh + l <= 2 * MemorySize
    /\ AreWords(mem, a, l + h) /\ AreWords(mem, b, l + h)

HasAdded1(r, mem, alh, blh, a, b, l, h) ==
    /\ r \in Memories
    /\ \A k \in 0 .. 2 * MemorySize - 1 : k \notin alh .. alh + 2*l - 1 => r[k] = mem[k]
    /\ AreWords(r, alh, l) /\ AreWords(r, blh, l)
    /\ Value(r, alh, l) = Value(mem, a, l) (+) Value(mem, a + l, h)
    /\ Value(r, blh, l) = Value(mem, b, l) (+) Value(mem, b + l, h)

(* karatsuba_add1 puts the sums of the two parts of either factor behind   *)
(* one another.                                                            *)
LEMMA Add1 ==
    ASSUME SizesFit, NEW mem, NEW alh, NEW blh, NEW a, NEW b, NEW l, NEW h,
           CanAdd1(mem, alh, blh, a, b, l, h)
    PROVE  HasAdded1(karatsuba_add1(mem, alh, blh, a, b, l, h), mem, alh, blh, a, b, l, h)
<1> USE DEF CanAdd1
<1>0. PICK r : r = karatsuba_add1(mem, alh, blh, a, b, l, h)
    OBVIOUS
<1> DEFINE sum(x, i) == IF i < h THEN mem[x + i] (+) mem[x + i + l] ELSE mem[x + i]
           ga == [i \in 0 .. l - 1 |-> sum(a, i)]
           gb == [i \in 0 .. l - 1 |-> sum(b, i)]
           top == 2 * MemorySize - 1
<1>1. MemorySize \in Nat /\ WordFits
    BY Sizes DEF SizesFit
<1>2. \A x \in {a, b} : \A i \in 0 .. l - 1 : sum(x, i) \in Word
    <2> SUFFICES ASSUME NEW x \in {a, b}, NEW i \in 0 .. l - 1 PROVE sum(x, i) \in Word
        OBVIOUS
    <2>1. AreWords(mem, x, l + h) /\ x \in Nat
        OBVIOUS
    <2>2. mem[x + i] \in Word
        <3>1. x + i \in x .. x + (l + h) - 1
            BY <2>1
        <3> QED
            BY <2>1, <3>1 DEF AreWords
    <2>3. CASE i < h
        <3>1. x + i + l \in x .. x + (l + h) - 1
            BY <2>1, <2>3
        <3>2. mem[x + i + l] \in Word
            BY <2>1, <3>1 DEF AreWords
        <3> QED
            BY <2>2, <2>3, <3>2, SumOfWords
    <2> QED
        BY <2>2, <2>3
<1>3. \A i \in 0 .. l - 1 : ga[i] \in Word /\ gb[i] \in Word
    BY <1>2
<1> DEFINE p == Stored(mem, alh, l, ga)
<1>4. Put(mem, alh, l, LAMBDA i : sum(a, i)) = p
    <2>1. \A k \in alh .. alh + l - 1 : k - alh \in 0 .. l - 1
        OBVIOUS
    <2>2. \A k : k \in alh .. alh + l - 1 => ga[k - alh] = sum(a, k - alh)
        BY <2>1
    <2> HIDE DEF ga, sum
    <2> QED
        BY <2>2, Zenon DEF Put, Stored
<1>5. r = Stored(p, blh, l, gb)
    <2>1. r = Put(Put(mem, alh, l, LAMBDA i : sum(a, i)), blh, l, LAMBDA i : sum(b, i))
        BY <1>0 DEF karatsuba_add1
    <2>2. \A k \in blh .. blh + l - 1 : k - blh \in 0 .. l - 1
        OBVIOUS
    <2>3. \A k : k \in blh .. blh + l - 1 => gb[k - blh] = sum(b, k - blh)
        BY <2>2
    <2> HIDE DEF gb, p
    <2>4. r = Put(p, blh, l, LAMBDA i : sum(b, i))
        BY <1>4, <2>1
    <2> HIDE DEF sum
    <2> QED
        BY <2>3, <2>4, Zenon DEF Put, Stored
<1> HIDE DEF ga, gb, p, sum
<1>6. /\ p \in Memories
      /\ \A i \in 0 .. l - 1 : p[alh + i] = ga[i]
      /\ \A k \in 0 .. top : k \notin alh .. alh + l - 1 => p[k] = mem[k]
      /\ AreWords(p, alh, l)
    <2>1. alh + l <= 2 * MemorySize
        BY <1>1
    <2> QED
        BY <1>3, <2>1, StoredIs DEF p
<1>7. /\ r \in Memories
      /\ \A i \in 0 .. l - 1 : r[blh + i] = gb[i]
      /\ \A k \in 0 .. top : k \notin blh .. blh + l - 1 => r[k] = p[k]
      /\ AreWords(r, blh, l)
    BY <1>3, <1>5, <1>6, StoredIs
<1>8. \A k \in alh .. alh + l - 1 : k \in 0 .. top /\ k \notin blh .. blh + l - 1
    BY <1>1
<1>9. \A i \in 0 .. l - 1 : r[alh + i] = ga[i]
    <2> SUFFICES ASSUME NEW i \in 0 .. l - 1 PROVE r[alh + i] = ga[i]
        OBVIOUS
    <2>1. alh + i \in alh .. alh + l - 1
        OBVIOUS
    <2> QED
        BY <1>6, <1>7, <1>8, <2>1
<1>10. AreWords(r, alh, l)
    BY <1>6, <1>7, <1>8 DEF AreWords
<1>11. \A k \in 0 .. top : k \notin alh .. alh + 2*l - 1 => r[k] = mem[k]
    <2>1. \A k \in 0 .. top : k \notin alh .. alh + 2*l - 1 =>
              k \notin alh .. alh + l - 1 /\ k \notin blh .. blh + l - 1
        OBVIOUS
    <2> QED
        BY <1>6, <1>7, <2>1
<1>12. /\ \A i \in 0 .. l - 1 :
              r[alh + i] = IF i < h THEN mem[a + i] (+) mem[(a + l) + i] ELSE mem[a + i]
       /\ \A i \in 0 .. l - 1 :
              r[blh + i] = IF i < h THEN mem[b + i] (+) mem[(b + l) + i] ELSE mem[b + i]
    <2>1. \A i \in 0 .. l - 1 : (a + l) + i = a + i + l /\ (b + l) + i = b + i + l
        OBVIOUS
    <2> QED
        BY <1>7, <1>9, <2>1 DEF ga, gb, sum
<1>13. Value(r, alh, l) = Value(mem, a, l) (+) Value(mem, a + l, h)
    <2>1. PICK y \in Nat : y = a + l
        OBVIOUS
    <2>3. AddedUp(r, alh, l, mem, a, mem, y, h)
        BY <1>12, <2>1 DEF AddedUp
    <2>2. Value(r, alh, l) = Value(mem, a, l) (+) Value(mem, y, h)
        BY <1>1, <2>3, ValueSums
    <2> QED
        BY <2>1, <2>2
<1>14. Value(r, blh, l) = Value(mem, b, l) (+) Value(mem, b + l, h)
    <2>1. PICK y \in Nat : y = b + l
        OBVIOUS
    <2>3. AddedUp(r, blh, l, mem, b, mem, y, h)
        BY <1>12, <2>1 DEF AddedUp
    <2>2. Value(r, blh, l) = Value(mem, b, l) (+) Value(mem, y, h)
        BY <1>1, <2>3, ValueSums
    <2> QED
        BY <2>1, <2>2
<1> QED
    BY <1>0, <1>7, <1>10, <1>11, <1>13, <1>14 DEF HasAdded1

(* r is mem with the n words of g added to those from o + l on.            *)
AddedAt(r, mem, o, N, g, l, n) ==
    /\ \A i \in 0 .. n - 1 : r[o + l + i] = mem[o + l + i] (+) g[i]
    /\ \A d \in 0 .. N - 1 : d < l \/ d >= l + n => r[o + d] = mem[o + d]

(* The value is added to theirs, shifted.                                  *)
LEMMA ValueAdds ==
    ASSUME WordFits, NEW r, NEW mem, NEW g, NEW o \in Nat, NEW l \in Nat, NEW n \in Nat, NEW N \in Nat,
           l + n <= N, AddedAt(r, mem, o, N, g, l, n)
    PROVE  Value(r, o, N) = Value(mem, o, N) (+) Up(Value(g, 0, n), WORD * l)
<1> DEFINE A == Value(mem, o, N)
           M == Value(g, 0, n)
<1> SUFFICES ASSUME NEW e PROVE e \in Value(r, o, N) <=> e \in A (+) Up(M, WORD * l)
    OBVIOUS
<1>1. M \in SUBSET Int /\ WORD * l \in Int
    BY SMT DEF Value, WordFits
<1>2. e \in Up(M, WORD * l) <=> e \in Int /\ e - WORD * l \in M
    BY <1>1, Shifted
<1>3. \A X, Y, z : z \in X (+) Y <=> ~(z \in X <=> z \in Y)
    BY DEF (+)
<1>4. CASE e \notin Nat
    <2>1. e \notin Value(r, o, N) /\ e \notin A
        BY <1>4 DEF Value
    <2>2. e \in Int => e - WORD * l \notin Nat
        BY <1>4, SMT DEF WordFits
    <2>3. e \in Int => e - WORD * l \notin M
        BY <2>2 DEF Value
    <2> QED
        BY <1>2, <1>3, <2>1, <2>3
<1>5. CASE e \in Nat
    <2> DEFINE d == e \div WORD
               m == e % WORD
    <2>1. d \in Nat /\ (d < l <=> e < WORD * l)
        BY <1>5, QuotientBelow
    <2>2. /\ e - WORD * l \in Int
          /\ (e - WORD * l) \div WORD = d - l /\ (e - WORD * l) % WORD = m
        <3>1. e \in Int /\ l \in Int
            BY <1>5
        <3> HIDE DEF d, m
        <3>2. /\ e - WORD * l \in Int
              /\ (e - WORD * l) \div WORD = (e \div WORD) - l /\ (e - WORD * l) % WORD = e % WORD
            BY <3>1, ShiftedDigits
        <3> QED
            BY <3>2 DEF d, m
    <2>3. /\ e \in Value(r, o, N) <=> d < N /\ m \in r[o + d]
          /\ e \in A <=> d < N /\ m \in mem[o + d]
        BY <1>5 DEF Value
    <2>4. e - WORD * l \in M <=> ~(d < l) /\ d - l < n /\ m \in g[0 + (d - l)]
        <3>1. e - WORD * l \in Nat <=> ~(d < l)
            BY <1>1, <1>5, <2>1, <2>2
        <3> QED
            BY <2>2, <3>1 DEF Value
    <2> HIDE DEF d, m, A, M
    <2>5. CASE d - l \in 0 .. n - 1
        <3>1. o + l + (d - l) = o + d /\ 0 + (d - l) = d - l /\ d < N /\ ~(d < l) /\ d - l < n
            BY <2>1, <2>5
        <3>2. r[o + d] = mem[o + d] (+) g[d - l]
            BY <2>5, <3>1 DEF AddedAt
        <3> QED
            BY <1>2, <1>3, <1>5, <2>3, <2>4, <3>1, <3>2
    <2>6. CASE d - l \notin 0 .. n - 1
        <3>1. (d < l \/ d >= l + n) /\ ~(~(d < l) /\ d - l < n)
            BY <2>1, <2>6
        <3>2. d < N => r[o + d] = mem[o + d]
            BY <2>1, <3>1 DEF AddedAt
        <3> QED
            BY <1>2, <1>3, <1>5, <2>3, <2>4, <3>1, <3>2
    <2> QED
        BY <2>5, <2>6
<1> QED
    BY <1>4, <1>5

(* Where karatsuba_add2 is called, and what it has done                    *)
CanAdd2(mem, o, tmp1, tmp2, l, h) ==
    /\ mem \in Memories /\ {o, tmp1, tmp2, l, h} \subseteq Nat
    /\ h <= l /\ l <= 2 * h
    /\ tmp2 = o + 2*l /\ o + 2*(l + h) <= tmp1 /\ tmp1 + 2*l <= 2 * MemorySize
    /\ AreWords(mem, o, 2*(l + h)) /\ AreWords(mem, tmp1, 2*l)

HasAdded2(r, mem, o, tmp1, tmp2, l, h) ==
    /\ r \in Memories
    /\ \A k \in 0 .. 2 * MemorySize - 1 :
           k \notin tmp1 .. tmp1 + 2*l - 1 /\ k \notin o .. o + 2*(l + h) - 1 => r[k] = mem[k]
    /\ AreWords(r, o, 2*(l + h))
    /\ Value(r, o, 2*(l + h)) = Value(mem, o, 2*(l + h)) (+)
           Up((Value(mem, tmp1, 2*l) (+) Value(mem, o, 2*l)) (+) Value(mem, tmp2, 2*h), WORD * l)

(* karatsuba_add2 adds the middle product, with the lower and the upper    *)
(* product, size_l words above the lower one.                              *)
LEMMA Add2 ==
    ASSUME SizesFit, NEW mem, NEW o, NEW tmp1, NEW tmp2, NEW l, NEW h,
           CanAdd2(mem, o, tmp1, tmp2, l, h)
    PROVE  HasAdded2(karatsuba_add2(mem, o, tmp1, tmp2, l, h), mem, o, tmp1, tmp2, l, h)
<1> USE DEF CanAdd2
<1>0. PICK r : r = karatsuba_add2(mem, o, tmp1, tmp2, l, h)
    OBVIOUS
<1> DEFINE middle(i) == mem[tmp1 + i] (+) mem[o + i] (+) (IF i < 2 * h THEN mem[tmp2 + i] ELSE {})
           gm == [i \in 0 .. 2*l - 1 |-> middle(i)]
           go == [i \in 0 .. 2*l - 1 |-> mem[o + l + i] (+) middle(i)]
           top == 2 * MemorySize - 1
<1>1. MemorySize \in Nat /\ WordFits
    BY Sizes DEF SizesFit
<1>2. \A i \in 0 .. 2*l - 1 : middle(i) \in Word /\ mem[o + l + i] (+) middle(i) \in Word
    <2> SUFFICES ASSUME NEW i \in 0 .. 2*l - 1
                 PROVE  middle(i) \in Word /\ mem[o + l + i] (+) middle(i) \in Word
        OBVIOUS
    <2>1. mem[tmp1 + i] \in Word
        BY DEF AreWords
    <2>2. mem[o + i] \in Word /\ mem[o + l + i] \in Word
        <3>1. o + i \in o .. o + 2*(l + h) - 1 /\ o + l + i \in o .. o + 2*(l + h) - 1
            OBVIOUS
        <3> QED
            BY <3>1 DEF AreWords
    <2>3. (IF i < 2 * h THEN mem[tmp2 + i] ELSE {}) \in Word
        <3>1. CASE i < 2 * h
            <4>1. tmp2 + i \in o .. o + 2*(l + h) - 1
                BY <3>1
            <4> QED
                BY <3>1, <4>1 DEF AreWords
        <3>2. {} \in Word
            BY DEF Word
        <3> QED
            BY <3>1, <3>2
    <2> HIDE DEF AreWords
    <2> QED
        BY <2>1, <2>2, <2>3, SumOfWords
<1>3. \A i \in 0 .. 2*l - 1 : gm[i] \in Word /\ go[i] \in Word
    BY <1>2
<1> DEFINE p == Stored(mem, tmp1, 2*l, gm)
<1>4. Put(mem, tmp1, 2*l, LAMBDA i : middle(i)) = p
    <2>1. \A k \in tmp1 .. tmp1 + 2*l - 1 : k - tmp1 \in 0 .. 2*l - 1
        OBVIOUS
    <2>2. \A k : k \in tmp1 .. tmp1 + 2*l - 1 => gm[k - tmp1] = middle(k - tmp1)
        BY <2>1
    <2> HIDE DEF gm, middle
    <2> QED
        BY <2>2, Zenon DEF Put, Stored
<1>5. PICK w \in Nat : w = o + l
    OBVIOUS
<1>6. r = Stored(p, w, 2*l, go)
    <2>1. r = Put(Put(mem, tmp1, 2*l, LAMBDA i : middle(i)), o + l, 2*l,
                  LAMBDA i : mem[o + l + i] (+) middle(i))
        BY <1>0 DEF karatsuba_add2
    <2>2. \A k \in w .. w + 2*l - 1 : k - w \in 0 .. 2*l - 1
        OBVIOUS
    <2>3. \A k : k \in w .. w + 2*l - 1 => go[k - w] = mem[o + l + (k - w)] (+) middle(k - w)
        BY <2>2
    <2> HIDE DEF go, p
    <2>4. r = Put(p, w, 2*l, LAMBDA i : mem[o + l + i] (+) middle(i))
        BY <1>4, <1>5, <2>1
    <2> HIDE DEF middle
    <2> QED
        BY <2>3, <2>4, Zenon DEF Put, Stored
<1> HIDE DEF gm, go, p, middle
<1>7. PICK n \in Nat : n = 2*l
    OBVIOUS
<1>8. /\ p \in Memories
      /\ \A i \in 0 .. n - 1 : p[tmp1 + i] = gm[i]
      /\ \A k \in 0 .. top : k \notin tmp1 .. tmp1 + n - 1 => p[k] = mem[k]
    <2>1. tmp1 + n <= 2 * MemorySize
        BY <1>7
    <2>2. \A i \in 0 .. n - 1 : gm[i] \in Word
        BY <1>3, <1>7
    <2> QED
        BY <1>7, <2>1, <2>2, StoredIs DEF p
<1>9. /\ r \in Memories
      /\ \A i \in 0 .. n - 1 : r[w + i] = go[i]
      /\ \A k \in 0 .. top : k \notin w .. w + n - 1 => r[k] = p[k]
      /\ AreWords(r, w, n)
    <2>1. w + n <= 2 * MemorySize
        BY <1>1, <1>5, <1>7
    <2>2. \A i \in 0 .. n - 1 : go[i] \in Word
        BY <1>3, <1>7
    <2> QED
        BY <1>6, <1>7, <1>8, <2>1, <2>2, StoredIs
<1>10. \A k \in 0 .. top : k \notin tmp1 .. tmp1 + n - 1 /\ k \notin w .. w + n - 1 => r[k] = mem[k]
    BY <1>8, <1>9
<1>11. ASSUME NEW k \in 0 .. top,
              k \notin tmp1 .. tmp1 + 2*l - 1, k \notin o .. o + 2*(l + h) - 1
       PROVE  r[k] = mem[k]
    <2>1. k \notin w .. w + n - 1
        BY <1>5, <1>7, <1>11
    <2> QED
        BY <1>7, <1>10, <1>11, <2>1
<1>12. AreWords(r, o, 2*(l + h))
    <2> SUFFICES ASSUME NEW k \in o .. o + 2*(l + h) - 1 PROVE r[k] \in Word
        BY DEF AreWords
    <2>1. CASE k \in w .. w + n - 1
        BY <1>9, <2>1 DEF AreWords
    <2>2. CASE k \notin w .. w + n - 1
        <3>1. k \in 0 .. top /\ k \notin tmp1 .. tmp1 + n - 1
            BY <1>1, <1>7
        <3>2. mem[k] \in Word
            BY DEF AreWords
        <3> QED
            BY <1>10, <2>2, <3>1, <3>2
    <2> QED
        BY <2>1, <2>2
<1> DEFINE N == 2*(l + h)
           s == [i \in 0 .. n - 1 |-> mem[tmp1 + i] (+) mem[o + i]]
<1>13. Value(r, o, N) = Value(mem, o, N) (+) Up(Value(gm, 0, n), WORD * l)
    <2>1. N \in Nat /\ l + n <= N
        BY <1>7
    <2>2. \A i \in 0 .. n - 1 : r[o + l + i] = mem[o + l + i] (+) gm[i]
        BY <1>5, <1>7, <1>9 DEF gm, go
    <2>3. \A d \in 0 .. N - 1 : d < l \/ d >= l + n => r[o + d] = mem[o + d]
        <3> SUFFICES ASSUME NEW d \in 0 .. N - 1, d < l \/ d >= l + n PROVE r[o + d] = mem[o + d]
            OBVIOUS
        <3>1. o + d \in 0 .. top /\ o + d \notin tmp1 .. tmp1 + n - 1 /\ o + d \notin w .. w + n - 1
            BY <1>1, <1>5, <1>7
        <3> QED
            BY <1>10, <3>1
    <2>4. AddedAt(r, mem, o, N, gm, l, n)
        BY <2>2, <2>3 DEF AddedAt
    <2> HIDE DEF N
    <2> QED
        BY <1>1, <2>1, <2>4, ValueAdds
<1>14. Value(s, 0, n) = Value(mem, tmp1, n) (+) Value(mem, o, n)
    <2>1. AddedUp(s, 0, n, mem, tmp1, mem, o, n)
        BY DEF AddedUp
    <2> HIDE DEF s
    <2> QED
        BY <1>1, <2>1, ValueSums
<1>15. Value(gm, 0, n) = Value(s, 0, n) (+) Value(mem, tmp2, 2*h)
    <2>1. PICK k \in Nat : k = 2*h
        OBVIOUS
    <2>2. k <= n
        BY <1>7, <2>1
    <2>3. AddedUp(gm, 0, n, s, 0, mem, tmp2, k)
        <3> SUFFICES ASSUME NEW i \in 0 .. n - 1
                     PROVE  gm[0 + i] = IF i < k THEN s[0 + i] (+) mem[tmp2 + i] ELSE s[0 + i]
            BY DEF AddedUp
        <3>1. gm[i] = s[i] (+) (IF i < k THEN mem[tmp2 + i] ELSE {})
            BY <1>7, <2>1 DEF gm, middle
        <3>2. s[i] (+) {} = s[i]
            BY DEF (+)
        <3> QED
            BY <3>1, <3>2
    <2> HIDE DEF s
    <2> QED
        BY <1>1, <2>1, <2>2, <2>3, ValueSums
<1> QED
    BY <1>0, <1>7, <1>9, <1>11, <1>12, <1>13, <1>14, <1>15 DEF HasAdded2

(* The bits of a product are sums of bits of the factors.                  *)
LEMMA ConvBetween ==
    ASSUME NEW n \in Int, NEW k \in Int, NEW a \in SUBSET (0 .. n - 1), NEW b \in SUBSET (0 .. k - 1)
    PROVE  \A p \in Conv(a, b) : p \in 0 .. n + k - 2
<1> SUFFICES ASSUME NEW p \in Conv(a, b) PROVE p \in 0 .. n + k - 2
    OBVIOUS
<1>1. p \in Int /\ Ways(a, b, p) # {}
    BY NoneIsEven DEF Conv
<1>2. PICK i \in a : p - i \in b
    BY <1>1 DEF Ways
<1> QED
    BY <1>1, <1>2

(* The two words of base_mul, as words of an array, are the product.       *)
LEMMA ProductOfWords ==
    ASSUME WordFits, NEW a \in Word, NEW w \in Word
    PROVE  /\ base_mul(a, w)[1] \in Word /\ base_mul(a, w)[2] \in Word
           /\ \A r : \A o \in Nat : r[o] = base_mul(a, w)[1] /\ r[o + 1] = base_mul(a, w)[2] =>
                  Value(r, o, 2) = Conv(a, w)
<1> DEFINE c1 == base_mul(a, w)[1]
           c2 == base_mul(a, w)[2]
<1>1. WORD \in Int /\ WORD >= 1 /\ a \in SUBSET (0 .. WORD - 1) /\ w \in SUBSET (0 .. WORD - 1)
    BY DEF WordFits, Word
<1>2. \A p \in Conv(a, w) : p \in 0 .. WORD + WORD - 2
    BY <1>1, ConvBetween
<1>3. ASSUME NEW p
      PROVE  /\ p \in c1 <=> p \in Int /\ p < WORD /\ p \in Conv(a, w)
             /\ p \in c2 <=> p \in Int /\ p >= 0 /\ p + WORD \in Conv(a, w)
    BY BaseMulMultiplies
<1> HIDE DEF c1, c2
<1>4. c1 \in Word
    BY <1>1, <1>2, <1>3 DEF Word
<1>5. c2 \in Word
    <2> SUFFICES ASSUME NEW p \in c2 PROVE p \in 0 .. WORD - 1
        BY DEF Word
    <2>1. p \in Int /\ p >= 0 /\ p + WORD \in 0 .. WORD + WORD - 2
        BY <1>2, <1>3
    <2> QED
        BY <1>1, <2>1
<1>6. ASSUME NEW r, NEW o \in Nat, r[o] = c1, r[o + 1] = c2 PROVE Value(r, o, 2) = Conv(a, w)
    <2> SUFFICES ASSUME NEW e PROVE e \in Value(r, o, 2) <=> e \in Conv(a, w)
        OBVIOUS
    <2>1. CASE e \notin Nat
        BY <1>2, <2>1 DEF Value
    <2>2. CASE e \in Nat
        <3> DEFINE d == e \div WORD
                   m == e % WORD
        <3>1. d \in Nat /\ m \in 0 .. WORD - 1 /\ e = WORD * d + m /\ (d < 2 <=> e < WORD * 2)
            BY <2>2, ByDigits, QuotientBelow
        <3>2. e \in Value(r, o, 2) <=> d < 2 /\ m \in r[o + d]
            BY <2>2 DEF Value
        <3> HIDE DEF d, m
        <3>3. CASE d = 0
            <4>1. e = m /\ o + d = o /\ e < WORD
                BY <1>1, <3>1, <3>3
            <4> QED
                BY <1>3, <1>6, <2>2, <3>2, <3>3, <4>1
        <3>4. CASE d = 1
            <4>1. e = m + WORD /\ o + d = o + 1 /\ m >= 0 /\ m \in Int
                BY <1>1, <3>1, <3>4
            <4> QED
                BY <1>3, <1>6, <3>2, <3>4, <4>1
        <3>5. CASE d \notin {0, 1}
            <4>1. ~(d < 2)
                BY <3>1, <3>5
            <4>2. e >= WORD + WORD
                BY <1>1, <2>2, <3>1, <4>1
            <4> QED
                BY <1>1, <1>2, <2>2, <3>2, <4>1, <4>2
        <3> QED
            BY <3>3, <3>4, <3>5
    <2> QED
        BY <2>1, <2>2
<1> QED
    BY <1>4, <1>5, <1>6 DEF c1, c2

(* Sums in another order                                                   *)
LEMMA SumRules ==
    ASSUME NEW P, NEW Q, NEW X, NEW Y
    PROVE  /\ (P (+) X) (+) (Y (+) Q) = (P (+) Q) (+) (X (+) Y)
           /\ (((P (+) X) (+) (Y (+) Q)) (+) P) (+) Q = X (+) Y
<1>1. \A a, b, e : e \in a (+) b <=> ~(e \in a <=> e \in b)
    BY DEF (+)
<1>2. ASSUME NEW e
      PROVE  /\ e \in (P (+) X) (+) (Y (+) Q) <=> e \in (P (+) Q) (+) (X (+) Y)
             /\ e \in (((P (+) X) (+) (Y (+) Q)) (+) P) (+) Q <=> e \in X (+) Y
    <2>1. /\ e \in P (+) X <=> ~(e \in P <=> e \in X)
          /\ e \in Y (+) Q <=> ~(e \in Y <=> e \in Q)
          /\ e \in P (+) Q <=> ~(e \in P <=> e \in Q)
          /\ e \in X (+) Y <=> ~(e \in X <=> e \in Y)
        BY <1>1
    <2>2. /\ e \in (P (+) X) (+) (Y (+) Q) <=> ~(e \in P (+) X <=> e \in Y (+) Q)
          /\ e \in (P (+) Q) (+) (X (+) Y) <=> ~(e \in P (+) Q <=> e \in X (+) Y)
        BY <1>1
    <2>3. e \in ((P (+) X) (+) (Y (+) Q)) (+) P <=> ~(e \in (P (+) X) (+) (Y (+) Q) <=> e \in P)
        BY <1>1
    <2>4. e \in (((P (+) X) (+) (Y (+) Q)) (+) P) (+) Q <=>
              ~(e \in ((P (+) X) (+) (Y (+) Q)) (+) P <=> e \in Q)
        BY <1>1
    <2> QED
        BY <2>1, <2>2, <2>3, <2>4
<1> QED
    BY <1>2

(* A product by three products of sums of the halves.                      *)
LEMMA ThreeProducts ==
    ASSUME NEW AL, NEW AH, NEW BL, NEW BH, BitSet(AL), BitSet(AH), BitSet(BL), BitSet(BH),
           NEW k \in Int
    PROVE  Conv(AL (+) Up(AH, k), BL (+) Up(BH, k)) =
               (Conv(AL, BL) (+) Up(Conv(AH, BH), k + k))
                   (+) Up((Conv(AL (+) AH, BL (+) BH) (+) Conv(AL, BL)) (+) Conv(AH, BH), k)
<1> DEFINE P == Conv(AL, BL)
           Q == Conv(AH, BH)
           X == Conv(AL, BH)
           Y == Conv(AH, BL)
           H == Up(BH, k)
           B == BL (+) H
           C == BL (+) BH
<1>1. \A x, y : Conv(x, y) \in SUBSET Int
    BY DEF Conv
<1>2. BitSet(Up(AH, k)) /\ BitSet(H) /\ BitSet(B) /\ BitSet(C)
    BY UpIsBits, SumsAreBits
<1>3. Conv(AL (+) Up(AH, k), B) = (P (+) Up(X, k)) (+) (Up(Y, k) (+) Up(Q, k + k))
    <2>1. Conv(AL (+) Up(AH, k), B) = Conv(AL, B) (+) Conv(Up(AH, k), B)
        BY <1>2, Linear
    <2>2. Conv(AL, B) = P (+) Up(X, k)
        <3>1. Conv(AL, B) = P (+) Conv(AL, H)
            BY <1>2, Linear
        <3> QED
            BY <3>1, ShiftsFactor
    <2>3. Conv(Up(AH, k), B) = Up(Y, k) (+) Up(Q, k + k)
        <3>1. Conv(Up(AH, k), B) = Conv(Up(AH, k), BL) (+) Conv(Up(AH, k), H)
            BY <1>2, Linear
        <3>2. Conv(Up(AH, k), BL) = Up(Y, k)
            BY ShiftsFactor
        <3>3. Conv(Up(AH, k), H) = Up(Conv(AH, H), k)
            BY <1>2, ShiftsFactor
        <3>4. Conv(AH, H) = Up(Q, k)
            BY ShiftsFactor
        <3>5. Up(Up(Q, k), k) = Up(Q, k + k)
            BY <1>1, ShiftsAdd
        <3> QED
            BY <3>1, <3>2, <3>3, <3>4, <3>5
    <2> QED
        BY <2>1, <2>2, <2>3
<1>4. Conv(AL (+) AH, C) = (P (+) X) (+) (Y (+) Q)
    <2>1. Conv(AL (+) AH, C) = Conv(AL, C) (+) Conv(AH, C)
        BY <1>2, Linear
    <2>2. Conv(AL, C) = P (+) X /\ Conv(AH, C) = Y (+) Q
        BY Linear
    <2> QED
        BY <2>1, <2>2
<1> DEFINE M == (P (+) X) (+) (Y (+) Q)
<1>5. (M (+) P) (+) Q = X (+) Y
    BY SumRules
<1>6. Up(X (+) Y, k) = Up(X, k) (+) Up(Y, k)
    BY <1>1, ShiftsAdd
<1>7. (P (+) Up(X, k)) (+) (Up(Y, k) (+) Up(Q, k + k)) =
          (P (+) Up(Q, k + k)) (+) (Up(X, k) (+) Up(Y, k))
    BY SumRules
<1> HIDE DEF P, Q, X, Y
<1> QED
    BY <1>3, <1>4, <1>5, <1>6, <1>7 DEF P, Q, C, B

(* A set that has 0 and, up to N, the successor of what it has, has 0..N.  *)
LEMMA Climb ==
    ASSUME NEW N \in Nat, NEW T, 0 \in T, \A k \in 0 .. N - 1 : k \in T => k + 1 \in T
    PROVE  \A k \in 0..N : k \in T
<1> DEFINE Missing == {k \in 0..N : k \notin T}
<1> SUFFICES ASSUME Missing # {} PROVE FALSE
    OBVIOUS
<1>1. PICK n \in Missing : \A k \in Missing : n <= k
    <2>1. Missing \subseteq Nat
        OBVIOUS
    <2> HIDE DEF Missing
    <2> QED
        BY <2>1, Least
<1>2. n \in 1..N /\ n - 1 \in 0 .. N - 1 /\ ~(n <= n - 1)
    OBVIOUS
<1>3. n - 1 \in T
    BY <1>1, <1>2
<1> QED
    BY <1>2, <1>3

(* karatsuba for size words, by L for the larger and H for the smaller     *)
(* number of words.                                                        *)
Layer(size, L, H) ==
    [mem \in Memories |-> [o \in Nat |-> [a \in Nat |-> [b \in Nat |-> [stack \in Nat |->
        IF size = 1
        THEN LET c == base_mul(mem[a], mem[b]) IN Put(mem, o, 2, LAMBDA i : c[i + 1])
        ELSE LET size_h == size \div 2
                 size_l == (size + 1) \div 2
                 alh == stack
                 blh == alh + size_l
                 tmp1 == blh + size_l
                 tmp2 == o + 2 * size_l
                 free == stack + 4 * size_l
                 low == L[mem][o][a][b][free]
                 high == H[low][tmp2][a + size_l][b + size_l][free]
                 sums == karatsuba_add1(high, alh, blh, a, b, size_l, size_h)
                 mixed == L[sums][tmp1][alh][blh][free]
             IN  karatsuba_add2(mixed, o, tmp1, tmp2, size_l, size_h)]]]]]

LEMMA Halves ==
    ASSUME NEW n \in Nat, n > 1
    PROVE  /\ (n + 1) \div 2 \in 1 .. n - 1 /\ n \div 2 \in 1 .. n - 1
           /\ n = ((n + 1) \div 2) + (n \div 2)
           /\ n \div 2 <= (n + 1) \div 2 /\ (n + 1) \div 2 <= (n \div 2) + 1
BY SMT

LEMMA OneLayer ==
    ASSUME NEW L, NEW H, NEW L2, NEW H2
    PROVE  Layer(1, L, H) = Layer(1, L2, H2)
BY DEF Layer

(* karatsuba is what it is defined by.                                     *)
LEMMA KaratsubaIs ==
    ASSUME NEW words \in Nat \ {0}
    PROVE  \E f : /\ \A size \in 1..words : f[size] = Layer(size, f[(size + 1) \div 2], f[size \div 2])
                  /\ \A mem, o, a, b, stack :
                         karatsuba(mem, o, a, b, words, stack) = f[words][mem][o][a][b][stack]
<1> DEFINE Part(h, n) == h = [size \in 1..n |-> Layer(size, h[(size + 1) \div 2], h[size \div 2])]
           T == {k \in 0..words : \E h : Part(h, k)}
<1>1. 0 \in T
    <2> DEFINE h == [size \in 1..0 |-> {}]
    <2>1. h = [size \in 1..0 |-> Layer(size, h[(size + 1) \div 2], h[size \div 2])]
        OBVIOUS
    <2>2. Part(h, 0)
        BY <2>1
    <2> HIDE DEF Part, h
    <2> QED
        BY <2>2
<1>2. ASSUME NEW k \in 0 .. words - 1, k \in T PROVE k + 1 \in T
    <2>1. PICK h : Part(h, k)
        BY <1>2
    <2> DEFINE new == Layer(k + 1, h[(k + 2) \div 2], h[(k + 1) \div 2])
               g == [size \in 1 .. k + 1 |-> IF size = k + 1 THEN new ELSE h[size]]
    <2> HIDE DEF new
    <2>2. ASSUME NEW size \in 1 .. k + 1
          PROVE  g[size] = Layer(size, g[(size + 1) \div 2], g[size \div 2])
        <3>1. size \in Nat /\ k \in Nat
            OBVIOUS
        <3>2. CASE size = 1
            <4>1. g[size] = Layer(1, h[(size + 1) \div 2], h[size \div 2])
                <5>1. CASE k + 1 = 1
                    <6>1. g[size] = new /\ k + 2 = size + 1
                        BY <3>2, <5>1
                    <6> QED
                        BY <6>1, <3>2, <5>1 DEF new
                <5>2. CASE k + 1 # 1
                    <6>1. size \in 1..k /\ g[size] = h[size]
                        BY <3>1, <3>2, <5>2
                    <6>2. h[size] = Layer(size, h[(size + 1) \div 2], h[size \div 2])
                        BY <2>1, <6>1
                    <6> HIDE DEF Part, g
                    <6> QED
                        BY <6>1, <6>2, <3>2
                <5> QED
                    BY <5>1, <5>2
            <4>2. Layer(1, h[(size + 1) \div 2], h[size \div 2]) = Layer(1, g[(size + 1) \div 2], g[size \div 2])
                BY OneLayer
            <4> HIDE DEF g, Part
            <4> QED
                BY <4>1, <4>2, <3>2
        <3>3. CASE size > 1
            <4>1. (size + 1) \div 2 \in 1 .. size - 1 /\ size \div 2 \in 1 .. size - 1
                BY <3>1, <3>3, Halves
            <4>2. (size + 1) \div 2 \in 1..k /\ size \div 2 \in 1..k
                BY <3>1, <4>1
            <4>3. g[(size + 1) \div 2] = h[(size + 1) \div 2] /\ g[size \div 2] = h[size \div 2]
                <5> HIDE DEF Part
                <5>1. \A s \in 1..k : g[s] = h[s]
                    BY <3>1
                <5> QED
                    BY <4>2, <5>1
            <4>4. g[size] = Layer(size, h[(size + 1) \div 2], h[size \div 2])
                <5>1. CASE size = k + 1
                    <6>1. g[size] = new /\ k + 2 = size + 1
                        BY <5>1
                    <6> QED
                        BY <6>1, <5>1 DEF new
                <5>2. CASE size # k + 1
                    <6>1. size \in 1..k /\ g[size] = h[size]
                        BY <3>1, <5>2
                    <6>2. h[size] = Layer(size, h[(size + 1) \div 2], h[size \div 2])
                        BY <2>1, <6>1
                    <6> HIDE DEF Part, g
                    <6> QED
                        BY <6>1, <6>2
                <5> QED
                    BY <5>1, <5>2
            <4> HIDE DEF g, Part
            <4> QED
                BY <4>3, <4>4
        <3> QED
            BY <3>1, <3>2, <3>3
    <2>3. DOMAIN g = 1 .. k + 1 /\ g = [size \in 1 .. k + 1 |-> g[size]]
        OBVIOUS
    <2>4. g = [size \in 1 .. k + 1 |-> Layer(size, g[(size + 1) \div 2], g[size \div 2])]
        <3> HIDE DEF g, Part
        <3> QED
            BY <2>2, <2>3, Zenon
    <2>5. Part(g, k + 1) /\ k + 1 \in 0..words
        BY <2>4
    <2> HIDE DEF g, Part
    <2> QED
        BY <2>5
<1> HIDE DEF T
<1>3. words \in T
    BY <1>1, <1>2, Climb
<1>4. PICK h : Part(h, words)
    BY <1>3 DEF T
<1> DEFINE f == CHOOSE g : Part(g, words)
<1>5. Part(f, words)
    BY <1>4
<1>6. ASSUME NEW mem, NEW o, NEW a, NEW b, NEW stack
      PROVE  karatsuba(mem, o, a, b, words, stack) = f[words][mem][o][a][b][stack]
    BY DEF karatsuba, Layer
<1> HIDE DEF f
<1>7. \A size \in 1..words : f[size] = Layer(size, f[(size + 1) \div 2], f[size \div 2])
    BY <1>5
<1> HIDE DEF Part
<1> QED
    BY <1>6, <1>7

(* Where karatsuba is called: the factors, the product and the scratch     *)
(* space lie behind one another, and there is room for it.                 *)
Placed(mem, o, a, b, stack, n) ==
    /\ a + n <= b /\ b + n <= o /\ o + 2*n <= stack /\ stack + 8*(n - 1) <= MemorySize
    /\ AreWords(mem, a, n) /\ AreWords(mem, b, n)

(* What it has done when it returns with the memory r.                     *)
Multiplied(r, mem, o, a, b, stack, n) ==
    /\ r \in Memories
    /\ \A k \in 0 .. 2 * MemorySize - 1 :
           k \notin o .. o + 2*n - 1 /\ k \notin stack .. stack + 8*(n - 1) - 1 => r[k] = mem[k]
    /\ AreWords(r, o, 2*n)
    /\ Value(r, o, 2*n) = Conv(Value(mem, a, n), Value(mem, b, n))

Right(F, n) ==
    \A mem \in Memories : \A o, a, b, stack \in Nat :
        Placed(mem, o, a, b, stack, n) => Multiplied(F[mem][o][a][b][stack], mem, o, a, b, stack, n)

(* One word                                                                *)
LEMMA OneWord ==
    ASSUME SizesFit, NEW L, NEW H
    PROVE  Right(Layer(1, L, H), 1)
<1> SUFFICES ASSUME NEW mem \in Memories, NEW o \in Nat, NEW a \in Nat, NEW b \in Nat,
                    NEW stack \in Nat, Placed(mem, o, a, b, stack, 1)
             PROVE  Multiplied(Layer(1, L, H)[mem][o][a][b][stack], mem, o, a, b, stack, 1)
    BY DEF Right
<1> DEFINE c == base_mul(mem[a], mem[b])
           g == [i \in 0 .. 1 |-> c[i + 1]]
           r == Put(mem, o, 2, LAMBDA i : c[i + 1])
<1>1. MemorySize \in Nat /\ WordFits
    BY Sizes DEF SizesFit
<1>2. Layer(1, L, H)[mem][o][a][b][stack] = r
    BY Zenon DEF Layer
<1>3. mem[a] \in Word /\ mem[b] \in Word
    BY DEF Placed, AreWords
<1>4. c[1] \in Word /\ c[2] \in Word
    BY <1>1, <1>3, ProductOfWords
<1> HIDE DEF c
<1>5. \A i \in 0 .. 2 - 1 : g[i] \in Word
    <2>1. \A i \in 0 .. 2 - 1 : i = 0 \/ i = 1
        OBVIOUS
    <2>2. g[0] = c[1] /\ g[1] = c[2]
        OBVIOUS
    <2> HIDE DEF g
    <2> QED
        BY <1>4, <2>1, <2>2
<1>6. r = Stored(mem, o, 2, g)
    <2>1. \A k : k \in o .. o + 2 - 1 => g[k - o] = c[(k - o) + 1]
        OBVIOUS
    <2> HIDE DEF g
    <2> QED
        BY <2>1, Zenon DEF Put, Stored
<1>7. o + 2 <= 2 * MemorySize
    BY <1>1 DEF Placed
<1> HIDE DEF r, g
<1>8. /\ r \in Memories
      /\ \A i \in 0 .. 2 - 1 : r[o + i] = g[i]
      /\ \A k \in 0 .. 2 * MemorySize - 1 : k \notin o .. o + 2 - 1 => r[k] = mem[k]
      /\ AreWords(r, o, 2)
    BY <1>5, <1>6, <1>7, StoredIs
<1>9. r[o] = c[1] /\ r[o + 1] = c[2]
    <2>1. 0 \in 0 .. 2 - 1 /\ 1 \in 0 .. 2 - 1 /\ o + 0 = o
        OBVIOUS
    <2>2. r[o + 0] = g[0] /\ r[o + 1] = g[1]
        BY <1>8, <2>1
    <2> QED
        BY <2>1, <2>2 DEF g
<1>10. Value(r, o, 2) = Conv(mem[a], mem[b])
    BY <1>1, <1>3, <1>9, ProductOfWords DEF c
<1>11. Value(mem, a, 1) = mem[a] /\ Value(mem, b, 1) = mem[b]
    <2> SUFFICES ASSUME NEW x \in Nat, mem[x] \in Word PROVE Value(mem, x, 1) = mem[x]
        BY <1>3
    <2> SUFFICES ASSUME NEW e PROVE e \in Value(mem, x, 1) <=> e \in mem[x]
        OBVIOUS
    <2>1. e \in mem[x] => e \in 0 .. WORD - 1
        BY DEF Word
    <2>2. CASE e \in Nat
        <3>1. /\ e \div WORD \in Nat /\ (e \div WORD < 1 <=> e < WORD * 1)
              /\ e = WORD * (e \div WORD) + (e % WORD) /\ e % WORD \in 0 .. WORD - 1
            BY <1>1, <2>2, QuotientBelow, ByDigits
        <3>2. e \div WORD < 1 <=> e \div WORD = 0
            BY <3>1
        <3>3. e \div WORD = 0 => e % WORD = e /\ x + (e \div WORD) = x
            BY <1>1, <3>1 DEF WordFits
        <3>4. e < WORD * 1 <=> e < WORD
            BY <1>1 DEF WordFits
        <3>5. e \in 0 .. WORD - 1 => e < WORD
            BY <1>1 DEF WordFits
        <3> QED
            BY <2>1, <2>2, <3>1, <3>2, <3>3, <3>4, <3>5 DEF Value
    <2>3. CASE e \notin Nat
        BY <1>1, <2>1, <2>3 DEF Value, WordFits
    <2> QED
        BY <2>2, <2>3
<1>12. 2 * 1 = 2
    OBVIOUS
<1>13. \A k \in 0 .. 2 * MemorySize - 1 : k \notin o .. o + 2*1 - 1 => r[k] = mem[k]
    BY <1>8, <1>12
<1> HIDE DEF Placed
<1> QED
    BY <1>2, <1>8, <1>10, <1>11, <1>12, <1>13 DEF Multiplied

(* An array of two parts with twice as many words as those of a factor.    *)
Doubled(m, o, l, h, y, n) ==
    Value(m, o, 2*n) = Value(m, o, 2*l) (+) Up(Value(m, y, 2*h), WORD * l + WORD * l)

LEMMA TwoParts ==
    ASSUME WordFits, NEW m, NEW o \in Nat, NEW l \in Nat, NEW h \in Nat, NEW y, y = o + 2*l,
           NEW n, n = l + h
    PROVE  Doubled(m, o, l, h, y, n)
<1>1. PICK w \in Nat, v \in Nat, z \in Nat : w = 2*l /\ v = 2*h /\ z = w + v /\ y = o + w
    OBVIOUS
<1>2. y = o + w /\ z = w + v
    BY <1>1
<1>3. Value(m, o, z) = Value(m, o, w) (+) Up(Value(m, y, v), WORD * w)
    BY <1>2, ValueSplits
<1>4. WORD * w = WORD * l + WORD * l
    BY <1>1, SMT DEF WordFits
<1>5. z = 2*n
    BY <1>1
<1> QED
    BY <1>1, <1>3, <1>4, <1>5 DEF Doubled

(* More words                                                              *)
LEMMA MoreWords ==
    ASSUME SizesFit, NEW n \in Nat, n > 1, NEW L, NEW H, Right(L, (n + 1) \div 2), Right(H, n \div 2)
    PROVE  Right(Layer(n, L, H), n)
<1> SUFFICES ASSUME NEW mem \in Memories, NEW o \in Nat, NEW a \in Nat, NEW b \in Nat,
                    NEW stack \in Nat, Placed(mem, o, a, b, stack, n)
             PROVE  Multiplied(Layer(n, L, H)[mem][o][a][b][stack], mem, o, a, b, stack, n)
    BY DEF Right
<1>1. MemorySize \in Nat /\ WordFits
    BY Sizes DEF SizesFit
<1>2. PICK l \in Nat, h \in Nat :
          /\ l = (n + 1) \div 2 /\ h = n \div 2
          /\ n = l + h /\ h <= l /\ l <= h + 1 /\ h >= 1 /\ l < n
    BY Halves
<1>3. PICK blh \in Nat, tmp1 \in Nat, tmp2 \in Nat, free \in Nat, ah \in Nat, bh \in Nat :
          /\ blh = stack + l /\ tmp1 = blh + l /\ tmp2 = o + 2 * l /\ free = stack + 4 * l
          /\ ah = a + l /\ bh = b + l
    OBVIOUS
<1> DEFINE low == L[mem][o][a][b][free]
           high == H[low][tmp2][ah][bh][free]
           sums == karatsuba_add1(high, stack, blh, a, b, l, h)
           mixed == L[sums][tmp1][stack][blh][free]
           r == karatsuba_add2(mixed, o, tmp1, tmp2, l, h)
           top == 2 * MemorySize - 1
<1>4. Layer(n, L, H)[mem][o][a][b][stack] = r
    <2>1. n # 1
        OBVIOUS
    <2> QED
        BY <1>2, <1>3, <2>1, Zenon DEF Layer
<1> HIDE DEF low, high, sums, mixed, r
(* Where everything lies                                                   *)
<1>5. /\ a + n <= b /\ b + n <= o /\ o + 2*n <= stack /\ stack + 8*(n - 1) <= MemorySize
      /\ AreWords(mem, a, n) /\ AreWords(mem, b, n)
    BY DEF Placed
<1>6. /\ a + l + h <= b /\ b + l + h <= o /\ o + 2*(l + h) <= stack
      /\ free = tmp1 + 2*l /\ free + 8*(l - 1) <= stack + 8*(n - 1)
      /\ free + 8*(h - 1) <= stack + 8*(n - 1) /\ free <= stack + 8*(n - 1)
      /\ stack + 8*(n - 1) <= MemorySize
    BY <1>1, <1>2, <1>3, <1>5
<1> HIDE DEF Placed
(* The memory that the part of the calls may not change                    *)
<1>7. AreWords(mem, a, l) /\ AreWords(mem, b, l) /\ AreWords(mem, ah, h) /\ AreWords(mem, bh, h)
    <2>1. \A x \in Nat : \A k : k \in x .. x + l - 1 => k \in x .. x + n - 1
        BY <1>2
    <2>2. \A x \in Nat : \A k : k \in x + l .. x + l + h - 1 => k \in x .. x + n - 1
        BY <1>2
    <2> QED
        BY <1>3, <1>5, <2>1, <2>2 DEF AreWords
(* The product of the lower parts                                          *)
<1>8. Multiplied(low, mem, o, a, b, free, l)
    <2>1. Placed(mem, o, a, b, free, l)
        BY <1>1, <1>2, <1>3, <1>6, <1>7 DEF Placed
    <2> QED
        BY <1>2, <2>1 DEF Right, low
<1>9. low \in Memories /\ AreWords(low, o, 2*l)
      /\ Value(low, o, 2*l) = Conv(Value(mem, a, l), Value(mem, b, l))
    BY <1>8 DEF Multiplied
<1>10. \A k \in 0 .. top :
           (k < o \/ k >= o + 2*l) /\ (k < free \/ k >= stack + 8*(n - 1)) => low[k] = mem[k]
    <2>1. \A k \in 0 .. top :
           (k < o \/ k >= o + 2*l) /\ (k < free \/ k >= stack + 8*(n - 1)) =>
              k \notin o .. o + 2*l - 1 /\ k \notin free .. free + 8*(l - 1) - 1
        BY <1>1, <1>2, <1>3, <1>6
    <2> QED
        BY <1>8, <2>1 DEF Multiplied
(* The product of the upper parts                                          *)
<1>11. \A k \in 0 .. o - 1 : k \in 0 .. top /\ low[k] = mem[k]
    BY <1>1, <1>3, <1>6, <1>10
<1>12. /\ \A k \in ah .. ah + h - 1 : k \in 0 .. o - 1
       /\ \A k \in bh .. bh + h - 1 : k \in 0 .. o - 1
    BY <1>2, <1>3, <1>6
<1>13. Multiplied(high, low, tmp2, ah, bh, free, h)
    <2>1. AreWords(low, ah, h) /\ AreWords(low, bh, h)
        BY <1>7, <1>11, <1>12 DEF AreWords
    <2>2. Placed(low, tmp2, ah, bh, free, h)
        BY <1>1, <1>2, <1>3, <1>6, <2>1 DEF Placed
    <2> QED
        BY <1>2, <1>9, <2>2 DEF Right, high
<1>14. high \in Memories /\ AreWords(high, tmp2, 2*h)
       /\ Value(high, tmp2, 2*h) = Conv(Value(mem, ah, h), Value(mem, bh, h))
    <2>1. Value(low, ah, h) = Value(mem, ah, h)
        <3>1. SameIn(low, mem, ah, h)
            BY <1>11, <1>12 DEF SameIn
        <3> QED
            BY <1>1, <3>1, ValueAlike
    <2>2. Value(low, bh, h) = Value(mem, bh, h)
        <3>1. SameIn(low, mem, bh, h)
            BY <1>11, <1>12 DEF SameIn
        <3> QED
            BY <1>1, <3>1, ValueAlike
    <2> QED
        BY <1>13, <2>1, <2>2 DEF Multiplied
<1>15. \A k \in 0 .. top :
           (k < tmp2 \/ k >= tmp2 + 2*h) /\ (k < free \/ k >= stack + 8*(n - 1)) => high[k] = low[k]
    <2>1. \A k \in 0 .. top :
           (k < tmp2 \/ k >= tmp2 + 2*h) /\ (k < free \/ k >= stack + 8*(n - 1)) =>
              k \notin tmp2 .. tmp2 + 2*h - 1 /\ k \notin free .. free + 8*(h - 1) - 1
        BY <1>1, <1>2, <1>3, <1>6
    <2> QED
        BY <1>13, <2>1 DEF Multiplied
<1>16. \A k \in 0 .. top :
           (k < o \/ k >= o + 2*n) /\ (k < free \/ k >= stack + 8*(n - 1)) => high[k] = mem[k]
    BY <1>1, <1>2, <1>3, <1>6, <1>10, <1>15
<1>17b. AreWords(high, o, 2*n) /\ Value(high, o, 2*l) = Conv(Value(mem, a, l), Value(mem, b, l))
    <2>1. ASSUME NEW k \in o .. o + 2*l - 1 PROVE k \in 0 .. top /\ high[k] = low[k]
        <3>1. k \in 0 .. top /\ k < tmp2 /\ k < free
            BY <1>1, <1>2, <1>3, <1>6
        <3> QED
            BY <1>15, <3>1
    <2>2. Value(high, o, 2*l) = Value(low, o, 2*l)
        <3>1. PICK w \in Nat : w = 2*l
            OBVIOUS
        <3>2. SameIn(high, low, o, w)
            BY <2>1, <3>1 DEF SameIn
        <3>3. Value(high, o, w) = Value(low, o, w)
            BY <1>1, <3>2, ValueAlike
        <3> QED
            BY <3>1, <3>3
    <2>3. \A k \in o .. o + 2*n - 1 : k \in o .. o + 2*l - 1 \/ k \in tmp2 .. tmp2 + 2*h - 1
        BY <1>2, <1>3
    <2>4. AreWords(high, o, 2*n)
        BY <1>9, <1>14, <2>1, <2>3 DEF AreWords
    <2> QED
        BY <1>9, <2>2, <2>4
<1>17. ASSUME NEW k \in 0 .. o - 1 PROVE high[k] = mem[k]
    <2>1. k \in 0 .. top /\ k < o /\ k < free
        BY <1>1, <1>2, <1>3, <1>6
    <2> QED
        BY <1>16, <2>1
(* The sums                                                                *)
<1>18. /\ sums \in Memories
       /\ \A k \in 0 .. top : k \notin stack .. stack + 2*l - 1 => sums[k] = high[k]
       /\ AreWords(sums, stack, l) /\ AreWords(sums, blh, l)
       /\ Value(sums, stack, l) = Value(high, a, l) (+) Value(high, ah, h)
       /\ Value(sums, blh, l) = Value(high, b, l) (+) Value(high, bh, h)
    <2>1. \A k \in 0 .. o - 1 : high[k] = mem[k]
        BY <1>17
    <2>2. AreWords(high, a, l + h) /\ AreWords(high, b, l + h)
        <3>1. /\ \A k \in a .. a + (l + h) - 1 : k \in 0 .. o - 1 /\ k \in a .. a + n - 1
              /\ \A k \in b .. b + (l + h) - 1 : k \in 0 .. o - 1 /\ k \in b .. b + n - 1
            BY <1>2, <1>6
        <3> QED
            BY <1>5, <2>1, <3>1 DEF AreWords
    <2>3. CanAdd1(high, stack, blh, a, b, l, h)
        BY <1>1, <1>2, <1>3, <1>6, <1>14, <2>2 DEF CanAdd1
    <2>4. HasAdded1(sums, high, stack, blh, a, b, l, h)
        BY <2>3, Add1 DEF sums
    <2> QED
        BY <1>3, <2>4 DEF HasAdded1
<1>19. /\ Value(high, a, l) = Value(mem, a, l) /\ Value(high, b, l) = Value(mem, b, l)
       /\ Value(high, ah, h) = Value(mem, ah, h) /\ Value(high, bh, h) = Value(mem, bh, h)
    <2>1. /\ \A k \in a .. a + l - 1 : k \in 0 .. o - 1
          /\ \A k \in b .. b + l - 1 : k \in 0 .. o - 1
        BY <1>2, <1>6
    <2>2. /\ \A k \in a .. a + l - 1 : high[k] = mem[k]
          /\ \A k \in b .. b + l - 1 : high[k] = mem[k]
          /\ \A k \in ah .. ah + h - 1 : high[k] = mem[k]
          /\ \A k \in bh .. bh + h - 1 : high[k] = mem[k]
        BY <1>12, <1>17, <2>1
    <2>3. Value(high, a, l) = Value(mem, a, l)
        <3>1. SameIn(high, mem, a, l)
            BY <2>2 DEF SameIn
        <3> QED
            BY <1>1, <3>1, ValueAlike
    <2>4. Value(high, b, l) = Value(mem, b, l)
        <3>1. SameIn(high, mem, b, l)
            BY <2>2 DEF SameIn
        <3> QED
            BY <1>1, <3>1, ValueAlike
    <2>5. Value(high, ah, h) = Value(mem, ah, h)
        <3>1. SameIn(high, mem, ah, h)
            BY <2>2 DEF SameIn
        <3> QED
            BY <1>1, <3>1, ValueAlike
    <2>6. Value(high, bh, h) = Value(mem, bh, h)
        <3>1. SameIn(high, mem, bh, h)
            BY <2>2 DEF SameIn
        <3> QED
            BY <1>1, <3>1, ValueAlike
    <2> QED
        BY <2>3, <2>4, <2>5, <2>6
(* Their product                                                           *)
<1>20. Multiplied(mixed, sums, tmp1, stack, blh, free, l)
    <2>1. Placed(sums, tmp1, stack, blh, free, l)
        BY <1>1, <1>2, <1>3, <1>6, <1>18 DEF Placed
    <2> QED
        BY <1>2, <1>18, <2>1 DEF Right, mixed
<1>21. mixed \in Memories /\ AreWords(mixed, tmp1, 2*l)
       /\ Value(mixed, tmp1, 2*l) = Conv(Value(sums, stack, l), Value(sums, blh, l))
    BY <1>20 DEF Multiplied
<1>22. \A k \in 0 .. top : k < stack \/ k >= stack + 8*(n - 1) => mixed[k] = high[k]
    <2>1. \A k \in 0 .. top : k < stack \/ k >= stack + 8*(n - 1) =>
              /\ k \notin stack .. stack + 2*l - 1
              /\ k \notin tmp1 .. tmp1 + 2*l - 1 /\ k \notin free .. free + 8*(l - 1) - 1
        BY <1>1, <1>2, <1>3, <1>6
    <2> QED
        BY <1>18, <1>20, <2>1 DEF Multiplied
<1>23. ASSUME NEW k \in o .. o + 2*n - 1 PROVE k \in 0 .. top /\ mixed[k] = high[k]
    <2>1. k \in 0 .. top /\ k < stack
        BY <1>1, <1>2, <1>6
    <2> QED
        BY <1>22, <2>1
(* All added up                                                            *)
<1>24. /\ r \in Memories
       /\ \A k \in 0 .. top :
              k \notin tmp1 .. tmp1 + 2*l - 1 /\ k \notin o .. o + 2*n - 1 => r[k] = mixed[k]
       /\ AreWords(r, o, 2*n)
       /\ Value(r, o, 2*n) = Value(mixed, o, 2*n) (+)
              Up((Value(mixed, tmp1, 2*l) (+) Value(mixed, o, 2*l)) (+) Value(mixed, tmp2, 2*h), WORD * l)
    <2>1. AreWords(mixed, o, 2*(l + h))
        BY <1>2, <1>17b, <1>23 DEF AreWords
    <2>2. CanAdd2(mixed, o, tmp1, tmp2, l, h)
        BY <1>1, <1>2, <1>3, <1>6, <1>21, <2>1 DEF CanAdd2
    <2>3. HasAdded2(r, mixed, o, tmp1, tmp2, l, h)
        BY <2>2, Add2 DEF r
    <2>4. 2*n = 2*(l + h)
        BY <1>2
    <2> QED
        BY <2>3, <2>4 DEF HasAdded2
<1> DEFINE P == Conv(Value(mem, a, l), Value(mem, b, l))
           Q == Conv(Value(mem, ah, h), Value(mem, bh, h))
<1>25. Value(mixed, o, 2*l) = P /\ Value(mixed, tmp2, 2*h) = Q
    <2>1. PICK w \in Nat, v \in Nat : w = 2*l /\ v = 2*h
        OBVIOUS
    <2>2. /\ \A k \in o .. o + w - 1 : k \in o .. o + 2*n - 1
          /\ \A k \in tmp2 .. tmp2 + v - 1 : k \in o .. o + 2*n - 1
        BY <1>2, <1>3, <2>1
    <2>3. SameIn(mixed, high, o, w)
        BY <1>23, <2>2 DEF SameIn
    <2>4. SameIn(mixed, high, tmp2, v)
        BY <1>23, <2>2 DEF SameIn
    <2>5. Value(mixed, o, w) = Value(high, o, w)
        BY <1>1, <2>3, ValueAlike
    <2>6. Value(mixed, tmp2, v) = Value(high, tmp2, v)
        BY <1>1, <2>4, ValueAlike
    <2> QED
        BY <1>14, <1>17b, <2>1, <2>5, <2>6
<1>26. Value(mixed, o, 2*n) = P (+) Up(Q, WORD * l + WORD * l)
    <2>1. Value(mixed, o, 2*n) = Value(mixed, o, 2*l) (+) Up(Value(mixed, tmp2, 2*h), WORD * l + WORD * l)
        <3>1. n = l + h /\ tmp2 = o + 2*l
            BY <1>2, <1>3
        <3>2. Doubled(mixed, o, l, h, tmp2, n)
            BY <1>1, <3>1, TwoParts
        <3> QED
            BY <3>2 DEF Doubled
    <2> QED
        BY <1>25, <2>1
<1>27. Value(r, o, 2*n) = Conv(Value(mem, a, n), Value(mem, b, n))
    <2> DEFINE AL == Value(mem, a, l)
               AH == Value(mem, ah, h)
               BL == Value(mem, b, l)
               BH == Value(mem, bh, h)
    <2>1. PICK z \in Int : z = WORD * l
        BY <1>1, SMT DEF WordFits
    <2>2. Value(mem, a, n) = AL (+) Up(AH, z)
        <3>1. Value(mem, a, n) = Value(mem, a, l) (+) Up(Value(mem, ah, h), WORD * l)
            BY <1>1, <1>2, <1>3, ValueSplits
        <3> QED
            BY <2>1, <3>1
    <2>3. Value(mem, b, n) = BL (+) Up(BH, z)
        <3>1. Value(mem, b, n) = Value(mem, b, l) (+) Up(Value(mem, bh, h), WORD * l)
            BY <1>1, <1>2, <1>3, ValueSplits
        <3> QED
            BY <2>1, <3>1
    <2>4. BitSet(AL) /\ BitSet(AH) /\ BitSet(BL) /\ BitSet(BH)
        BY <1>1, ValueIsBits
    <2>5. Value(mixed, tmp1, 2*l) = Conv(AL (+) AH, BL (+) BH)
        BY <1>18, <1>19, <1>21
    <2>6. Value(r, o, 2*n) = (P (+) Up(Q, z + z)) (+) Up((Conv(AL (+) AH, BL (+) BH) (+) P) (+) Q, z)
        BY <1>24, <1>25, <1>26, <2>1, <2>5
    <2> HIDE DEF AL, AH, BL, BH
    <2>7. Conv(AL (+) Up(AH, z), BL (+) Up(BH, z)) =
              (Conv(AL, BL) (+) Up(Conv(AH, BH), z + z))
                  (+) Up((Conv(AL (+) AH, BL (+) BH) (+) Conv(AL, BL)) (+) Conv(AH, BH), z)
        BY <2>4, ThreeProducts
    <2>8. P = Conv(AL, BL) /\ Q = Conv(AH, BH)
        BY DEF AL, AH, BL, BH
    <2> HIDE DEF P, Q
    <2> QED
        BY <2>2, <2>3, <2>6, <2>7, <2>8
<1>28. ASSUME NEW k \in 0 .. top, k \notin o .. o + 2*n - 1, k \notin stack .. stack + 8*(n - 1) - 1
       PROVE  r[k] = mem[k]
    <2>1. k \notin tmp1 .. tmp1 + 2*l - 1 /\ (k < stack \/ k >= stack + 8*(n - 1))
        BY <1>1, <1>2, <1>3, <1>6, <1>28
    <2>2. (k < o \/ k >= o + 2*n) /\ (k < free \/ k >= stack + 8*(n - 1))
        BY <1>1, <1>2, <1>3, <1>6, <1>28
    <2>3. r[k] = mixed[k] /\ mixed[k] = high[k] /\ high[k] = mem[k]
        BY <1>16, <1>22, <1>24, <1>28, <2>1, <2>2
    <2> QED
        BY <2>3
<1> QED
    BY <1>4, <1>24, <1>27, <1>28 DEF Multiplied

(* Karatsuba multiplication, for every number of words                     *)
LEMMA KaratsubaMultiplies ==
    ASSUME SizesFit, NEW n \in Nat \ {0}, NEW mem \in Memories, NEW o \in Nat, NEW a \in Nat,
           NEW b \in Nat, NEW stack \in Nat, Placed(mem, o, a, b, stack, n)
    PROVE  Multiplied(karatsuba(mem, o, a, b, n, stack), mem, o, a, b, stack, n)
<1>1. PICK f : /\ \A size \in 1..n : f[size] = Layer(size, f[(size + 1) \div 2], f[size \div 2])
               /\ \A m, d, x, y, s : karatsuba(m, d, x, y, n, s) = f[n][m][d][x][y][s]
    BY KaratsubaIs
<1> DEFINE Bad == {size \in 1..n : ~Right(f[size], size)}
<1>2. Bad = {}
    <2> SUFFICES ASSUME Bad # {} PROVE FALSE
        OBVIOUS
    <2>1. PICK size \in Bad : \A k \in Bad : size <= k
        <3>1. Bad \subseteq Nat
            OBVIOUS
        <3> HIDE DEF Bad
        <3> QED
            BY <3>1, Least
    <2>2. size \in 1..n /\ ~Right(f[size], size)
          /\ f[size] = Layer(size, f[(size + 1) \div 2], f[size \div 2])
        BY <1>1
    <2>3. CASE size = 1
        BY <2>2, <2>3, OneWord
    <2>4. CASE size # 1
        <3>1. size \in Nat /\ size > 1
            BY <2>2, <2>4
        <3>2. (size + 1) \div 2 \in 1 .. size - 1 /\ size \div 2 \in 1 .. size - 1
            BY <3>1, Halves
        <3>3. \A k \in 1 .. size - 1 : k \in 1..n /\ ~(size <= k)
            BY <2>2
        <3>4. \A k \in 1 .. size - 1 : Right(f[k], k)
            BY <2>1, <3>3
        <3>5. Right(f[(size + 1) \div 2], (size + 1) \div 2) /\ Right(f[size \div 2], size \div 2)
            BY <3>2, <3>4
        <3> QED
            BY <2>2, <3>1, <3>5, MoreWords
    <2> QED
        BY <2>3, <2>4
<1>3. Right(f[n], n)
    BY <1>2
<1>4. karatsuba(mem, o, a, b, n, stack) = f[n][mem][o][a][b][stack]
    BY <1>1
<1> HIDE DEF Bad
<1> QED
    BY <1>3, <1>4 DEF Right

-----------------------------------------------------------------------------
(* vect_mul                                                                *)

(* Vectors of PARAM_N bits                                                 *)
Arrays == [0 .. VEC_N_SIZE_64 - 1 -> Word]

(* The bits of an array of words                                           *)
LEMMA BitsAre ==
    ASSUME WordFits, NEW n \in Nat, NEW a \in [0 .. n - 1 -> Word]
    PROVE  Bits(a) = Value(a, 0, n)
<1> SUFFICES ASSUME NEW e PROVE e \in Bits(a) <=> e \in Value(a, 0, n)
    OBVIOUS
<1>1. WORD \in Int /\ WORD >= 1
    BY DEF WordFits
<1>2. e \in Bits(a) <=> \E i \in 0 .. n - 1 : \E p \in a[i] : e = WORD * i + p
    BY DEF Bits
<1>3. ASSUME NEW i \in 0 .. n - 1, NEW p \in a[i], e = WORD * i + p PROVE e \in Value(a, 0, n)
    <2>1. p \in 0 .. WORD - 1
        BY DEF Word
    <2>2. e \div WORD = i /\ e % WORD = p
        BY <1>3, <2>1, Digits
    <2>3. e \in Nat
        <3>1. WORD * i \in Nat
            BY <1>1
        <3> QED
            BY <1>3, <2>1, <3>1
    <2>4. i < n /\ 0 + i = i
        OBVIOUS
    <2> QED
        BY <2>2, <2>3, <2>4 DEF Value
<1>4. ASSUME e \in Value(a, 0, n)
      PROVE  \E i \in 0 .. n - 1 : \E p \in a[i] : e = WORD * i + p
    <2>1. e \in Nat /\ e \div WORD < n /\ e % WORD \in a[0 + (e \div WORD)]
        BY <1>4 DEF Value
    <2>2. e \div WORD \in Nat /\ e = WORD * (e \div WORD) + (e % WORD)
        BY <2>1, QuotientBelow, ByDigits
    <2>3. e \div WORD \in 0 .. n - 1 /\ 0 + (e \div WORD) = e \div WORD
        BY <2>1, <2>2
    <2> QED
        BY <2>1, <2>2, <2>3
<1> QED
    BY <1>2, <1>3, <1>4

(* The memory of vect_mul after the multiplication                         *)
LEMMA MultipliedIs ==
    ASSUME SizesFit, NEW v1 \in Arrays, NEW v2 \in Arrays
    PROVE  LET n == VEC_N_SIZE_64
               mem == multiplied(v1, v2)
           IN  /\ mem \in Memories
               /\ \A k \in MemorySize .. 2 * MemorySize - 1 : mem[k] = Behind
               /\ AreWords(mem, 2*n, 2*n)
               /\ Value(mem, 2*n, 2*n) = Conv(Bits(v1), Bits(v2))
<1>1. PICK n \in Nat \ {0} : n = VEC_N_SIZE_64 /\ MemorySize = 12 * n /\ Scratch = 4 * n
    BY Sizes DEF Scratch
<1>2. WordFits /\ v1 \in [0 .. n - 1 -> Word] /\ v2 \in [0 .. n - 1 -> Word]
    BY <1>1 DEF SizesFit, Arrays
<1> DEFINE word(i) == CASE i < VEC_N_SIZE_64 -> v1[i]
                       [] i \in VEC_N_SIZE_64 .. 2*VEC_N_SIZE_64 - 1 -> v2[i - VEC_N_SIZE_64]
                       [] i \in 2*VEC_N_SIZE_64 .. MemorySize - 1 -> {}
                       [] i >= MemorySize -> Behind
           m0 == [i \in 0 .. 2 * MemorySize - 1 |-> word(i)]
           mem == multiplied(v1, v2)
<1>3. mem = karatsuba(m0, 2 * n, 0, n, n, 4 * n)
    <2>1. mem = karatsuba(m0, 2 * VEC_N_SIZE_64, 0, VEC_N_SIZE_64, VEC_N_SIZE_64, Scratch)
        BY DEF multiplied
    <2> HIDE DEF mem, m0
    <2> QED
        BY <1>1, <2>1
<1>4. /\ \A i \in 0 .. n - 1 : i \in 0 .. 2 * MemorySize - 1 /\ m0[i] = v1[i]
      /\ \A i \in n .. 2*n - 1 : i \in 0 .. 2 * MemorySize - 1 /\ m0[i] = v2[i - n]
      /\ \A i \in 2*n .. MemorySize - 1 : i \in 0 .. 2 * MemorySize - 1 /\ m0[i] = {}
      /\ \A i \in MemorySize .. 2 * MemorySize - 1 : i \in 0 .. 2 * MemorySize - 1 /\ m0[i] = Behind
    <2>1. ASSUME NEW i \in 0 .. n - 1 PROVE i \in 0 .. 2 * MemorySize - 1 /\ m0[i] = v1[i]
        <3>1. /\ i \in 0 .. 2 * MemorySize - 1 /\ i < n /\ i \notin n .. 2*n - 1
              /\ i \notin 2*n .. MemorySize - 1 /\ ~(i >= MemorySize)
            BY <1>1
        <3>2. word(i) = v1[i]
            BY <1>1, <3>1
        <3> QED
            BY <3>1, <3>2
    <2>2. ASSUME NEW i \in n .. 2*n - 1 PROVE i \in 0 .. 2 * MemorySize - 1 /\ m0[i] = v2[i - n]
        <3>1. /\ i \in 0 .. 2 * MemorySize - 1 /\ ~(i < n)
              /\ i \notin 2*n .. MemorySize - 1 /\ ~(i >= MemorySize)
            BY <1>1
        <3>2. word(i) = v2[i - n]
            BY <1>1, <3>1
        <3> QED
            BY <3>1, <3>2
    <2>3. ASSUME NEW i \in 2*n .. MemorySize - 1 PROVE i \in 0 .. 2 * MemorySize - 1 /\ m0[i] = {}
        <3>1. i \in 0 .. 2 * MemorySize - 1 /\ ~(i < n) /\ i \notin n .. 2*n - 1 /\ ~(i >= MemorySize)
            BY <1>1
        <3>2. word(i) = {}
            BY <1>1, <3>1
        <3> QED
            BY <3>1, <3>2
    <2>4. ASSUME NEW i \in MemorySize .. 2 * MemorySize - 1
          PROVE  i \in 0 .. 2 * MemorySize - 1 /\ m0[i] = Behind
        <3>1. /\ i \in 0 .. 2 * MemorySize - 1 /\ ~(i < n) /\ i \notin n .. 2*n - 1
              /\ i \notin 2*n .. MemorySize - 1 /\ i >= MemorySize
            BY <1>1
        <3>2. word(i) = Behind
            BY <1>1, <3>1
        <3> QED
            BY <3>1, <3>2
    <2> QED
        BY <2>1, <2>2, <2>3, <2>4
<1>5. m0 \in Memories
    <2> HIDE DEF word
    <2>1. DOMAIN m0 = 0 .. 2 * MemorySize - 1 /\ m0 = [i \in 0 .. 2 * MemorySize - 1 |-> m0[i]]
        BY Zenon
    <2> HIDE DEF m0, mem
    <2>2. ASSUME NEW i \in 0 .. 2 * MemorySize - 1 PROVE m0[i] \in SUBSET (-1 .. WORD - 1)
        <3>1. CASE i \in 0 .. n - 1
            <4>1. v1[i] \in SUBSET (0 .. WORD - 1)
                BY <1>2, <3>1 DEF Word
            <4> QED
                BY <1>2, <1>4, <3>1, <4>1 DEF WordFits
        <3>2. CASE i \in n .. 2*n - 1
            <4>1. i - n \in 0 .. n - 1
                BY <1>1, <3>2
            <4>2. v2[i - n] \in SUBSET (0 .. WORD - 1)
                BY <1>2, <4>1 DEF Word
            <4> QED
                BY <1>2, <1>4, <3>2, <4>2 DEF WordFits
        <3>3. CASE i \in 2*n .. MemorySize - 1
            BY <1>4, <3>3
        <3>4. CASE i \in MemorySize .. 2 * MemorySize - 1
            <4>1. Behind \in SUBSET (-1 .. WORD - 1)
                BY <1>2 DEF Behind, WordFits
            <4> QED
                BY <1>4, <3>4, <4>1
        <3> QED
            BY <1>1, <3>1, <3>2, <3>3, <3>4
    <2> QED
        BY <2>1, <2>2 DEF Memories
<1> HIDE DEF m0, mem
<1>6. Placed(m0, 2*n, 0, n, 4*n, n)
    <2>1. AreWords(m0, 0, n)
        <3>1. \A k \in 0 .. 0 + n - 1 : k \in 0 .. n - 1
            OBVIOUS
        <3> QED
            BY <1>2, <1>4, <3>1 DEF AreWords
    <2>2. AreWords(m0, n, n)
        <3>1. \A k \in n .. n + n - 1 : k \in n .. 2*n - 1 /\ k - n \in 0 .. n - 1
            OBVIOUS
        <3> QED
            BY <1>2, <1>4, <3>1 DEF AreWords
    <2> QED
        BY <1>1, <2>1, <2>2 DEF Placed
<1>7. Value(m0, 0, n) = Bits(v1) /\ Value(m0, n, n) = Bits(v2)
    <2>1. Bits(v1) = Value(v1, 0, n) /\ Bits(v2) = Value(v2, 0, n)
        BY <1>2, BitsAre
    <2>2. Value(m0, 0, n) = Value(v1, 0, n)
        <3>1. SameIn(m0, v1, 0, n)
            BY <1>4 DEF SameIn
        <3> QED
            BY <1>2, <3>1, ValueAlike
    <2>3. Value(m0, n, n) = Value(v2, 0, n)
        <3> SUFFICES ASSUME NEW e \in Nat, e \div WORD < n
                     PROVE  m0[n + (e \div WORD)] = v2[0 + (e \div WORD)]
            BY DEF Value
        <3>1. e \div WORD \in Nat
            BY <1>2, QuotientBelow
        <3>2. n + (e \div WORD) \in n .. 2*n - 1 /\ (n + (e \div WORD)) - n = 0 + (e \div WORD)
            BY <3>1
        <3> QED
            BY <1>4, <3>2
    <2> QED
        BY <2>1, <2>2, <2>3
<1>8. Multiplied(mem, m0, 2*n, 0, n, 4*n, n)
    <2>1. PICK o \in Nat, s \in Nat : o = 2*n /\ s = 4*n
        OBVIOUS
    <2> QED
        BY <1>3, <1>5, <1>6, <2>1, KaratsubaMultiplies
<1>9. \A k \in MemorySize .. 2 * MemorySize - 1 : mem[k] = Behind
    BY <1>1, <1>4, <1>8 DEF Multiplied
<1> QED
    BY <1>1, <1>7, <1>8, <1>9 DEF Multiplied, mem

(* PARAM_N does not fill its last word.                                    *)
LEMMA LastWord ==
    ASSUME SizesFit, PARAM_N % WORD # 0
    PROVE  /\ PARAM_N % WORD \in 1 .. WORD - 1
           /\ PARAM_N = WORD * (VEC_N_SIZE_64 - 1) + (PARAM_N % WORD)
<1>1. WordFits /\ PARAM_N \in Nat
    BY DEF SizesFit
<1> DEFINE q == PARAM_N \div WORD
           s == PARAM_N % WORD
<1>2. q \in Int /\ s \in 0 .. WORD - 1 /\ PARAM_N = WORD * q + s
    BY <1>1, ByDigits
<1> HIDE DEF q
<1>0. s # 0
    OBVIOUS
<1> HIDE DEF s
<1>3. q + 1 \in Int /\ s - 1 \in 0 .. WORD - 1 /\ s \in 1 .. WORD - 1
    <2>1. WORD \in Int
        BY <1>1 DEF WordFits
    <2> QED
        BY <1>0, <1>2, <2>1
<1>4. (WORD * (q + 1) + (s - 1)) \div WORD = q + 1
    BY <1>1, <1>3, Digits
<1>5. PARAM_N + WORD - 1 = WORD * (q + 1) + (s - 1)
    <2>1. WORD * (q + 1) = WORD * q + WORD
        BY <1>1, <1>2, SMT DEF WordFits
    <2>2. WORD \in Int /\ WORD * q \in Int
        BY <1>1, <1>2, SMT DEF WordFits
    <2> QED
        BY <1>1, <1>2, <2>1, <2>2
<1>6. VEC_N_SIZE_64 = q + 1
    BY <1>4, <1>5 DEF VEC_N_SIZE_64, Words
<1>7. VEC_N_SIZE_64 - 1 = q
    BY <1>2, <1>6
<1> QED
    BY <1>2, <1>3, <1>7 DEF s

(* reduce adds to every bit the one PARAM_N above it.                      *)
LEMMA ReduceIs ==
    ASSUME SizesFit, PARAM_N % WORD # 0, NEW A \in [0 .. 2 * VEC_N_SIZE_64 - 1 -> Word]
    PROVE  /\ reduce(A) \in Arrays
           /\ Bits(reduce(A)) = {e \in 0 .. PARAM_N - 1 :
                 ~(e \in Value(A, 0, 2 * VEC_N_SIZE_64) <=> e + PARAM_N \in Value(A, 0, 2 * VEC_N_SIZE_64))}
<1>1. PICK n \in Nat \ {0} : n = VEC_N_SIZE_64
    BY Sizes
<1>2. PICK s \in Int : s = PARAM_N % WORD /\ s \in 1 .. WORD - 1 /\ PARAM_N = WORD * (n - 1) + s
    BY <1>1, LastWord
<1>3. WordFits /\ WORD \in Int /\ PARAM_N \in Nat
    BY DEF SizesFit, WordFits
<1> DEFINE out(i) == (A[i] (+) Shr(A[i + n - 1], s) (+) Shl(A[i + n], WORD - s))
                         \cap (IF i = n - 1 THEN 0 .. s - 1 ELSE 0 .. WORD - 1)
           V == Value(A, 0, 2 * n)
           R == reduce(A)
<1>4. R = [i \in 0 .. n - 1 |-> out(i)]
    <2>1. R = [i \in 0 .. VEC_N_SIZE_64 - 1 |->
                  (A[i] (+) Shr(A[i + VEC_N_SIZE_64 - 1], PARAM_N % WORD)
                        (+) Shl(A[i + VEC_N_SIZE_64], WORD - (PARAM_N % WORD)))
                      \cap (IF i = VEC_N_SIZE_64 - 1 THEN 0 .. (PARAM_N % WORD) - 1 ELSE 0 .. WORD - 1)]
        BY DEF reduce, RED_MASK
    <2> HIDE DEF R
    <2> QED
        BY <1>1, <1>2, <2>1
<1>5. \A i \in 0 .. n - 1 : out(i) \in Word
    <2>1. \A i \in 0 .. n - 1 : out(i) \subseteq 0 .. WORD - 1
        BY <1>2, <1>3
    <2> QED
        BY <2>1 DEF Word
<1>6. R \in [0 .. n - 1 -> Word]
    BY <1>4, <1>5
<1>7. \A k \in 0 .. 2*n - 1 : A[k] \in Word
    BY <1>1
<1>8. ASSUME NEW i \in 0 .. n - 1, NEW p \in 0 .. WORD - 1
      PROVE  /\ WORD * i + p \in Nat
             /\ WORD * i + p \in V <=> p \in A[i]
             /\ WORD * i + p + PARAM_N \in V <=> p \in Shr(A[i + n - 1], s) (+) Shl(A[i + n], WORD - s)
             /\ WORD * i + p < PARAM_N <=> (i = n - 1 => p < s)
    <2> DEFINE e == WORD * i + p
    <2>1. /\ e \in Nat /\ e \div WORD = i /\ e % WORD = p
          /\ WORD * i \in Nat
        <3>1. WORD * i \in Nat
            BY <1>3, SMT DEF WordFits
        <3>2. i \in Int
            OBVIOUS
        <3> QED
            BY <1>3, <3>1, <3>2, Digits
    <2> HIDE DEF e
    <2>2. e \in V <=> p \in A[i]
        <3>1. i < 2 * n /\ 0 + i = i
            OBVIOUS
        <3> QED
            BY <1>1, <2>1, <3>1 DEF Value
    <2>3. e + PARAM_N = WORD * (i + n - 1) + (p + s)
        <3>1. WORD * (i + n - 1) = WORD * i + WORD * (n - 1)
            BY <1>3, SMT
        <3>2. WORD * (n - 1) \in Int
            BY <1>3
        <3>3. e = WORD * i + p /\ WORD * i \in Int
            BY <2>1 DEF e
        <3>4. PARAM_N = WORD * (n - 1) + s
            BY <1>2
        <3> DEFINE x == WORD * i
                   y == WORD * (n - 1)
        <3>5. e + PARAM_N = (x + p) + (y + s)
            BY <3>3, <3>4
        <3>6. x \in Int /\ y \in Int /\ p \in Int /\ s \in Int
            BY <1>2, <1>3, <3>2, <3>3
        <3>7. WORD * (i + n - 1) = x + y
            BY <3>1
        <3> HIDE DEF x, y
        <3> QED
            BY <3>5, <3>6, <3>7
    <2>4. e + PARAM_N \in Nat
        BY <1>3, <2>1
    <2>5. A[i + n - 1] \in Word /\ A[i + n] \in Word
        <3>1. i + n - 1 \in 0 .. 2*n - 1 /\ i + n \in 0 .. 2*n - 1
            OBVIOUS
        <3> QED
            BY <1>7, <3>1
    <2>6. p \in Shr(A[i + n - 1], s) <=> p + s \in A[i + n - 1]
        <3>1. A[i + n - 1] \in SUBSET Int
            BY <2>5 DEF Word
        <3> QED
            BY <3>1, <1>2, ShiftedDown DEF Shr
    <2>7. p \in Shl(A[i + n], WORD - s) <=> p + s - WORD \in A[i + n]
        <3>1. A[i + n] \in SUBSET Int
            BY <2>5 DEF Word
        <3>2. PICK k \in Int : k = WORD - s /\ p - k = p + s - WORD
            BY <1>2, <1>3
        <3>3. p \in Up(A[i + n], k) <=> p \in Int /\ p - k \in A[i + n]
            BY <3>1, Shifted
        <3>4. p < WORD
            BY <1>3
        <3> QED
            BY <3>2, <3>3, <3>4 DEF Shl, Low
    <2>8. e + PARAM_N \in V <=> p \in Shr(A[i + n - 1], s) (+) Shl(A[i + n], WORD - s)
        <3>0. \A X, Y : p \in X (+) Y <=> ~(p \in X <=> p \in Y)
            BY DEF (+)
        <3>1. CASE p + s < WORD
            <4>1. i + n - 1 \in Int /\ p + s \in 0 .. WORD - 1
                BY <1>2, <1>3, <3>1
            <4>2. (e + PARAM_N) \div WORD = i + n - 1 /\ (e + PARAM_N) % WORD = p + s
                <5>1. PICK j \in Int, b \in 0 .. WORD - 1 : j = i + n - 1 /\ b = p + s
                    BY <4>1
                <5>2. (WORD * j + b) \div WORD = j /\ (WORD * j + b) % WORD = b
                    BY <1>3, Digits
                <5>3. e + PARAM_N = WORD * j + b
                    BY <2>3, <5>1
                <5> QED
                    BY <5>1, <5>2, <5>3
            <4>3. i + n - 1 < 2*n /\ 0 + (i + n - 1) = i + n - 1
                OBVIOUS
            <4>4. e + PARAM_N \in V <=> p + s \in A[i + n - 1]
                BY <1>1, <2>4, <4>2, <4>3 DEF Value
            <4>5. p + s - WORD \notin A[i + n]
                BY <1>2, <1>3, <2>5, <3>1 DEF Word
            <4> QED
                BY <2>6, <2>7, <3>0, <4>4, <4>5
        <3>2. CASE ~(p + s < WORD)
            <4>1. i + n \in Int /\ p + s - WORD \in 0 .. WORD - 1
                BY <1>2, <1>3, <3>2
            <4>2. e + PARAM_N = WORD * (i + n) + (p + s - WORD)
                <5>1. WORD * (i + n) = WORD * (i + n - 1) + WORD
                    BY <1>3, SMT
                <5>2. WORD * (i + n - 1) \in Int
                    BY <1>3
                <5> QED
                    BY <1>2, <1>3, <2>3, <5>1, <5>2
            <4>3. (e + PARAM_N) \div WORD = i + n /\ (e + PARAM_N) % WORD = p + s - WORD
                BY <1>3, <4>1, <4>2, Digits
            <4>4. i + n < 2*n /\ 0 + (i + n) = i + n
                OBVIOUS
            <4>5. e + PARAM_N \in V <=> p + s - WORD \in A[i + n]
                BY <1>1, <2>4, <4>3, <4>4 DEF Value
            <4>6. p + s \notin A[i + n - 1]
                BY <1>2, <1>3, <2>5, <3>2 DEF Word
            <4> QED
                BY <2>6, <2>7, <3>0, <4>5, <4>6
        <3> QED
            BY <3>1, <3>2
    <2>9. e < PARAM_N <=> (i = n - 1 => p < s)
        <3>1. CASE i = n - 1
            <4>1. e = WORD * (n - 1) + p
                BY <3>1 DEF e
            <4>2. WORD * (n - 1) \in Int
                BY <1>3
            <4> QED
                BY <1>2, <3>1, <4>1, <4>2
        <3>2. CASE i # n - 1
            <4>1. i + 1 \in Int /\ n - 1 \in Int /\ i + 1 <= n - 1 /\ WORD \in Nat
                BY <1>3, <3>2 DEF WordFits
            <4>2. WORD * (i + 1) <= WORD * (n - 1)
                BY <4>1, Monotone
            <4>3. WORD * (i + 1) = WORD * i + WORD
                BY <1>3, SMT
            <4> QED
                BY <1>2, <1>3, <2>1, <3>2, <4>2, <4>3 DEF e
        <3> QED
            BY <3>1, <3>2
    <2> QED
        BY <2>1, <2>2, <2>8, <2>9 DEF e
<1> HIDE DEF R, V, out
<1>9. ASSUME NEW i \in 0 .. n - 1, NEW p \in 0 .. WORD - 1
      PROVE  p \in R[i] <=> /\ WORD * i + p < PARAM_N
                            /\ ~(WORD * i + p \in V <=> WORD * i + p + PARAM_N \in V)
    <2> DEFINE B == Shr(A[i + n - 1], s)
               C == Shl(A[i + n], WORD - s)
    <2>1. R[i] = out(i)
        BY <1>4
    <2>2. p \in (A[i] (+) B) (+) C <=> ~(p \in A[i] <=> p \in B (+) C)
        <3>1. \A X, Y : p \in X (+) Y <=> ~(p \in X <=> p \in Y)
            BY DEF (+)
        <3> HIDE DEF B, C
        <3>2. /\ p \in A[i] (+) B <=> ~(p \in A[i] <=> p \in B)
              /\ p \in (A[i] (+) B) (+) C <=> ~(p \in A[i] (+) B <=> p \in C)
              /\ p \in B (+) C <=> ~(p \in B <=> p \in C)
            BY <3>1
        <3> QED
            BY <3>2
    <2>3. p \in (IF i = n - 1 THEN 0 .. s - 1 ELSE 0 .. WORD - 1) <=> (i = n - 1 => p < s)
        BY <1>2, <1>3
    <2>4. p \in out(i) <=> p \in (A[i] (+) B) (+) C /\ (i = n - 1 => p < s)
        BY <2>3 DEF out
    <2> HIDE DEF B, C
    <2>5. /\ WORD * i + p \in V <=> p \in A[i]
          /\ WORD * i + p + PARAM_N \in V <=> p \in B (+) C
          /\ WORD * i + p < PARAM_N <=> (i = n - 1 => p < s)
        BY <1>8 DEF B, C
    <2> QED
        BY <2>1, <2>2, <2>4, <2>5
<1>10. ASSUME NEW e PROVE e \in Bits(R) <=> e \in {d \in 0 .. PARAM_N - 1 : ~(d \in V <=> d + PARAM_N \in V)}
    <2>1. Bits(R) = Value(R, 0, n)
        BY <1>3, <1>6, BitsAre
    <2>2. CASE e \notin Nat
        BY <2>1, <2>2 DEF Value
    <2>3. CASE e \in Nat
        <3> DEFINE i == e \div WORD
                   p == e % WORD
        <3>1. i \in Nat /\ p \in 0 .. WORD - 1 /\ e = WORD * i + p
            <4>1. e \in Int
                BY <2>3
            <4>2. e \div WORD \in Nat
                BY <1>3, <2>3, QuotientBelow
            <4> QED
                BY <1>3, <4>1, <4>2, ByDigits
        <3>2. e \in Bits(R) <=> i < n /\ p \in R[0 + i]
            BY <2>1, <2>3 DEF Value
        <3> HIDE DEF i, p
        <3>3. CASE i < n
            <4>1. i \in 0 .. n - 1 /\ 0 + i = i
                BY <3>1, <3>3
            <4>2. p \in R[i] <=> e < PARAM_N /\ ~(e \in V <=> e + PARAM_N \in V)
                BY <1>9, <3>1, <4>1
            <4>3. e \in 0 .. PARAM_N - 1 <=> e < PARAM_N
                BY <1>3, <2>3
            <4> QED
                BY <3>2, <3>3, <4>1, <4>2, <4>3
        <3>4. CASE ~(i < n)
            <4>1. WORD * n <= WORD * i
                BY <1>3, <3>1, <3>4, Monotone DEF WordFits
            <4>2. WORD * n = WORD * (n - 1) + WORD
                BY <1>3, SMT
            <4>3. e >= PARAM_N
                BY <1>2, <1>3, <2>3, <3>1, <4>1, <4>2, SMT
            <4> QED
                BY <1>3, <2>3, <3>2, <3>4, <4>3
        <3> QED
            BY <3>3, <3>4
    <2> QED
        BY <2>2, <2>3
<1> QED
    BY <1>1, <1>6, <1>10 DEF R, V, Arrays

PairsOf(a, b, d) == {p \in a \X b : p[1] + p[2] = d}

(* The pairs of bits with a sum are as many as the ways to the sum.         *)
LEMMA PairsAreWays ==
    ASSUME NEW a, NEW b, BitSet(a), BitSet(b), NEW d \in Int
    PROVE  IsFiniteSet(PairsOf(a, b, d)) /\ (Odd(PairsOf(a, b, d)) <=> Odd(Ways(a, b, d)))
<1> DEFINE A == Ways(a, b, d)
           P == PairsOf(a, b, d)
           f == [i \in A |-> <<i, d - i>>]
<1>1. a \in SUBSET Int /\ b \in SUBSET Int /\ IsFiniteSet(A) /\ A \subseteq a
    BY FewWays DEF BitSet, Ways
<1>2. \A i \in A : <<i, d - i>> \in P
    <2> SUFFICES ASSUME NEW i \in A PROVE <<i, d - i>> \in P
        OBVIOUS
    <2>1. i \in a /\ d - i \in b /\ i \in Int
        BY <1>1 DEF Ways
    <2>2. i + (d - i) = d
        BY <2>1
    <2> QED
        BY <2>1, <2>2 DEF PairsOf
<1>3. \A p \in P : p[1] \in A /\ p = <<p[1], d - p[1]>>
    <2> SUFFICES ASSUME NEW p \in P PROVE p[1] \in A /\ p = <<p[1], d - p[1]>>
        OBVIOUS
    <2>1. p \in a \X b /\ p[1] + p[2] = d
        BY DEF PairsOf
    <2>2. p[1] \in a /\ p[2] \in b /\ p = <<p[1], p[2]>>
        BY <2>1
    <2>3. p[1] \in Int /\ p[2] \in Int
        BY <1>1, <2>2
    <2>4. p[2] = d - p[1]
        BY <2>1, <2>3
    <2> QED
        BY <2>2, <2>4 DEF Ways
<1> HIDE DEF A, P
<1>4. f \in Bijection(A, P)
    <2>1. f \in [A -> P]
        BY <1>2
    <2>2. \A i, j \in A : f[i] = f[j] => i = j
        OBVIOUS
    <2>3. \A p \in P : \E i \in A : f[i] = p
        <3> SUFFICES ASSUME NEW p \in P PROVE p[1] \in A /\ f[p[1]] = p
            OBVIOUS
        <3> QED
            BY <1>3
    <2> QED
        BY <2>1, <2>2, <2>3 DEF Bijection, Injection, Surjection, IsInjective
<1>5. Odd(A) <=> Odd(P)
    BY <1>1, <1>4, OddBijection
<1>6. IsFiniteSet(P)
    BY <1>1, <1>4, FS_Bijection DEF ExistsBijection
<1> QED
    BY <1>5, <1>6 DEF A, P

(* The product modulo X^PARAM_N - 1 adds to every bit the one PARAM_N above. *)
LEMMA CyclicIs ==
    ASSUME PARAM_N \in Nat \ {0}, NEW a \in SUBSET Nat, NEW b \in SUBSET Nat,
           BitSet(a), BitSet(b), Fits(a, b)
    PROVE  CyclicProduct(a, b) = {e \in 0 .. PARAM_N - 1 :
               ~(e \in Conv(a, b) <=> e + PARAM_N \in Conv(a, b))}
<1> SUFFICES ASSUME NEW e \in 0 .. PARAM_N - 1
             PROVE  Odd({p \in a \X b : (p[1] + p[2]) % PARAM_N = e})
                        <=> ~(e \in Conv(a, b) <=> e + PARAM_N \in Conv(a, b))
    BY DEF CyclicProduct, Odd
<1> DEFINE T == {p \in a \X b : (p[1] + p[2]) % PARAM_N = e}
           low == PairsOf(a, b, e)
           high == PairsOf(a, b, e + PARAM_N)
<1>1. ASSUME NEW s \in Nat, s < 2 * PARAM_N
      PROVE  s % PARAM_N = e <=> ~(s = e <=> s = e + PARAM_N)
    <2>1. CASE s < PARAM_N
        <3>1. s % PARAM_N = s
            BY <2>1
        <3> QED
            BY <2>1, <3>1
    <2>2. CASE ~(s < PARAM_N)
        <3>1. PICK r \in 0 .. PARAM_N - 1 : r = s - PARAM_N
            BY <1>1, <2>2
        <3>2. s % PARAM_N = r
            BY <3>1, <1>1, <2>2
        <3> QED
            BY <3>1, <3>2
    <2> QED
        BY <2>1, <2>2
<1>2. T = low (+) high
    <2> SUFFICES ASSUME NEW p \in a \X b
                 PROVE  (p[1] + p[2]) % PARAM_N = e
                            <=> ~(p[1] + p[2] = e <=> p[1] + p[2] = e + PARAM_N)
        BY DEF PairsOf, (+)
    <2>1. p[1] \in a /\ p[2] \in b
        OBVIOUS
    <2>2. PICK i \in Nat, j \in Nat : i = p[1] /\ j = p[2] /\ i \in a /\ j \in b
        BY <2>1
    <2>3. i + j < 2 * PARAM_N /\ i + j \in Nat
        BY <2>2 DEF Fits
    <2> QED
        BY <1>1, <2>2, <2>3
<1>3. /\ IsFiniteSet(low) /\ IsFiniteSet(high)
      /\ Odd(low) <=> Odd(Ways(a, b, e))
      /\ Odd(high) <=> Odd(Ways(a, b, e + PARAM_N))
    BY PairsAreWays
<1> HIDE DEF T, low, high
<1>4. Odd(T) <=> ~(Odd(low) <=> Odd(high))
    BY <1>2, <1>3, OddSum
<1>5. /\ e \in Conv(a, b) <=> Odd(Ways(a, b, e))
      /\ e + PARAM_N \in Conv(a, b) <=> Odd(Ways(a, b, e + PARAM_N))
    BY DEF Conv
<1> QED
    BY <1>3, <1>4, <1>5 DEF T

(* An array of words has finitely many bits.                               *)
LEMMA ArraysAreBits ==
    ASSUME WordFits, NEW n \in Nat, NEW v \in [0 .. n - 1 -> Word]
    PROVE  Bits(v) \in SUBSET Nat /\ BitSet(Bits(v))
<1>1. Bits(v) = Value(v, 0, n)
    BY BitsAre
<1>2. WORD * n \in Int
    BY DEF WordFits
<1>3. Value(v, 0, n) \subseteq 0 .. WORD * n - 1
    <2> SUFFICES ASSUME NEW e \in Value(v, 0, n) PROVE e \in 0 .. WORD * n - 1
        OBVIOUS
    <2>1. e \in Nat /\ e \div WORD < n
        BY DEF Value
    <2>2. e < WORD * n
        BY <2>1, QuotientBelow
    <2> QED
        BY <1>2, <2>1, <2>2
<1>4. PICK m \in Int, k \in Int : m = 0 /\ k = WORD * n - 1
    BY <1>2
<1>5. Bits(v) \in SUBSET (m .. k)
    BY <1>1, <1>3, <1>4
<1>6. BitSet(Bits(v))
    BY <1>5, FiniteInterval
<1>7. Bits(v) \subseteq Nat
    BY <1>1 DEF Value
<1> QED
    BY <1>6, <1>7

(* vect_mul multiplies modulo X^PARAM_N - 1 and leaves the memory behind its *)
(* own alone.                                                              *)
LEMMA VectMulMultiplies ==
    ASSUME SizesFit, PARAM_N % WORD # 0, NEW v1 \in Arrays, NEW v2 \in Arrays
    PROVE  /\ vect_mul(v1, v2) \in Arrays
           /\ Fits(Bits(v1), Bits(v2)) =>
                  Bits(vect_mul(v1, v2)) = CyclicProduct(Bits(v1), Bits(v2))
           /\ \A k \in MemorySize .. 2 * MemorySize - 1 : multiplied(v1, v2)[k] = Behind
<1>1. PICK n \in Nat \ {0} : n = VEC_N_SIZE_64 /\ MemorySize = 12 * n
    BY Sizes
<1>2. WordFits /\ PARAM_N \in Nat \ {0}
    BY DEF SizesFit
<1> DEFINE mem == multiplied(v1, v2)
           A == [i \in 0 .. 2*n - 1 |-> mem[2*n + i]]
           C == Conv(Bits(v1), Bits(v2))
<1>3. /\ mem \in Memories /\ AreWords(mem, 2*n, 2*n)
      /\ Value(mem, 2*n, 2*n) = C
      /\ \A k \in MemorySize .. 2 * MemorySize - 1 : mem[k] = Behind
    BY <1>1, MultipliedIs
<1> HIDE DEF mem, C
<1>4. vect_mul(v1, v2) = reduce(A)
    BY <1>1 DEF vect_mul, mem
<1>5. \A i \in 0 .. 2*n - 1 : A[i] = mem[2*n + i] /\ A[i] \in Word
    <2> SUFFICES ASSUME NEW i \in 0 .. 2*n - 1 PROVE mem[2*n + i] \in Word
        OBVIOUS
    <2>1. 2*n + i \in 2*n .. 2*n + 2*n - 1
        OBVIOUS
    <2> QED
        BY <1>3, <2>1 DEF AreWords
<1>6. A \in [0 .. 2*n - 1 -> Word]
    BY <1>5
<1>7. Value(A, 0, 2*n) = C
    <2> SUFFICES ASSUME NEW e \in Nat, e \div WORD < 2*n
                 PROVE  A[0 + (e \div WORD)] = mem[2*n + (e \div WORD)]
        BY <1>3 DEF Value
    <2>1. e \div WORD \in Nat
        BY <1>2, QuotientBelow
    <2>2. 0 + (e \div WORD) = e \div WORD /\ e \div WORD \in 0 .. 2*n - 1
        BY <2>1
    <2> HIDE DEF A
    <2> QED
        BY <1>5, <2>2
<1> HIDE DEF A
<1>8. /\ reduce(A) \in Arrays
      /\ Bits(reduce(A)) = {e \in 0 .. PARAM_N - 1 : ~(e \in C <=> e + PARAM_N \in C)}
    BY <1>1, <1>6, <1>7, ReduceIs
<1>9. ASSUME Fits(Bits(v1), Bits(v2))
      PROVE  CyclicProduct(Bits(v1), Bits(v2)) = {e \in 0 .. PARAM_N - 1 : ~(e \in C <=> e + PARAM_N \in C)}
    <2>1. v1 \in [0 .. n - 1 -> Word] /\ v2 \in [0 .. n - 1 -> Word]
        BY <1>1 DEF Arrays
    <2>2. /\ Bits(v1) \in SUBSET Nat /\ BitSet(Bits(v1))
          /\ Bits(v2) \in SUBSET Nat /\ BitSet(Bits(v2))
        BY <1>2, <2>1, ArraysAreBits
    <2> QED
        BY <1>2, <1>9, <2>2, CyclicIs DEF C
<1> QED
    BY <1>3, <1>4, <1>8, <1>9 DEF mem

-----------------------------------------------------------------------------
(* Strings                                                                 *)

IsString(s, n) == s = [k \in 1..n |-> s[k]]

LEMMA StringsAreSeq ==
    ASSUME NEW s, NEW n \in Nat, IsString(s, n)
    PROVE  s \in Seq({s[k] : k \in 1..n}) /\ Len(s) = n /\ DOMAIN s = 1..n
<1> DEFINE S == {s[k] : k \in 1..n}
<1>1. s \in [1..n -> S]
    BY Zenon DEF IsString
<1> HIDE DEF S
<1> QED
    BY <1>1 DEF S

LEMMA SeqsAreStrings ==
    ASSUME NEW S, NEW s \in Seq(S)
    PROVE  IsString(s, Len(s)) /\ Len(s) \in Nat
<1>1. Len(s) \in Nat /\ s \in [1..Len(s) -> S]
    OBVIOUS
<1> QED
    BY <1>1 DEF IsString

LEMMA Joined ==
    ASSUME NEW s, NEW t, NEW m \in Nat, NEW n \in Nat, IsString(s, m), IsString(t, n)
    PROVE  IsString(s \o t, m + n)
<1> DEFINE S == {s[k] : k \in 1..m} \cup {t[k] : k \in 1..n}
<1>1. s \in Seq(S) /\ t \in Seq(S) /\ Len(s) = m /\ Len(t) = n
    <2>1. s \in [1..m -> S] /\ t \in [1..n -> S]
        BY Zenon DEF IsString
    <2> HIDE DEF S
    <2> QED
        BY <2>1, StringsAreSeq
<1> HIDE DEF S
<1>2. s \o t \in Seq(S) /\ Len(s \o t) = m + n
    BY <1>1
<1> QED
    BY <1>2, SeqsAreStrings

LEMMA Cut ==
    ASSUME NEW s, NEW first \in Nat, NEW size \in Nat
    PROVE  IsString(From(s, first, size), size)
<1> DEFINE S == {s[k] : k \in first + 1 .. first + size}
<1>1. \A k \in first + 1 .. first + size : s[k] \in S
    OBVIOUS
<1> HIDE DEF S
<1>2. PICK m \in Int, n \in Int : m = first + 1 /\ n = first + size
    OBVIOUS
<1>3. /\ SubSeq(s, m, n) \in Seq(S)
      /\ Len(SubSeq(s, m, n)) = IF m <= n THEN n - m + 1 ELSE 0
    BY <1>1, <1>2, SubSeqProperties
<1>4. Len(SubSeq(s, m, n)) = size
    BY <1>2, <1>3
<1> QED
    BY <1>2, <1>3, <1>4, SeqsAreStrings DEF From

(* Writing to a buffer keeps its length.                                   *)
LEMMA Written ==
    ASSUME NEW buffer, NEW n \in Nat, IsString(buffer, n), NEW s
    PROVE  IsString(Into(buffer, s), n)
<1>1. DOMAIN buffer = 1..n
    BY StringsAreSeq
<1> QED
    BY <1>1, Zenon DEF Into, IsString

-----------------------------------------------------------------------------
(* The words of a string of bytes, whatever it is.                         *)
LEMMA LoadsAreWords ==
    ASSUME ParametersFit, NEW n \in Nat, NEW string, NEW length \in Nat, IsString(string, length)
    PROVE  load8_arr(n, string) \in [0 .. n - 1 -> Word]
<1>1. WORD \in Nat \ {0} /\ BYTE \in Nat \ {0} /\ WORD % BYTE = 0
    BY DEF ParametersFit
<1>2. PICK w \in Nat : w = PerWord /\ BYTE * w = WORD
    <2>1. WORD \div BYTE \in Nat /\ WORD = BYTE * (WORD \div BYTE) + (WORD % BYTE)
        BY <1>1, SMT
    <2> QED
        BY <1>1, <2>1 DEF PerWord
<1>3. ASSUME NEW first, NEW size \in Int, size <= w
      PROVE  load8(string, first, size) \in Word
    <2> SUFFICES ASSUME NEW k \in 0 .. size - 1, NEW p \in BitsOfByte(string[first + k + 1])
                 PROVE  BYTE * k + p \in 0 .. WORD - 1
        BY DEF load8, Word
    <2>1. p \in 0 .. BYTE - 1
        BY DEF BitsOfByte
    <2>2. BYTE * k \in Nat
        BY <1>1, SMT
    <2>3. BYTE * (k + 1) <= BYTE * w
        <3>1. k + 1 \in Int /\ k + 1 <= w /\ BYTE \in Nat /\ w \in Int
            BY <1>1, <1>3
        <3> QED
            BY <3>1, Monotone
    <2>4. BYTE * (k + 1) = BYTE * k + BYTE
        BY <1>1, SMT
    <2> QED
        BY <1>1, <1>2, <2>1, <2>2, <2>3, <2>4
<1> DEFINE left(i) == Len(string) - PerWord * i
           word(i) == IF left(i) <= 0 THEN {}
                      ELSE load8(string, PerWord * i, IF left(i) >= PerWord THEN PerWord ELSE left(i))
<1>4. ASSUME NEW i \in 0 .. n - 1 PROVE word(i) \in Word
    <2>1. {} \in Word
        BY DEF Word
    <2>2. left(i) \in Int
        <3>1. Len(string) \in Nat
            BY StringsAreSeq
        <3>2. PerWord * i \in Int
            BY <1>2
        <3> QED
            BY <3>1, <3>2
    <2>3. PICK size \in Int : size = (IF left(i) >= PerWord THEN PerWord ELSE left(i)) /\ size <= w
        <3> HIDE DEF left
        <3> QED
            BY <1>2, <2>2
    <2>4. load8(string, PerWord * i, size) \in Word
        BY <1>3, <2>3
    <2> HIDE DEF left
    <2> QED
        BY <2>1, <2>3, <2>4
<1>5. load8_arr(n, string) = [i \in 0 .. n - 1 |-> word(i)]
    BY DEF load8_arr
<1> HIDE DEF word
<1> QED
    BY <1>4, <1>5

(* Seeds, expanded, and stored arrays are strings of the length asked for.  *)
LEMMA ExpansionsAreStrings ==
    ASSUME NEW ctx, NEW n, NEW words
    PROVE  IsString(seedexpander(ctx, n), n) /\ IsString(store8_arr(n, words), n)
BY DEF IsString, seedexpander, store8_arr

LEMMA ArraysFit ==
    ASSUME ParametersFit
    PROVE  /\ SizesFit /\ PARAM_N % WORD # 0
           /\ VEC_N_SIZE_BYTES \in Nat /\ VEC_N1N2_SIZE_BYTES \in Nat
           /\ PUBLIC_KEY_BYTES \in Nat /\ SECRET_KEY_BYTES \in Nat /\ CIPHERTEXT_BYTES \in Nat
<1>1. /\ {WORD, WINDOW, BYTE, PARAM_N, PARAM_N1N2, VEC_K_SIZE_BYTES} \subseteq Nat \ {0}
      /\ {SEED_BYTES, SALT_SIZE_BYTES} \subseteq Nat /\ WORD % WINDOW = 0 /\ PARAM_N % WORD # 0
    BY DEF ParametersFit
<1>2. ASSUME NEW a \in Nat PROVE CeilDivide(a, BYTE) \in Nat
    <2>1. a + BYTE - 1 \in Nat /\ BYTE \in Nat \ {0}
        BY <1>1
    <2>2. \A d \in Nat : d \div BYTE \in Nat
        BY <2>1, SMT
    <2> QED
        BY <2>1, <2>2 DEF CeilDivide
<1>3. VEC_N_SIZE_BYTES \in Nat /\ VEC_N1N2_SIZE_BYTES \in Nat
    BY <1>1, <1>2 DEF VEC_N_SIZE_BYTES, VEC_N1N2_SIZE_BYTES
<1> QED
    BY <1>1, <1>3 DEF SizesFit, WordFits, PUBLIC_KEY_BYTES, SECRET_KEY_BYTES, CIPHERTEXT_BYTES

(* What is sampled, and what is read back from strings, are arrays.        *)
LEMMA UniformVectors ==
    ASSUME ParametersFit, NEW ctx
    PROVE  vect_set_random(ctx) \in Arrays
<1>1. VEC_N_SIZE_64 \in Nat /\ VEC_N_SIZE_BYTES \in Nat
    BY ArraysFit, Sizes
<1> DEFINE w == load8_arr(VEC_N_SIZE_64, seedexpander(ctx, VEC_N_SIZE_BYTES))
<1>2. w \in Arrays
    BY <1>1, ExpansionsAreStrings, LoadsAreWords DEF Arrays
<1>3. vect_set_random(ctx) = [w EXCEPT ![VEC_N_SIZE_64 - 1] = @ \cap RED_MASK]
    BY DEF vect_set_random
<1> HIDE DEF w
<1>4. \A a \in Word : a \cap RED_MASK \in Word
    BY DEF Word
<1> QED
    BY <1>2, <1>3, <1>4 DEF Arrays

LEMMA PublicKeys ==
    ASSUME ParametersFit, NEW public
    PROVE  /\ public_key_from_string(public).h \in Arrays
           /\ public_key_from_string(public).s \in Arrays
<1>1. VEC_N_SIZE_64 \in Nat /\ VEC_N_SIZE_BYTES \in Nat /\ SEED_BYTES \in Nat
    BY ArraysFit, Sizes DEF ParametersFit
<1>2. IsString(From(public, SEED_BYTES, VEC_N_SIZE_BYTES), VEC_N_SIZE_BYTES)
    BY <1>1, Cut
<1>3. load8_arr(VEC_N_SIZE_64, From(public, SEED_BYTES, VEC_N_SIZE_BYTES)) \in Arrays
    BY <1>1, <1>2, LoadsAreWords DEF Arrays
<1> QED
    BY <1>3, UniformVectors DEF public_key_from_string

LEMMA Ciphertexts ==
    ASSUME ParametersFit, NEW c
    PROVE  ciphertext_from_string(c).u \in Arrays
<1>1. VEC_N_SIZE_64 \in Nat /\ VEC_N_SIZE_BYTES \in Nat
    BY ArraysFit, Sizes
<1>2. IsString(From(c, 0, VEC_N_SIZE_BYTES), VEC_N_SIZE_BYTES)
    BY <1>1, Cut
<1>3. load8_arr(VEC_N_SIZE_64, From(c, 0, VEC_N_SIZE_BYTES)) \in Arrays
    BY <1>1, <1>2, LoadsAreWords DEF Arrays
<1> QED
    BY <1>3 DEF ciphertext_from_string

(* Bits as words                                                           *)
LEMMA ToWordsAre ==
    ASSUME WordFits, NEW bits \in SUBSET Int, NEW n \in Nat
    PROVE  ToWords(bits, n) \in [0 .. n - 1 -> Word]
<1>1. ASSUME NEW i \in 0 .. n - 1
      PROVE  {p % WORD : p \in {q \in bits : q \div WORD = i}} \in Word
    <2>1. \A p \in bits : p % WORD \in 0 .. WORD - 1
        BY ByDigits
    <2> QED
        BY <2>1 DEF Word
<1> QED
    BY <1>1 DEF ToWords

(* The local variables                                                     *)
Names == {"x", "y", "h", "s", "r1", "r2", "e", "tmp", "sk_seed", "sigma", "pk_seed", "m", "theta",
          "salt", "to", "u", "v", "u2", "v2"}

LEMMA LocalsAre == DOMAIN Locals = Names
    BY DEF Locals, Names

LEMMA Queues ==
    ASSUME NEW a, NEW b, NEW c
    PROVE  /\ <<a, b, c>> # << >> /\ Head(<<a, b, c>>) = a /\ Tail(<<a, b, c>>) = <<b, c>>
           /\ <<a, b>> # << >> /\ Head(<<a, b>>) = a /\ Tail(<<a, b>>) = <<b>>
           /\ <<a>> # << >> /\ Head(<<a>>) = a /\ Tail(<<a>>) = << >>
    OBVIOUS

(* SHAKE-256 delivers bytes.                                               *)
ShakeGivesBytes == \A string, k : shake256(string, k) \in ByteValues

-----------------------------------------------------------------------------
(* The inductive invariant                                                 *)

(* The sampler works for the vector at the head of the queue.              *)
SamplerInv ==
    /\ weight \in Nat /\ at \in Int
    /\ support \in [0 .. weight - 1 -> Int] /\ drawn \in SUBSET Int
    /\ at # -1 => queue # << >>

(* Where the vectors that are multiplied come from                         *)
SampledInv ==
    /\ pc \in {"keygen_h", "decrypt"} =>
           queue = <<"x", "y">> \/ queue = <<"y">> \/ (queue = << >> /\ loc.y \in Arrays)
    /\ pc = "encrypt_u" =>
           \/ queue = <<"r1", "r2", "e">> \/ queue = <<"r2", "e">>
           \/ (queue = <<"e">> \/ queue = << >>) /\ loc.r2 \in Arrays
    /\ pc \notin {"keygen_h", "decrypt", "encrypt_u"} => queue = << >>

LocalsInv ==
    /\ pc \in {"keypair", "keygen_h", "keygen_s", "enc", "encrypt_u", "encrypt_mg", "encrypt_v",
               "enc_end", "dec", "decrypt", "decrypt_m", "dec_end", "print"}
    /\ pc # "keypair" => DOMAIN loc = Names
    /\ pc \in {"encrypt_u", "encrypt_mg"} => loc.s \in Arrays
    /\ pc = "encrypt_u" => loc.h \in Arrays
    /\ pc = "encrypt_mg" => loc.r2 \in Arrays
    /\ pc = "decrypt" => loc.u \in Arrays
    /\ pc \in {"encrypt_u", "encrypt_mg", "encrypt_v"} => loc.to \in {"enc_end", "dec_end"}

Multiplying == {"keygen_s", "encrypt_mg", "encrypt_v", "decrypt_m"}

ProductInv ==
    /\ pc \in Multiplying => factors \in Arrays \X Arrays
    /\ pc \notin Multiplying => factors = None /\ product = None
    /\ product # None => product = vect_mul(factors[1], factors[2])

(* The strings of which a secret key is made, and how far the buffers of the *)
(* secrets are written                                                     *)
SecretsInv ==
    /\ pc \in {"keygen_h", "keygen_s"} =>
           /\ IsString(loc.sk_seed, SEED_BYTES) /\ IsString(loc.pk_seed, SEED_BYTES)
           /\ IsString(loc.sigma, VEC_K_SIZE_BYTES)
    /\ \A k \in DOMAIN sk : k <= SECRET_KEY_BYTES \/ sk[k] = 0
    /\ DOMAIN key_enc = 1..SHAKE256_512_BYTES /\ DOMAIN key_dec = 1..SHAKE256_512_BYTES

KemInv == SamplerInv /\ SampledInv /\ LocalsInv /\ ProductInv /\ SecretsInv

-----------------------------------------------------------------------------
(* The sampler                                                             *)

LEMMA DrawnNumbers ==
    ASSUME ParametersFit, ShakeGivesBytes, NEW ctx, NEW w \in Nat, NEW i \in 0 .. w - 1
    PROVE  Numbers(seedexpander(ctx, 4 * w))[i] \in Int
<1> DEFINE bytes == seedexpander(ctx, 4 * w)
           byte(k) == bytes[4*i + k + 1] * 2^(BYTE * k)
<1>1. BYTE \in Nat
    BY DEF ParametersFit
<1>2. Len(bytes) = 4 * w
    <2>1. 4 * w \in Nat
        OBVIOUS
    <2> QED
        BY <2>1, ExpansionsAreStrings, StringsAreSeq
<1>3. Len(bytes) \div 4 = w
    BY <1>2
<1>4. ASSUME NEW k \in 0..3 PROVE byte(k) \in Int
    <2>1. 4*i + k + 1 \in 1 .. 4*w
        OBVIOUS
    <2>2. bytes[4*i + k + 1] \in Int
        BY <2>1 DEF ShakeGivesBytes, ByteValues, seedexpander
    <2>3. BYTE * k \in Nat
        BY <1>1, SMT
    <2>4. 2^(BYTE * k) \in Int
        BY <2>3
    <2> HIDE DEF bytes
    <2> QED
        BY <2>2, <2>4
<1>5. Numbers(bytes)[i] = byte(0) + byte(1) + byte(2) + byte(3)
    <2> HIDE DEF bytes
    <2> QED
        BY <1>3 DEF Numbers
<1> HIDE DEF byte
<1> QED
    BY <1>4, <1>5

LEMMA ReducedIsInt ==
    ASSUME ParametersFit, NEW a \in Int, NEW i \in 0 .. PARAM_N - 1
    PROVE  FW!reduce(a, i) \in Int
<1> DEFINE D == 2^(4 * BYTE)
<1>1. PARAM_N \in Nat \ {0} /\ D \in Int /\ D > 0
    <2>1. 4 * BYTE \in Nat /\ PARAM_N \in Nat \ {0} /\ 2 * PARAM_N <= D
        BY DEF ParametersFit
    <2>2. D \in Int
        BY <2>1
    <2> HIDE DEF D
    <2> QED
        BY <2>1, <2>2
<1> DEFINE n == PARAM_N - i
           q == (a * (D \div n)) \div D
           r == a - q * n
<1>2. n \in Nat \ {0}
    BY <1>1
<1> HIDE DEF D, n
<1>3. D \div n \in Int
    BY <1>1, <1>2, SMT
<1>4. a * (D \div n) \in Int
    BY <1>3, SMT
<1>5. q \in Int
    BY <1>1, <1>4, SMT
<1> HIDE DEF q
<1>6. r \in Int
    BY <1>2, <1>5, SMT
<1> HIDE DEF r
<1>7. \A x \in Int : x % D \in Int
    BY <1>1, SMT
<1>8. FW!cond_sub(r, n) = IF (r - n) % D >= D \div 2 THEN (((r - n) % D) + n) % D ELSE (r - n) % D
    BY DEF FW!cond_sub, D
<1>9. FW!reduce(a, i) = FW!cond_sub(r, n)
    BY DEF FW!reduce, FW!m_val, D, n, q, r
<1>10. (r - n) % D \in Int
    BY <1>2, <1>6, <1>7
<1>11. (((r - n) % D) + n) % D \in Int
    BY <1>2, <1>7, <1>10
<1> QED
    BY <1>8, <1>9, <1>10, <1>11

LEMMA DrawStep ==
    ASSUME ParametersFit, ShakeGivesBytes, KemInv, Draw
    PROVE  KemInv'
<1>1. /\ queue # << >> /\ queue' = queue
      /\ FW!Draw(WeightOf(Head(queue)),
                 Numbers(seedexpander(expander, 4 * WeightOf(Head(queue)))))
    BY DEF Draw
<1>2. WeightOf(Head(queue)) \in 1..PARAM_N
    <2>1. Head(queue) \in {"x", "y", "r1", "r2", "e"}
        BY <1>1, Queues DEF KemInv, SampledInv
    <2>2. {PARAM_OMEGA, PARAM_OMEGA_R, PARAM_OMEGA_E} \subseteq 1..PARAM_N
        BY DEF ParametersFit
    <2> QED
        BY <2>1, <2>2 DEF WeightOf
<1>3. PICK w \in 1..PARAM_N : w = WeightOf(Head(queue))
    BY <1>2
<1> DEFINE a == Numbers(seedexpander(expander, 4 * w))
<1>4. /\ weight' = w /\ at' = w - 1 /\ drawn' = {}
      /\ support' = [i \in 0 .. w - 1 |-> i + FW!reduce(a[i], i)]
    BY <1>1, <1>3 DEF FW!Draw
<1>5. PARAM_N \in Nat
    BY DEF ParametersFit
<1>6. \A i \in 0 .. w - 1 : i + FW!reduce(a[i], i) \in Int
    <2> SUFFICES ASSUME NEW i \in 0 .. w - 1 PROVE i + FW!reduce(a[i], i) \in Int
        OBVIOUS
    <2>1. a[i] \in Int
        BY <1>5, DrawnNumbers
    <2>2. i \in 0 .. PARAM_N - 1
        BY <1>5
    <2> HIDE DEF a
    <2>3. FW!reduce(a[i], i) \in Int
        BY <2>1, <2>2, ReducedIsInt
    <2> QED
        BY <2>3
<1> HIDE DEF a
<1>7. SamplerInv'
    BY <1>1, <1>4, <1>5, <1>6 DEF SamplerInv
<1> QED
    BY <1>1, <1>7 DEF KemInv, Draw, SampledInv, LocalsInv, ProductInv, SecretsInv, buffers

LEMMA SettleStep ==
    ASSUME ParametersFit, KemInv, Settle
    PROVE  KemInv'
<1>1. /\ at > 0 /\ at' = at - 1 /\ weight' = weight /\ drawn' = drawn
      /\ support' = [support EXCEPT ![at - 1] = IF FW!Repeated(at - 1) THEN at - 1 ELSE support[at - 1]]
    BY DEF Settle, FW!Settle
<1>2. SamplerInv
    BY DEF KemInv
<1>3. queue' = queue /\ queue # << >>
    BY <1>1, <1>2 DEF Settle, SamplerInv
<1>4. support' \in [0 .. weight - 1 -> Int]
    <2>1. support \in [0 .. weight - 1 -> Int] /\ at - 1 \in Int
        BY <1>2 DEF SamplerInv
    <2> DEFINE new == IF FW!Repeated(at - 1) THEN at - 1 ELSE support[at - 1]
    <2>2. support' = [support EXCEPT ![at - 1] = new]
        BY <1>1
    <2>3. ASSUME NEW j \in 0 .. weight - 1 PROVE support'[j] \in Int
        <3>1. j = at - 1 => new \in Int
            BY <2>1
        <3> HIDE DEF new
        <3> QED
            BY <2>1, <2>2, <3>1
    <2> HIDE DEF new
    <2> QED
        BY <2>1, <2>2, <2>3
<1>5. SamplerInv'
    BY <1>1, <1>2, <1>3, <1>4 DEF SamplerInv
<1> QED
    BY <1>3, <1>5 DEF KemInv, Settle, SampledInv, LocalsInv, ProductInv, SecretsInv, buffers

LEMMA CollectStep ==
    ASSUME ParametersFit, KemInv, Collect
    PROVE  KemInv'
<1>1. /\ at = 0 /\ at' = -1 /\ weight' = weight /\ support' = support
      /\ drawn' = {support[i] : i \in 0 .. weight - 1}
    BY DEF Collect, FW!Collect
<1>2. SamplerInv /\ queue # << >>
    BY <1>1 DEF KemInv, SamplerInv
<1>3. drawn' \in SUBSET Int
    BY <1>1, <1>2 DEF SamplerInv
<1>4. SamplerInv'
    BY <1>1, <1>2, <1>3 DEF SamplerInv
<1> DEFINE w == ToWords(drawn', VEC_N_SIZE_64)
<1>5. w \in Arrays
    BY <1>3, ArraysFit, Sizes, ToWordsAre DEF Arrays, SizesFit
<1>6. /\ loc' = [loc EXCEPT ![Head(queue)] = w] /\ queue' = Tail(queue)
      /\ pc' = pc /\ factors' = factors /\ product' = product
      /\ sk' = sk /\ key_enc' = key_enc /\ key_dec' = key_dec
    BY DEF Collect, buffers
<1> HIDE DEF w
<1>7. pc \in {"keygen_h", "decrypt", "encrypt_u"} /\ DOMAIN loc = Names
    BY <1>2 DEF KemInv, SampledInv, LocalsInv
<1>8. Head(queue) \in {"x", "y", "r1", "r2", "e"}
    BY <1>2, Queues DEF KemInv, SampledInv
<1>9. /\ DOMAIN loc' = Names
      /\ loc'.s = loc.s /\ loc'.h = loc.h /\ loc'.u = loc.u /\ loc'.to = loc.to
      /\ loc'.sk_seed = loc.sk_seed /\ loc'.pk_seed = loc.pk_seed /\ loc'.sigma = loc.sigma
    BY <1>6, <1>7, <1>8 DEF Names
<1>10. SampledInv'
    <2>1. CASE pc \in {"keygen_h", "decrypt"}
        <3>1. CASE queue = <<"x", "y">>
            BY <1>6, <2>1, <3>1, Queues DEF SampledInv
        <3>2. CASE queue = <<"y">>
            <4>1. queue' = << >> /\ Head(queue) = "y"
                BY <1>6, <3>2, Queues
            <4>2. loc'.y \in Arrays
                BY <1>5, <1>6, <1>7, <4>1 DEF Names
            <4> QED
                BY <1>6, <2>1, <4>1, <4>2 DEF SampledInv
        <3> QED
            BY <1>2, <2>1, <3>1, <3>2 DEF KemInv, SampledInv
    <2>2. CASE pc = "encrypt_u"
        <3>1. CASE queue = <<"r1", "r2", "e">>
            BY <1>6, <2>2, <3>1, Queues DEF SampledInv
        <3>2. CASE queue = <<"r2", "e">>
            <4>1. queue' = <<"e">> /\ Head(queue) = "r2"
                BY <1>6, <3>2, Queues
            <4>2. loc'.r2 \in Arrays
                BY <1>5, <1>6, <1>7, <4>1 DEF Names
            <4> QED
                BY <1>6, <2>2, <4>1, <4>2 DEF SampledInv
        <3>3. CASE queue = <<"e">> /\ loc.r2 \in Arrays
            <4>1. queue' = << >> /\ Head(queue) = "e"
                BY <1>6, <3>3, Queues
            <4>2. loc'.r2 \in Arrays
                BY <1>6, <1>7, <3>3, <4>1 DEF Names
            <4> QED
                BY <1>6, <2>2, <4>1, <4>2 DEF SampledInv
        <3> QED
            BY <1>2, <2>2, <3>1, <3>2, <3>3 DEF KemInv, SampledInv
    <2> QED
        BY <1>7, <2>1, <2>2
<1>11. LocalsInv'
    BY <1>6, <1>7, <1>9 DEF KemInv, LocalsInv
<1>12. ProductInv' /\ SecretsInv'
    BY <1>6, <1>9 DEF KemInv, ProductInv, SecretsInv
<1> QED
    BY <1>4, <1>10, <1>11, <1>12 DEF KemInv

LEMMA VectMulStep ==
    ASSUME ParametersFit, KemInv, VectMul
    PROVE  KemInv'
<1>1. /\ factors # None /\ factors' = factors /\ product' = vect_mul(factors[1], factors[2])
      /\ UNCHANGED <<pc, queue, weight, support, at, drawn, loc, sk, key_enc, key_dec>>
    BY DEF VectMul, sampler, buffers
<1>2. ProductInv'
    BY <1>1 DEF KemInv, ProductInv
<1>3. SamplerInv' /\ SampledInv' /\ LocalsInv' /\ SecretsInv'
    BY <1>1 DEF KemInv, SamplerInv, SampledInv, LocalsInv, SecretsInv
<1> QED
    BY <1>2, <1>3 DEF KemInv

(* A part begins when nothing is to be sampled.                            *)
LEMMA Begun ==
    ASSUME KemInv, NEW label, Ready(label), UNCHANGED sampler
    PROVE  /\ pc = label /\ queue = << >> /\ SamplerInv'
           /\ SampledInv /\ LocalsInv /\ ProductInv /\ SecretsInv
<1>1. pc = label /\ queue = << >> /\ SamplerInv
    BY DEF Ready, KemInv
<1>2. at = -1
    BY <1>1 DEF SamplerInv
<1> QED
    BY <1>1, <1>2 DEF KemInv, SamplerInv, sampler

LEMMA KeygenSeedsStep ==
    ASSUME ParametersFit, KemInv, KeygenSeeds
    PROVE  KemInv'
<1>1. /\ Ready("keypair") /\ UNCHANGED sampler
      /\ pc' = "keygen_h" /\ queue' = <<"x", "y">>
      /\ UNCHANGED <<factors, product, sk, key_enc, key_dec>>
    BY DEF KeygenSeeds, buffers
<1>2. pc = "keypair" /\ SamplerInv' /\ ProductInv /\ SecretsInv
    BY <1>1, Begun
<1>3. PICK a, b, c : /\ IsString(a, SEED_BYTES) /\ IsString(b, VEC_K_SIZE_BYTES) /\ IsString(c, SEED_BYTES)
                     /\ loc' = [Locals EXCEPT !.sk_seed = a, !.sigma = b, !.pk_seed = c]
    <2> DEFINE first == after(prng, SEED_BYTES)
               second == after(first, VEC_K_SIZE_BYTES)
               a == seedexpander(prng, SEED_BYTES)
               b == seedexpander(first, VEC_K_SIZE_BYTES)
               c == seedexpander(second, SEED_BYTES)
    <2>1. loc' = [Locals EXCEPT !.sk_seed = a, !.sigma = b, !.pk_seed = c]
        BY DEF KeygenSeeds
    <2>2. IsString(a, SEED_BYTES) /\ IsString(b, VEC_K_SIZE_BYTES) /\ IsString(c, SEED_BYTES)
        BY ExpansionsAreStrings
    <2> HIDE DEF a, b, c
    <2> QED
        BY <2>1, <2>2
<1>4. DOMAIN loc' = Names /\ loc'.sk_seed = a /\ loc'.sigma = b /\ loc'.pk_seed = c
    BY <1>3, LocalsAre DEF Names
<1>5. SampledInv' /\ LocalsInv'
    BY <1>1, <1>4 DEF SampledInv, LocalsInv
<1>6. ProductInv' /\ SecretsInv'
    BY <1>1, <1>2, <1>3, <1>4 DEF ProductInv, SecretsInv, Multiplying
<1> QED
    BY <1>2, <1>5, <1>6 DEF KemInv

(* Two arrays to multiply                                                  *)
LEMMA ToMultiply ==
    ASSUME NEW v1 \in Arrays, NEW v2 \in Arrays, Multiply(v1, v2), pc' \in Multiplying
    PROVE  ProductInv'
<1>1. factors' \in Arrays \X Arrays /\ product' = None
    BY DEF Multiply
<1> QED
    BY <1>1 DEF ProductInv

LEMMA NothingToMultiply ==
    ASSUME NoProduct, pc' \notin Multiplying
    PROVE  ProductInv'
    BY DEF NoProduct, ProductInv

LEMMA KeygenHStep ==
    ASSUME ParametersFit, KemInv, KeygenH
    PROVE  KemInv'
<1> DEFINE h == vect_set_random(seedexpander_init(loc.pk_seed))
<1>1. /\ Ready("keygen_h") /\ UNCHANGED sampler
      /\ pc' = "keygen_s" /\ loc' = [loc EXCEPT !.h = h] /\ Multiply(loc.y, h)
      /\ UNCHANGED <<queue, sk, key_enc, key_dec>>
    BY DEF KeygenH, buffers
<1>2. /\ pc = "keygen_h" /\ queue = << >> /\ SamplerInv' /\ SampledInv /\ LocalsInv /\ SecretsInv
    BY <1>1, Begun
<1>3. h \in Arrays
    BY UniformVectors
<1> HIDE DEF h
<1>4. loc.y \in Arrays /\ DOMAIN loc = Names
    <2>1. <<"x", "y">> # << >> /\ <<"y">> # << >>
        BY Queues
    <2> QED
        BY <1>2, <2>1 DEF SampledInv, LocalsInv
<1>5. ProductInv'
    BY <1>1, <1>3, <1>4, ToMultiply DEF Multiplying
<1>6. /\ DOMAIN loc' = Names /\ loc'.sk_seed = loc.sk_seed /\ loc'.sigma = loc.sigma
      /\ loc'.pk_seed = loc.pk_seed
    BY <1>1, <1>4 DEF Names
<1>7. SampledInv' /\ LocalsInv' /\ SecretsInv'
    BY <1>1, <1>2, <1>6 DEF SampledInv, LocalsInv, SecretsInv
<1> QED
    BY <1>2, <1>5, <1>7 DEF KemInv

(* A key pair as strings                                                   *)
LEMMA KeysAreStrings ==
    ASSUME ParametersFit, NEW sk_seed, IsString(sk_seed, SEED_BYTES), NEW sigma,
           IsString(sigma, VEC_K_SIZE_BYTES), NEW pk_seed, IsString(pk_seed, SEED_BYTES), NEW s
    PROVE  LET public == public_key_to_string(pk_seed, s)
           IN  Len(secret_key_to_string(sk_seed, sigma, public)) = SECRET_KEY_BYTES
<1>1. SEED_BYTES \in Nat /\ VEC_K_SIZE_BYTES \in Nat /\ VEC_N_SIZE_BYTES \in Nat
    BY ArraysFit DEF ParametersFit
<1> DEFINE public == public_key_to_string(pk_seed, s)
<1>2. IsString(public, PUBLIC_KEY_BYTES) /\ PUBLIC_KEY_BYTES \in Nat
    <2>1. IsString(store8_arr(VEC_N_SIZE_BYTES, s), VEC_N_SIZE_BYTES)
        BY ExpansionsAreStrings
    <2>2. IsString(pk_seed \o store8_arr(VEC_N_SIZE_BYTES, s), SEED_BYTES + VEC_N_SIZE_BYTES)
        BY <1>1, <2>1, Joined
    <2> QED
        BY <1>1, <2>2 DEF public_key_to_string, PUBLIC_KEY_BYTES
<1> HIDE DEF public
<1>3. IsString(sk_seed \o sigma, SEED_BYTES + VEC_K_SIZE_BYTES)
    BY <1>1, Joined
<1>4. SEED_BYTES + VEC_K_SIZE_BYTES \in Nat
    BY <1>1
<1>5. IsString((sk_seed \o sigma) \o public, (SEED_BYTES + VEC_K_SIZE_BYTES) + PUBLIC_KEY_BYTES)
    BY <1>2, <1>3, <1>4, Joined
<1>6. Len((sk_seed \o sigma) \o public) = (SEED_BYTES + VEC_K_SIZE_BYTES) + PUBLIC_KEY_BYTES
    <2>1. (SEED_BYTES + VEC_K_SIZE_BYTES) + PUBLIC_KEY_BYTES \in Nat
        BY <1>2, <1>4
    <2> QED
        BY <1>5, <2>1, StringsAreSeq
<1> QED
    BY <1>6 DEF secret_key_to_string, SECRET_KEY_BYTES, public

LEMMA KeygenSStep ==
    ASSUME ParametersFit, KemInv, KeygenS
    PROVE  KemInv'
<1>1. PICK s : /\ Ready("keygen_s") /\ UNCHANGED sampler
               /\ pc' = "enc" /\ loc' = [loc EXCEPT !.s = s] /\ NoProduct
               /\ sk' = Into(sk, secret_key_to_string(loc.sk_seed, loc.sigma,
                                                      public_key_to_string(loc.pk_seed, s)))
               /\ UNCHANGED <<queue, key_enc, key_dec>>
    BY DEF KeygenS
<1>2. /\ pc = "keygen_s" /\ queue = << >> /\ SamplerInv' /\ SampledInv /\ LocalsInv /\ SecretsInv
    BY <1>1, Begun
<1>3. PICK string : /\ sk' = Into(sk, string) /\ Len(string) = SECRET_KEY_BYTES
    BY <1>1, <1>2, KeysAreStrings DEF SecretsInv
<1>4. \A k \in DOMAIN sk' : k <= SECRET_KEY_BYTES \/ sk'[k] = 0
    <2>1. sk' = [k \in DOMAIN sk |-> IF k <= SECRET_KEY_BYTES THEN string[k] ELSE sk[k]]
        BY <1>3 DEF Into
    <2> QED
        BY <1>2, <2>1 DEF SecretsInv
<1>5. DOMAIN loc' = Names
    BY <1>1, <1>2 DEF LocalsInv
<1>6. SampledInv' /\ LocalsInv' /\ SecretsInv'
    BY <1>1, <1>2, <1>4, <1>5 DEF SampledInv, LocalsInv, SecretsInv
<1> QED
    BY <1>1, <1>2, <1>6, NothingToMultiply DEF KemInv, Multiplying

-----------------------------------------------------------------------------
(* Encryption                                                              *)

LEMMA EncryptionBegins ==
    ASSUME ParametersFit, NEW locals, DOMAIN locals = Names, NEW public,
           NEW return \in {"enc_end", "dec_end"}, BeginEncrypt(locals, public, return)
    PROVE  /\ pc' = "encrypt_u" /\ queue' = <<"r1", "r2", "e">> /\ DOMAIN loc' = Names
           /\ loc'.s \in Arrays /\ loc'.h \in Arrays /\ loc'.to \in {"enc_end", "dec_end"}
<1>1. PICK h \in Arrays, s \in Arrays : loc' = [locals EXCEPT !.h = h, !.s = s, !.to = return]
    BY PublicKeys DEF BeginEncrypt
<1>2. DOMAIN loc' = Names /\ loc'.h = h /\ loc'.s = s /\ loc'.to = return
    BY <1>1 DEF Names
<1> QED
    BY <1>2 DEF BeginEncrypt

LEMMA EncryptUStep ==
    ASSUME ParametersFit, KemInv, EncryptU
    PROVE  KemInv'
<1>1. /\ Ready("encrypt_u") /\ UNCHANGED sampler
      /\ pc' = "encrypt_mg" /\ Multiply(loc.r2, loc.h)
      /\ UNCHANGED <<queue, loc, sk, key_enc, key_dec>>
    BY DEF EncryptU, buffers
<1>2. /\ pc = "encrypt_u" /\ queue = << >> /\ SamplerInv' /\ SampledInv /\ LocalsInv /\ SecretsInv
    BY <1>1, Begun
<1>3. loc.r2 \in Arrays
    <2>1. <<"r1", "r2", "e">> # << >> /\ <<"r2", "e">> # << >>
        BY Queues
    <2> QED
        BY <1>2, <2>1 DEF SampledInv
<1>4. ProductInv'
    BY <1>1, <1>2, <1>3, ToMultiply DEF LocalsInv, Multiplying
<1>5. SampledInv' /\ LocalsInv' /\ SecretsInv'
    BY <1>1, <1>2, <1>3 DEF SampledInv, LocalsInv, SecretsInv
<1> QED
    BY <1>2, <1>4, <1>5 DEF KemInv

LEMMA EncryptMGStep ==
    ASSUME ParametersFit, KemInv, EncryptMG
    PROVE  KemInv'
<1>1. PICK u2, tmp : /\ Ready("encrypt_mg") /\ UNCHANGED sampler
                     /\ pc' = "encrypt_v" /\ Multiply(loc.r2, loc.s)
                     /\ loc' = [loc EXCEPT !.u2 = u2, !.tmp = tmp]
                     /\ UNCHANGED <<queue, sk, key_enc, key_dec>>
    BY DEF EncryptMG, buffers
<1>2. /\ pc = "encrypt_mg" /\ queue = << >> /\ SamplerInv' /\ SampledInv /\ LocalsInv /\ SecretsInv
    BY <1>1, Begun
<1>3. ProductInv'
    BY <1>1, <1>2, ToMultiply DEF LocalsInv, Multiplying
<1>4. DOMAIN loc' = Names /\ loc'.to = loc.to
    BY <1>1, <1>2 DEF LocalsInv, Names
<1>5. SampledInv' /\ LocalsInv' /\ SecretsInv'
    BY <1>1, <1>2, <1>4 DEF SampledInv, LocalsInv, SecretsInv
<1> QED
    BY <1>2, <1>3, <1>5 DEF KemInv

LEMMA EncryptVStep ==
    ASSUME ParametersFit, KemInv, EncryptV
    PROVE  KemInv'
<1>1. PICK v2 : /\ Ready("encrypt_v") /\ UNCHANGED sampler
                /\ pc' = loc.to /\ NoProduct
                /\ loc' = [loc EXCEPT !.v2 = v2]
                /\ UNCHANGED <<queue, sk, key_enc, key_dec>>
    BY DEF EncryptV, buffers
<1>2. /\ pc = "encrypt_v" /\ queue = << >> /\ SamplerInv' /\ SampledInv /\ LocalsInv /\ SecretsInv
    BY <1>1, Begun
<1>3. DOMAIN loc' = Names /\ pc' \in {"enc_end", "dec_end"}
    BY <1>1, <1>2 DEF LocalsInv
<1>4. SampledInv' /\ LocalsInv' /\ SecretsInv'
    BY <1>1, <1>2, <1>3 DEF SampledInv, LocalsInv, SecretsInv
<1>5. ProductInv'
    <2>1. pc' \notin Multiplying
        BY <1>3 DEF Multiplying
    <2> QED
        BY <1>1, <2>1, NothingToMultiply
<1> QED
    BY <1>1, <1>2, <1>4, <1>5 DEF KemInv

-----------------------------------------------------------------------------
(* Encapsulation, damage and decapsulation                                 *)

LEMMA EncBeginStep ==
    ASSUME ParametersFit, KemInv, EncBegin
    PROVE  KemInv'
<1>1. PICK m, salt, theta, public :
          /\ Ready("enc") /\ UNCHANGED sampler
          /\ BeginEncrypt([loc EXCEPT !.m = m, !.salt = salt, !.theta = theta], public, "enc_end")
          /\ UNCHANGED <<factors, product, sk, key_enc, key_dec>>
    BY DEF EncBegin, buffers
<1>2. /\ pc = "enc" /\ queue = << >> /\ SamplerInv' /\ LocalsInv /\ ProductInv /\ SecretsInv
    BY <1>1, Begun
<1>3. PICK locals : DOMAIN locals = Names /\ BeginEncrypt(locals, public, "enc_end")
    BY <1>1, <1>2 DEF LocalsInv
<1>4. /\ pc' = "encrypt_u" /\ queue' = <<"r1", "r2", "e">> /\ DOMAIN loc' = Names
      /\ loc'.s \in Arrays /\ loc'.h \in Arrays /\ loc'.to \in {"enc_end", "dec_end"}
    BY <1>3, EncryptionBegins
<1>5. SampledInv' /\ LocalsInv' /\ SecretsInv' /\ ProductInv'
    BY <1>1, <1>2, <1>4 DEF SampledInv, LocalsInv, SecretsInv, ProductInv, Multiplying
<1> QED
    BY <1>2, <1>5 DEF KemInv

LEMMA EncEndStep ==
    ASSUME ParametersFit, KemInv, EncEnd
    PROVE  KemInv'
<1>1. PICK string : /\ Ready("enc_end") /\ UNCHANGED sampler
                    /\ pc' = "dec" /\ key_enc' = Into(key_enc, string)
                    /\ UNCHANGED <<queue, factors, product, loc, sk, key_dec>>
    BY DEF EncEnd, working
<1>2. /\ pc = "enc_end" /\ queue = << >> /\ SamplerInv' /\ LocalsInv /\ ProductInv /\ SecretsInv
    BY <1>1, Begun
<1>3. DOMAIN key_enc' = DOMAIN key_enc
    BY <1>1 DEF Into
<1>4. SampledInv' /\ LocalsInv' /\ SecretsInv' /\ ProductInv'
    BY <1>1, <1>2, <1>3 DEF SampledInv, LocalsInv, SecretsInv, ProductInv, Multiplying
<1> QED
    BY <1>2, <1>4 DEF KemInv

LEMMA DamageStep ==
    ASSUME ParametersFit, KemInv, NEW byte, NEW bit, Damage(byte, bit)
    PROVE  KemInv'
<1>1. /\ Ready("dec") /\ UNCHANGED sampler
      /\ UNCHANGED <<pc, queue, factors, product, loc, sk, key_enc, key_dec>>
    BY DEF Damage, working
<1>2. SamplerInv' /\ SampledInv /\ LocalsInv /\ ProductInv /\ SecretsInv
    BY <1>1, Begun
<1> QED
    BY <1>1, <1>2 DEF KemInv, SampledInv, LocalsInv, SecretsInv, ProductInv

LEMMA DecBeginStep ==
    ASSUME ParametersFit, KemInv, DecBegin
    PROVE  KemInv'
<1>1. PICK u, v, salt, sigma :
          /\ u \in Arrays /\ Ready("dec") /\ UNCHANGED sampler
          /\ pc' = "decrypt" /\ queue' = <<"x", "y">>
          /\ loc' = [Locals EXCEPT !.u = u, !.v = v, !.salt = salt, !.sigma = sigma]
          /\ UNCHANGED <<factors, product, sk, key_enc, key_dec>>
    BY Ciphertexts DEF DecBegin, buffers
<1>2. pc = "dec" /\ SamplerInv' /\ ProductInv /\ SecretsInv
    BY <1>1, Begun
<1>3. DOMAIN loc' = Names /\ loc'.u = u
    BY <1>1, LocalsAre DEF Names
<1>4. SampledInv' /\ LocalsInv' /\ SecretsInv' /\ ProductInv'
    BY <1>1, <1>2, <1>3 DEF SampledInv, LocalsInv, SecretsInv, ProductInv, Multiplying
<1> QED
    BY <1>2, <1>4 DEF KemInv

LEMMA DecryptStep ==
    ASSUME ParametersFit, KemInv, Decrypt
    PROVE  KemInv'
<1>1. PICK tmp : /\ Ready("decrypt") /\ UNCHANGED sampler
                 /\ pc' = "decrypt_m" /\ Multiply(loc.y, loc.u)
                 /\ loc' = [loc EXCEPT !.tmp = tmp]
                 /\ UNCHANGED <<queue, sk, key_enc, key_dec>>
    BY DEF Decrypt, buffers
<1>2. /\ pc = "decrypt" /\ queue = << >> /\ SamplerInv' /\ SampledInv /\ LocalsInv /\ SecretsInv
    BY <1>1, Begun
<1>3. loc.y \in Arrays
    <2>1. <<"x", "y">> # << >> /\ <<"y">> # << >>
        BY Queues
    <2> QED
        BY <1>2, <2>1 DEF SampledInv
<1>4. ProductInv'
    BY <1>1, <1>2, <1>3, ToMultiply DEF LocalsInv, Multiplying
<1>5. DOMAIN loc' = Names
    BY <1>1, <1>2 DEF LocalsInv
<1>6. SampledInv' /\ LocalsInv' /\ SecretsInv'
    BY <1>1, <1>2, <1>5 DEF SampledInv, LocalsInv, SecretsInv
<1> QED
    BY <1>2, <1>4, <1>6 DEF KemInv

LEMMA DecryptMStep ==
    ASSUME ParametersFit, KemInv, DecryptM
    PROVE  KemInv'
<1>1. PICK m, word, theta, public :
          /\ Ready("decrypt_m") /\ UNCHANGED sampler /\ NoProduct
          /\ BeginEncrypt([loc EXCEPT !.m = m, !.tmp = word, !.theta = theta], public, "dec_end")
          /\ UNCHANGED <<sk, key_enc, key_dec>>
    BY DEF DecryptM, buffers
<1>2. /\ pc = "decrypt_m" /\ queue = << >> /\ SamplerInv' /\ LocalsInv /\ SecretsInv
    BY <1>1, Begun
<1>3. PICK locals : DOMAIN locals = Names /\ BeginEncrypt(locals, public, "dec_end")
    BY <1>1, <1>2 DEF LocalsInv
<1>4. /\ pc' = "encrypt_u" /\ queue' = <<"r1", "r2", "e">> /\ DOMAIN loc' = Names
      /\ loc'.s \in Arrays /\ loc'.h \in Arrays /\ loc'.to \in {"enc_end", "dec_end"}
    BY <1>3, EncryptionBegins
<1>5. SampledInv' /\ LocalsInv' /\ SecretsInv'
    BY <1>1, <1>2, <1>4 DEF SampledInv, LocalsInv, SecretsInv
<1>6. ProductInv'
    <2>1. pc' \notin Multiplying
        BY <1>4 DEF Multiplying
    <2> QED
        BY <1>1, <2>1, NothingToMultiply
<1> QED
    BY <1>1, <1>2, <1>5, <1>6 DEF KemInv

LEMMA DecEndStep ==
    ASSUME ParametersFit, KemInv, DecEnd
    PROVE  KemInv'
<1>1. PICK string : /\ Ready("dec_end") /\ UNCHANGED sampler
                    /\ pc' = "print" /\ key_dec' = Into(key_dec, string)
                    /\ UNCHANGED <<queue, factors, product, loc, sk, key_enc>>
    BY DEF DecEnd, working
<1>2. /\ pc = "dec_end" /\ queue = << >> /\ SamplerInv' /\ LocalsInv /\ ProductInv /\ SecretsInv
    BY <1>1, Begun
<1>3. DOMAIN key_dec' = DOMAIN key_dec
    BY <1>1 DEF Into
<1>4. SampledInv' /\ LocalsInv' /\ SecretsInv' /\ ProductInv'
    BY <1>1, <1>2, <1>3 DEF SampledInv, LocalsInv, SecretsInv, ProductInv, Multiplying
<1> QED
    BY <1>2, <1>4 DEF KemInv

-----------------------------------------------------------------------------
(* Any part of any of the functions                                        *)
KemNext ==
    \/ Draw \/ Settle \/ Collect \/ VectMul
    \/ KeygenSeeds \/ KeygenH \/ KeygenS
    \/ EncryptU \/ EncryptMG \/ EncryptV
    \/ EncBegin \/ EncEnd
    \/ DecBegin \/ Decrypt \/ DecryptM \/ DecEnd
    \/ \E byte, bit : Damage(byte, bit)

LEMMA KemStep ==
    ASSUME ParametersFit, ShakeGivesBytes, KemInv, KemNext
    PROVE  KemInv'
BY DrawStep, SettleStep, CollectStep, VectMulStep, KeygenSeedsStep, KeygenHStep, KeygenSStep,
   EncryptUStep, EncryptMGStep, EncryptVStep, EncBeginStep, EncEndStep, DecBeginStep, DecryptStep,
   DecryptMStep, DecEndStep, DamageStep DEF KemNext

(* Between two sessions nothing is sampled or multiplied, and the buffers of *)
(* secrets are cleared.                                                    *)
Cleared ==
    /\ weight \in Nat /\ at = -1
    /\ support \in [0 .. weight - 1 -> Int] /\ drawn \in SUBSET Int
    /\ queue = << >> /\ factors = None /\ product = None
    /\ \A k \in DOMAIN sk : sk[k] = 0
    /\ DOMAIN key_enc = 1..SHAKE256_512_BYTES /\ DOMAIN key_dec = 1..SHAKE256_512_BYTES

(* A session begins.                                                       *)
LEMMA KemStarts ==
    ASSUME Cleared, pc' = "keypair",
           UNCHANGED <<queue, weight, support, at, drawn, factors, product, sk, key_enc, key_dec>>
    PROVE  KemInv'
<1>1. SamplerInv' /\ SampledInv'
    BY DEF Cleared, SamplerInv, SampledInv
<1>2. LocalsInv' /\ ProductInv' /\ SecretsInv'
    BY DEF Cleared, LocalsInv, ProductInv, SecretsInv, Multiplying
<1> QED
    BY <1>1, <1>2 DEF KemInv

(* A session goes on.                                                      *)
LEMMA KemWaits ==
    ASSUME KemInv,
           UNCHANGED <<pc, queue, weight, support, at, drawn, factors, product, loc,
                       sk, key_enc, key_dec>>
    PROVE  KemInv'
<1>1. SamplerInv' /\ SampledInv'
    BY DEF KemInv, SamplerInv, SampledInv
<1>2. LocalsInv' /\ ProductInv' /\ SecretsInv'
    BY DEF KemInv, LocalsInv, ProductInv, SecretsInv
<1> QED
    BY <1>1, <1>2 DEF KemInv

(* A session ends, and the part of the buffers that the level uses is       *)
(* cleared.                                                                *)
LEMMA KemEnds ==
    ASSUME KemInv, pc = "print",
           UNCHANGED <<queue, weight, support, at, drawn, factors, product>>,
           sk' = [k \in DOMAIN sk |-> IF k <= SECRET_KEY_BYTES THEN 0 ELSE sk[k]],
           DOMAIN key_enc' = DOMAIN key_enc, DOMAIN key_dec' = DOMAIN key_dec
    PROVE  Cleared'
<1>1. /\ weight \in Nat /\ at = -1 /\ support \in [0 .. weight - 1 -> Int] /\ drawn \in SUBSET Int
      /\ queue = << >> /\ factors = None /\ product = None
    BY DEF KemInv, SamplerInv, SampledInv, ProductInv, Multiplying
<1>2. \A k \in DOMAIN sk' : sk'[k] = 0
    BY DEF KemInv, SecretsInv
<1> QED
    BY <1>1, <1>2 DEF Cleared, KemInv, SecretsInv

(* What the invariant says of products                                     *)
THEOREM VectMulIsRight ==
    ASSUME ParametersFit, KemInv
    PROVE  ProductsAreCyclic
<1> SUFFICES ASSUME product # None PROVE ProductsAreCyclic
    BY DEF ProductsAreCyclic
<1>1. PICK v1 \in Arrays, v2 \in Arrays :
          factors[1] = v1 /\ factors[2] = v2 /\ product = vect_mul(v1, v2)
    BY DEF KemInv, ProductInv
<1> QED
    BY <1>1, ArraysFit, VectMulMultiplies DEF ProductsAreCyclic

-----------------------------------------------------------------------------
(* Products modulo X^PARAM_N - 1                                           *)

(* Quotient and remainder are what they are recognised by.                 *)
LEMMA DivisionOf ==
    ASSUME NEW n \in Nat \ {0}, NEW q \in Int, NEW r \in 0 .. n - 1
    PROVE  (n * q + r) \div n = q /\ (n * q + r) % n = r
<1> DEFINE e == n * q + r
           d == e \div n
           m == e % n
<1>1. n * q \in Int /\ n \in Int /\ r \in Int
    BY SMT
<1>2. e \in Int /\ d \in Int /\ m \in 0 .. n - 1 /\ e = n * d + m
    BY <1>1, SMT
<1> HIDE DEF d, m
<1>3. d - q \in Int /\ n * (d - q) = r - m
    BY <1>2, SMT
<1>4. r - m < n /\ m - r < n
    BY <1>2, SMT
<1>5. ~(d - q >= 1)
    BY <1>3, <1>4, SMT
<1>6. ~(d - q <= -1)
    <2> SUFFICES ASSUME d - q <= -1 PROVE FALSE
        OBVIOUS
    <2>1. n * (d - q) <= n * (-1)
        BY <1>3, Monotone
    <2>2. n * (-1) = -n
        BY SMT
    <2> QED
        BY <1>2, <1>3, <1>4, <2>1, <2>2, SMT
<1>7. d = q
    BY <1>2, <1>5, <1>6, SMT
<1>8. m = r
    BY <1>2, <1>7, SMT
<1> QED
    BY <1>7, <1>8 DEF d, m

LEMMA DivisionIs ==
    ASSUME NEW n \in Nat \ {0}, NEW e \in Int
    PROVE  /\ e \div n \in Int /\ e % n \in 0 .. n - 1 /\ n * (e \div n) \in Int
           /\ e = n * (e \div n) + (e % n)
BY SMT

(* A remainder may be taken before or after a subtraction.                 *)
LEMMA RemainderFirst ==
    ASSUME NEW n \in Nat \ {0}, NEW e \in Int, NEW k \in Int
    PROVE  ((e % n) - k) % n = (e - k) % n
<1>1. PICK q \in Int, s \in 0 .. n - 1 : e = n * q + s /\ s = e % n
    BY DivisionIs
<1>2. PICK c \in Int, t \in 0 .. n - 1 : s - k = n * c + t /\ t = (s - k) % n
    <2>1. s - k \in Int
        OBVIOUS
    <2> QED
        BY <2>1, DivisionIs
<1>3. e - k = n * (q + c) + t
    <2>1. n * (q + c) = n * q + n * c /\ n * q \in Int /\ n * c \in Int
        BY SMT
    <2> QED
        BY <1>1, <1>2, <2>1
<1>4. q + c \in Int
    OBVIOUS
<1>5. (n * (q + c) + t) % n = t
    BY <1>4, DivisionOf
<1> QED
    BY <1>1, <1>2, <1>3, <1>5

(* Vectors of PARAM_N bits, as sets of positions                           *)
Vectors == SUBSET (0 .. PARAM_N - 1)

(* The first factors of the pairs that make up bit e of a product.         *)
Turns(a, b, e) == {i \in a : (e - i) % PARAM_N \in b}

LEMMA VectorsAreFinite ==
    ASSUME PARAM_N \in Nat \ {0}, NEW a \in Vectors
    PROVE  IsFiniteSet(a) /\ a \subseteq Int /\ \A b, e : IsFiniteSet(Turns(a, b, e))
<1>1. PICK m \in Int, k \in Int : m = 0 /\ k = PARAM_N - 1
    OBVIOUS
<1>2. a \in SUBSET (m .. k)
    BY <1>1 DEF Vectors
<1>3. IsFiniteSet(a)
    BY <1>2, FiniteInterval DEF BitSet
<1>4. \A b, e : Turns(a, b, e) \subseteq a
    BY DEF Turns
<1>5. a \subseteq Int
    BY <1>2
<1> QED
    BY <1>3, <1>4, <1>5, FS_Subset

CyclicPairs(a, b, e) == {p \in a \X b : (p[1] + p[2]) % PARAM_N = e}

LEMMA PairsAreTurns ==
    ASSUME PARAM_N \in Nat \ {0}, NEW a \in Vectors, NEW b \in Vectors,
           NEW e \in 0 .. PARAM_N - 1
    PROVE  IsFiniteSet(CyclicPairs(a, b, e)) /\ (Odd(CyclicPairs(a, b, e)) <=> Odd(Turns(a, b, e)))
<1> DEFINE A == Turns(a, b, e)
           P == CyclicPairs(a, b, e)
           f == [i \in A |-> <<i, (e - i) % PARAM_N>>]
<1>1. IsFiniteSet(A)
    BY VectorsAreFinite
<1>2. ASSUME NEW i \in A PROVE <<i, (e - i) % PARAM_N>> \in P
    <2>1. i \in a /\ (e - i) % PARAM_N \in b /\ i \in Int
        BY DEF Turns, Vectors
    <2>2. PICK q \in Int, j \in 0 .. PARAM_N - 1 :
              e - i = PARAM_N * q + j /\ j = (e - i) % PARAM_N /\ PARAM_N * q \in Int
        <3>1. e - i \in Int
            BY <2>1
        <3> QED
            BY <3>1, DivisionIs
    <2>3. i + j = PARAM_N * (-q) + e
        <3>1. PARAM_N * (-q) = -(PARAM_N * q)
            BY SMT
        <3> QED
            BY <2>1, <2>2, <3>1
    <2>4. (i + j) % PARAM_N = e
        <3>1. -q \in Int
            OBVIOUS
        <3> QED
            BY <2>3, <3>1, DivisionOf
    <2> QED
        BY <2>1, <2>2, <2>4 DEF CyclicPairs
<1>3. ASSUME NEW p \in P PROVE p[1] \in A /\ p = <<p[1], (e - p[1]) % PARAM_N>>
    <2>1. PICK i \in a, j \in b : p = <<i, j>> /\ (i + j) % PARAM_N = e
        BY DEF CyclicPairs
    <2>2. i \in Int /\ j \in 0 .. PARAM_N - 1 /\ i + j \in Int
        BY DEF Vectors
    <2>3. PICK q \in Int : i + j = PARAM_N * q + e /\ PARAM_N * q \in Int
        BY <2>1, <2>2, DivisionIs
    <2>4. e - i = PARAM_N * (-q) + j
        <3>1. PARAM_N * (-q) = -(PARAM_N * q)
            BY SMT
        <3> QED
            BY <2>2, <2>3, <3>1
    <2>5. (e - i) % PARAM_N = j
        <3>1. -q \in Int
            OBVIOUS
        <3> QED
            BY <2>2, <2>4, <3>1, DivisionOf
    <2> QED
        BY <2>1, <2>5 DEF Turns
<1> HIDE DEF A, P
<1>4. f \in Bijection(A, P)
    <2>1. f \in [A -> P]
        BY <1>2
    <2>2. \A i, j \in A : f[i] = f[j] => i = j
        OBVIOUS
    <2>3. \A p \in P : \E i \in A : f[i] = p
        <3> SUFFICES ASSUME NEW p \in P PROVE p[1] \in A /\ f[p[1]] = p
            OBVIOUS
        <3> QED
            BY <1>3
    <2> QED
        BY <2>1, <2>2, <2>3 DEF Bijection, Injection, Surjection, IsInjective
<1>5. Odd(A) <=> Odd(P)
    BY <1>1, <1>4, OddBijection
<1>6. IsFiniteSet(P)
    BY <1>1, <1>4, FS_Bijection DEF ExistsBijection
<1> QED
    BY <1>5, <1>6 DEF A, P

(* A bit of the product counts turns.                                      *)
LEMMA ProductTurns ==
    ASSUME PARAM_N \in Nat \ {0}, NEW a \in Vectors, NEW b \in Vectors
    PROVE  /\ CyclicProduct(a, b) \in Vectors
           /\ \A e \in 0 .. PARAM_N - 1 : e \in CyclicProduct(a, b) <=> Odd(Turns(a, b, e))
<1>1. \A e \in 0 .. PARAM_N - 1 : e \in CyclicProduct(a, b) <=> Odd(CyclicPairs(a, b, e))
    BY DEF CyclicProduct, Odd, CyclicPairs
<1> QED
    BY <1>1, PairsAreTurns DEF CyclicProduct, Vectors

LEMMA ProductCommutes ==
    ASSUME PARAM_N \in Nat \ {0}, NEW a \in Vectors, NEW b \in Vectors
    PROVE  CyclicProduct(a, b) = CyclicProduct(b, a)
<1> SUFFICES ASSUME NEW e \in 0 .. PARAM_N - 1
             PROVE  Odd(CyclicPairs(a, b, e)) <=> Odd(CyclicPairs(b, a, e))
    BY DEF CyclicProduct, Odd, CyclicPairs
<1> DEFINE A == CyclicPairs(a, b, e)
           B == CyclicPairs(b, a, e)
           f == [p \in A |-> <<p[2], p[1]>>]
<1>0. a \subseteq Int /\ b \subseteq Int
    BY DEF Vectors
<1>1. ASSUME NEW x \in Vectors, NEW y \in Vectors, NEW p \in CyclicPairs(x, y, e)
      PROVE  <<p[2], p[1]>> \in CyclicPairs(y, x, e) /\ p = <<p[1], p[2]>>
    <2>1. PICK i \in x, j \in y : p = <<i, j>> /\ (i + j) % PARAM_N = e
        BY DEF CyclicPairs
    <2>2. i + j = j + i
        BY DEF Vectors
    <2> QED
        BY <2>1, <2>2 DEF CyclicPairs
<1>2. \A p \in A : <<p[2], p[1]>> \in B /\ p = <<p[1], p[2]>>
    BY <1>1
<1>3. \A p \in B : <<p[2], p[1]>> \in A /\ p = <<p[1], p[2]>>
    BY <1>1
<1>4. IsFiniteSet(A)
    BY PairsAreTurns
<1> HIDE DEF A, B
<1>5. f \in Bijection(A, B)
    <2>1. f \in [A -> B]
        BY <1>2
    <2>2. \A p, q \in A : f[p] = f[q] => p = q
        BY <1>2
    <2>3. \A p \in B : \E q \in A : f[q] = p
        <3> SUFFICES ASSUME NEW p \in B PROVE <<p[2], p[1]>> \in A /\ f[<<p[2], p[1]>>] = p
            OBVIOUS
        <3> QED
            BY <1>3
    <2> QED
        BY <2>1, <2>2, <2>3 DEF Bijection, Injection, Surjection, IsInjective
<1> QED
    BY <1>4, <1>5, OddBijection DEF A, B

LEMMA SumsAreVectors ==
    ASSUME NEW a \in Vectors, NEW b \in Vectors
    PROVE  a (+) b \in Vectors
    BY DEF Vectors, (+)

LEMMA ProductIsLinear ==
    ASSUME PARAM_N \in Nat \ {0}, NEW a \in Vectors, NEW b \in Vectors, NEW c \in Vectors
    PROVE  /\ CyclicProduct(a (+) b, c) = CyclicProduct(a, c) (+) CyclicProduct(b, c)
           /\ CyclicProduct(c, a (+) b) = CyclicProduct(c, a) (+) CyclicProduct(c, b)
<1>1. a (+) b \in Vectors
    BY SumsAreVectors
<1>2. ASSUME NEW e \in 0 .. PARAM_N - 1
      PROVE  /\ Odd(Turns(a (+) b, c, e)) <=> ~(Odd(Turns(a, c, e)) <=> Odd(Turns(b, c, e)))
             /\ Odd(Turns(c, a (+) b, e)) <=> ~(Odd(Turns(c, a, e)) <=> Odd(Turns(c, b, e)))
    <2>1. Turns(a (+) b, c, e) = Turns(a, c, e) (+) Turns(b, c, e)
        BY DEF Turns, (+)
    <2>2. Turns(c, a (+) b, e) = Turns(c, a, e) (+) Turns(c, b, e)
        BY DEF Turns, (+)
    <2> QED
        BY <2>1, <2>2, VectorsAreFinite, OddSum
<1>3. \A A, V, p : p \in A (+) V <=> ~(p \in A <=> p \in V)
    BY DEF (+)
<1>4. /\ CyclicProduct(a, c) \subseteq 0 .. PARAM_N - 1 /\ CyclicProduct(b, c) \subseteq 0 .. PARAM_N - 1
      /\ CyclicProduct(c, a) \subseteq 0 .. PARAM_N - 1 /\ CyclicProduct(c, b) \subseteq 0 .. PARAM_N - 1
      /\ CyclicProduct(a (+) b, c) \subseteq 0 .. PARAM_N - 1
      /\ CyclicProduct(c, a (+) b) \subseteq 0 .. PARAM_N - 1
    BY DEF CyclicProduct
<1>5. \A e : e \in CyclicProduct(a (+) b, c) <=> e \in CyclicProduct(a, c) (+) CyclicProduct(b, c)
    <2> SUFFICES ASSUME NEW e
                 PROVE  e \in CyclicProduct(a (+) b, c)
                            <=> ~(e \in CyclicProduct(a, c) <=> e \in CyclicProduct(b, c))
        BY <1>3
    <2>1. CASE e \in 0 .. PARAM_N - 1
        BY <1>1, <1>2, <2>1, ProductTurns
    <2>2. CASE e \notin 0 .. PARAM_N - 1
        BY <1>4, <2>2
    <2> QED
        BY <2>1, <2>2
<1>6. \A e : e \in CyclicProduct(c, a (+) b) <=> e \in CyclicProduct(c, a) (+) CyclicProduct(c, b)
    <2> SUFFICES ASSUME NEW e
                 PROVE  e \in CyclicProduct(c, a (+) b)
                            <=> ~(e \in CyclicProduct(c, a) <=> e \in CyclicProduct(c, b))
        BY <1>3
    <2>1. CASE e \in 0 .. PARAM_N - 1
        BY <1>1, <1>2, <2>1, ProductTurns
    <2>2. CASE e \notin 0 .. PARAM_N - 1
        BY <1>4, <2>2
    <2> QED
        BY <2>1, <2>2
<1> QED
    BY <1>5, <1>6

(* A factor of one bit turns the other.                                    *)
Turned(b, k) == {p \in 0 .. PARAM_N - 1 : (p - k) % PARAM_N \in b}

LEMMA OneBitTurns ==
    ASSUME PARAM_N \in Nat \ {0}, NEW a \in Vectors, NEW b \in Vectors, NEW k \in 0 .. PARAM_N - 1
    PROVE  /\ Turned(b, k) \in Vectors
           /\ CyclicProduct({k}, b) = Turned(b, k)
           /\ CyclicProduct(a, Turned(b, k)) = Turned(CyclicProduct(a, b), k)
<1>1. Turned(b, k) \in Vectors /\ {k} \in Vectors
    BY DEF Turned, Vectors
<1>2. ASSUME NEW e \in 0 .. PARAM_N - 1 PROVE Odd(Turns({k}, b, e)) <=> (e - k) % PARAM_N \in b
    <2>1. CASE (e - k) % PARAM_N \in b
        <3>1. Turns({k}, b, e) = {k}
            BY <2>1 DEF Turns
        <3>2. Cardinality({k}) = 1
            BY FS_Singleton
        <3> QED
            BY <2>1, <3>1, <3>2 DEF Odd
    <2>2. CASE (e - k) % PARAM_N \notin b
        <3>1. Turns({k}, b, e) = {}
            BY <2>2 DEF Turns
        <3> QED
            BY <2>2, <3>1, NoneIsEven
    <2> QED
        BY <2>1, <2>2
<1>3. CyclicProduct({k}, b) = Turned(b, k)
    <2>1. \A e \in 0 .. PARAM_N - 1 : e \in CyclicProduct({k}, b) <=> e \in Turned(b, k)
        BY <1>1, <1>2, ProductTurns DEF Turned
    <2>2. CyclicProduct({k}, b) \subseteq 0 .. PARAM_N - 1 /\ Turned(b, k) \subseteq 0 .. PARAM_N - 1
        BY DEF CyclicProduct, Turned
    <2> QED
        BY <2>1, <2>2
<1>4. ASSUME NEW e \in 0 .. PARAM_N - 1
      PROVE  e \in CyclicProduct(a, Turned(b, k)) <=> e \in Turned(CyclicProduct(a, b), k)
    <2>1. PICK g \in 0 .. PARAM_N - 1 : g = (e - k) % PARAM_N
        <3>1. e - k \in Int
            OBVIOUS
        <3> QED
            BY <3>1, DivisionIs
    <2>2. ASSUME NEW i \in a PROVE (e - i) % PARAM_N \in Turned(b, k) <=> (g - i) % PARAM_N \in b
        <3>1. i \in Int /\ e - i \in Int /\ e - k \in Int /\ (e - i) - k = (e - k) - i
            BY DEF Vectors
        <3>2. (((e - i) % PARAM_N) - k) % PARAM_N = ((e - i) - k) % PARAM_N
            <4>1. PICK w \in Int, c \in Int : w = e - i /\ c = k
                BY <3>1
            <4>2. ((w % PARAM_N) - c) % PARAM_N = (w - c) % PARAM_N
                BY RemainderFirst
            <4> QED
                BY <4>1, <4>2
        <3>3. (((e - k) % PARAM_N) - i) % PARAM_N = ((e - k) - i) % PARAM_N
            BY <3>1, RemainderFirst
        <3>4. (e - i) % PARAM_N \in 0 .. PARAM_N - 1
            BY <3>1, DivisionIs
        <3> QED
            BY <2>1, <3>1, <3>2, <3>3, <3>4 DEF Turned
    <2>3. Turns(a, Turned(b, k), e) = Turns(a, b, g)
        BY <2>2 DEF Turns
    <2>4. e \in CyclicProduct(a, Turned(b, k)) <=> Odd(Turns(a, b, g))
        BY <1>1, <2>3, ProductTurns
    <2>5. g \in CyclicProduct(a, b) <=> Odd(Turns(a, b, g))
        BY ProductTurns
    <2> QED
        BY <2>1, <2>4, <2>5 DEF Turned
<1>5. CyclicProduct(a, Turned(b, k)) \subseteq 0 .. PARAM_N - 1
      /\ Turned(CyclicProduct(a, b), k) \subseteq 0 .. PARAM_N - 1
    BY DEF CyclicProduct, Turned
<1>6. CyclicProduct(a, Turned(b, k)) = Turned(CyclicProduct(a, b), k)
    BY <1>4, <1>5
<1> QED
    BY <1>1, <1>3, <1>6

(* Multiplications by two vectors may change their order.                  *)
LEMMA ProductsSwap ==
    ASSUME PARAM_N \in Nat \ {0}, NEW r \in Vectors, NEW y \in Vectors, NEW h \in Vectors
    PROVE  CyclicProduct(r, CyclicProduct(y, h)) = CyclicProduct(y, CyclicProduct(r, h))
<1> DEFINE below(n) == {i \in r : i < n}
           Swaps(a) == CyclicProduct(a, CyclicProduct(y, h)) = CyclicProduct(y, CyclicProduct(a, h))
           T == {n \in 0 .. PARAM_N : Swaps(below(n))}
<1>1. PICK z \in Vectors : z = CyclicProduct(y, h)
    BY ProductTurns
<1>2. ASSUME NEW b \in Vectors, NEW c \in Vectors, NEW e, b = {} \/ c = {}
      PROVE  ~(e \in CyclicProduct(b, c))
    <2>1. Turns(b, c, e) = {}
        BY <1>2 DEF Turns
    <2>2. e \in CyclicProduct(b, c) => e \in 0 .. PARAM_N - 1
        BY DEF CyclicProduct
    <2>3. ~Odd(Turns(b, c, e))
        BY <2>1, NoneIsEven
    <2> QED
        BY <2>2, <2>3, ProductTurns
<1>3. {} \in Vectors /\ \A i \in r : i \in Int /\ 0 <= i /\ i < PARAM_N
    BY DEF Vectors
<1>4. Swaps({})
    <2>1. CyclicProduct({}, h) = {} /\ CyclicProduct({}, z) = {} /\ CyclicProduct(y, {}) = {}
        BY <1>2, <1>3
    <2> QED
        BY <1>1, <2>1
<1>5. 0 \in T
    <2>1. below(0) = {}
        BY <1>3
    <2> QED
        BY <1>4, <2>1
<1>6. ASSUME NEW n \in 0 .. PARAM_N - 1, n \in T PROVE n + 1 \in T
    <2>1. PICK b \in Vectors : b = below(n) /\ Swaps(b)
        <3>1. below(n) \in Vectors
            BY DEF Vectors
        <3> QED
            BY <1>6, <3>1
    <2>2. CASE n \notin r
        <3>1. below(n + 1) = below(n)
            BY <1>3, <2>2
        <3> QED
            BY <1>6, <3>1
    <2>3. CASE n \in r
        <3>0. \A i \in r : i < n + 1 <=> i < n \/ i = n
            BY <1>3
        <3>1. below(n + 1) = b (+) {n} /\ {n} \in Vectors
            <4>1. n \notin b /\ {n} \in Vectors
                BY <2>1 DEF Vectors
            <4>2. below(n + 1) = below(n) \cup {n}
                BY <2>3, <3>0
            <4> QED
                BY <2>1, <4>1, <4>2 DEF (+)
        <3>2. CyclicProduct(b (+) {n}, z) = CyclicProduct(b, z) (+) Turned(z, n)
            BY <3>1, ProductIsLinear, OneBitTurns
        <3>3. CyclicProduct(b (+) {n}, h) = CyclicProduct(b, h) (+) Turned(h, n)
            BY <3>1, ProductIsLinear, OneBitTurns
        <3>4. CyclicProduct(b, h) \in Vectors /\ Turned(h, n) \in Vectors
            BY ProductTurns, OneBitTurns
        <3>5. CyclicProduct(y, CyclicProduct(b (+) {n}, h))
                  = CyclicProduct(y, CyclicProduct(b, h)) (+) CyclicProduct(y, Turned(h, n))
            BY <3>3, <3>4, ProductIsLinear
        <3>6. CyclicProduct(y, Turned(h, n)) = Turned(z, n)
            BY <1>1, OneBitTurns
        <3>7. CyclicProduct(b, z) = CyclicProduct(y, CyclicProduct(b, h))
            BY <1>1, <2>1
        <3>8. Swaps(b (+) {n})
            BY <1>1, <3>2, <3>5, <3>6, <3>7
        <3>9. n + 1 \in 0 .. PARAM_N
            OBVIOUS
        <3> QED
            BY <3>1, <3>8, <3>9
    <2> QED
        BY <2>2, <2>3
<1> HIDE DEF T
<1>7. PARAM_N \in T
    <2>1. PARAM_N \in Nat /\ PARAM_N \in 0 .. PARAM_N
        OBVIOUS
    <2> QED
        BY <1>5, <1>6, <2>1, Climb
<1>8. below(PARAM_N) = r
    BY <1>3
<1> QED
    BY <1>7, <1>8 DEF T

-----------------------------------------------------------------------------
(* Bytes                                                                   *)

LEMMA Powers ==
    ASSUME ParametersFit
    PROVE  /\ BYTE \in Nat \ {0} /\ 4 * BYTE \in Nat /\ 2^0 = 1
           /\ \A n \in 0 .. 4 * BYTE : 2^n \in Nat \ {0}
           /\ \A n \in 0 .. 4 * BYTE - 1 : 2^(n + 1) = 2 * 2^n
<1>1. /\ BYTE \in Nat \ {0} /\ 4 * BYTE \in Nat
      /\ 2^0 = 1 /\ \A n \in 0 .. 4 * BYTE - 1 : 2^(n + 1) = 2 * 2^n
    BY DEF ParametersFit
<1> DEFINE T == {n \in 0 .. 4 * BYTE : 2^n \in Nat \ {0}}
<1>2. 0 \in T
    BY <1>1
<1>3. ASSUME NEW n \in 0 .. 4 * BYTE - 1, n \in T PROVE n + 1 \in T
    <2>1. PICK d \in Nat \ {0} : d = 2^n
        BY <1>3
    <2>2. 2^(n + 1) = 2 * d
        BY <1>1, <2>1
    <2>3. 2 * d \in Nat \ {0} /\ n + 1 \in 0 .. 4 * BYTE
        BY <1>1
    <2> QED
        BY <2>2, <2>3
<1> HIDE DEF T
<1>4. \A n \in 0 .. 4 * BYTE : n \in T
    BY <1>1, <1>2, <1>3, Climb
<1> QED
    BY <1>1, <1>4 DEF T

LEMMA PowersMultiply ==
    ASSUME ParametersFit, NEW j \in 0 .. 4 * BYTE, NEW m \in 0 .. 4 * BYTE - j
    PROVE  2^(j + m) = 2^j * 2^m
<1>1. 4 * BYTE \in Nat /\ 2^0 = 1
    BY Powers
<1>2. PICK N \in Nat : N = 4 * BYTE - j
    BY <1>1
<1> DEFINE T == {n \in 0..N : 2^(j + n) = 2^j * 2^n}
<1>3. PICK a \in Nat : a = 2^j
    BY Powers
<1>4. 0 \in T
    <2>1. j + 0 = j /\ a * 1 = a
        OBVIOUS
    <2> QED
        BY <1>1, <1>3, <2>1
<1>5. ASSUME NEW n \in 0 .. N - 1, n \in T PROVE n + 1 \in T
    <2>1. j + n \in 0 .. 4 * BYTE - 1 /\ n \in 0 .. 4 * BYTE - 1 /\ j + (n + 1) = (j + n) + 1
        BY <1>1, <1>2
    <2>2. PICK b \in Nat, c \in Nat : b = 2^n /\ c = 2^(j + n)
        BY <2>1, Powers
    <2>3. 2^(n + 1) = 2 * b /\ 2^((j + n) + 1) = 2 * c /\ c = a * b
        BY <1>3, <1>5, <2>1, <2>2, Powers
    <2>4. 2 * (a * b) = a * (2 * b)
        BY SMT
    <2>5. 2^(j + (n + 1)) = a * (2 * b)
        BY <2>1, <2>3, <2>4
    <2> QED
        BY <1>3, <2>3, <2>5
<1> HIDE DEF T
<1>6. m \in T
    BY <1>2, <1>4, <1>5, Climb
<1> QED
    BY <1>6 DEF T

(* The sum in ByteOf is one of powers of two.                              *)
Digit(S, p) == IF p \in S THEN 2^p ELSE 0

PartialSums(f, S, n) == f[0] = 0 /\ \A p \in 0 .. n - 1 : f[p + 1] = f[p] + Digit(S, p)

LEMMA SumsExist ==
    ASSUME NEW n \in Nat, NEW S
    PROVE  \E f : f = [p \in 0..n |-> IF p = 0 THEN 0 ELSE f[p - 1] + Digit(S, p - 1)]
<1> DEFINE T == {k \in 0..n : \E f : PartialSums(f, S, k)}
<1>1. 0 \in T
    <2>1. PartialSums([p \in 0..n |-> 0], S, 0)
        BY DEF PartialSums
    <2> QED
        BY <2>1
<1>2. ASSUME NEW k \in 0 .. n - 1, k \in T PROVE k + 1 \in T
    <2>1. PICK f : PartialSums(f, S, k)
        BY <1>2
    <2> DEFINE g == [p \in 0..n |-> IF p = k + 1 THEN f[k] + Digit(S, k) ELSE f[p]]
    <2>2. g[0] = 0
        BY <2>1 DEF PartialSums
    <2>3. ASSUME NEW p \in 0 .. (k + 1) - 1 PROVE g[p + 1] = g[p] + Digit(S, p)
        <3>1. g[p] = f[p] /\ p + 1 \in 0..n
            OBVIOUS
        <3>2. CASE p = k
            BY <3>1, <3>2
        <3>3. CASE p # k
            <4>1. p \in 0 .. k - 1 /\ g[p + 1] = f[p + 1]
                BY <3>1, <3>3
            <4> HIDE DEF g
            <4> QED
                BY <2>1, <3>1, <4>1 DEF PartialSums
        <3> QED
            BY <3>2, <3>3
    <2> HIDE DEF g
    <2>4. PartialSums(g, S, k + 1) /\ k + 1 \in 0..n
        BY <2>2, <2>3 DEF PartialSums
    <2> QED
        BY <2>4
<1> HIDE DEF T
<1>3. n \in T
    BY <1>1, <1>2, Climb
<1>4. PICK f : PartialSums(f, S, n)
    BY <1>3 DEF T
<1> DEFINE g == [p \in 0..n |-> f[p]]
<1>5. ASSUME NEW p \in 0..n PROVE g[p] = IF p = 0 THEN 0 ELSE g[p - 1] + Digit(S, p - 1)
    <2>1. CASE p = 0
        BY <1>4, <2>1 DEF PartialSums
    <2>2. CASE p # 0
        <3>1. p - 1 \in 0 .. n - 1 /\ (p - 1) + 1 = p
            BY <2>2
        <3> QED
            BY <1>4, <2>2, <3>1 DEF PartialSums
    <2> QED
        BY <2>1, <2>2
<1>6. g = [p \in 0..n |-> g[p]]
    OBVIOUS
<1>7. g = [p \in 0..n |-> IF p = 0 THEN 0 ELSE g[p - 1] + Digit(S, p - 1)]
    <2> HIDE DEF g
    <2> QED
        BY <1>5, <1>6, Zenon
<1> QED
    BY <1>7

InByte(word, k) == {p \in 0 .. BYTE - 1 : BYTE * k + p \in word}

LEMMA ByteOfIs ==
    ASSUME ParametersFit, NEW word, NEW k
    PROVE  \E f : PartialSums(f, InByte(word, k), BYTE) /\ ByteOf(word, k) = f[BYTE]
<1> DEFINE S == InByte(word, k)
           F(f) == f = [p \in 0..BYTE |-> IF p = 0 THEN 0 ELSE
                           f[p - 1] + (IF BYTE * k + (p - 1) \in word THEN 2^(p - 1) ELSE 0)]
           f == CHOOSE f : F(f)
<1>0. BYTE \in Nat \ {0}
    BY Powers
<1>1. \E g : F(g)
    <2>1. PICK g : g = [p \in 0..BYTE |-> IF p = 0 THEN 0 ELSE g[p - 1] + Digit(S, p - 1)]
        BY <1>0, SumsExist
    <2>2. \A p \in 0..BYTE : p # 0 =>
              Digit(S, p - 1) = (IF BYTE * k + (p - 1) \in word THEN 2^(p - 1) ELSE 0)
        BY <1>0 DEF Digit, InByte
    <2>3. [p \in 0..BYTE |-> IF p = 0 THEN 0 ELSE g[p - 1] + Digit(S, p - 1)]
              = [p \in 0..BYTE |-> IF p = 0 THEN 0 ELSE
                    g[p - 1] + (IF BYTE * k + (p - 1) \in word THEN 2^(p - 1) ELSE 0)]
        BY <2>2
    <2> QED
        BY <2>1, <2>3
<1>2. F(f)
    BY <1>1
<1>3. ByteOf(word, k) = f[BYTE]
    BY DEF ByteOf
<1> HIDE DEF f
<1>4. PartialSums(f, S, BYTE)
    <2>1. f[0] = 0
        BY <1>0, <1>2
    <2>2. ASSUME NEW p \in 0 .. BYTE - 1 PROVE f[p + 1] = f[p] + Digit(S, p)
        <3>1. p + 1 \in 0..BYTE /\ p + 1 # 0 /\ (p + 1) - 1 = p
            BY <1>0
        <3>2. f[p + 1] = f[p] + (IF BYTE * k + p \in word THEN 2^p ELSE 0)
            BY <1>2, <3>1
        <3> QED
            BY <3>2 DEF Digit, InByte
    <2> QED
        BY <2>1, <2>2 DEF PartialSums
<1> QED
    BY <1>3, <1>4

(* Partial sums are below the next power of two, and their digits are the  *)
(* members of the set.                                                     *)
LEMMA SumsAreNumbers ==
    ASSUME ParametersFit, NEW S, NEW f, PartialSums(f, S, BYTE), NEW n \in 0..BYTE
    PROVE  /\ f[n] \in 0 .. 2^n - 1
           /\ \A j \in 0 .. n - 1 : (f[n] \div 2^j) % 2 = 1 <=> j \in S
<1> DEFINE Good(p) == /\ f[p] \in 0 .. 2^p - 1
                      /\ \A j \in 0 .. p - 1 : (f[p] \div 2^j) % 2 = 1 <=> j \in S
           T == {p \in 0..BYTE : Good(p)}
<1>0. BYTE \in Nat \ {0} /\ 4 * BYTE \in Nat /\ BYTE <= 4 * BYTE
    BY Powers
<1>1. 0 \in T
    <2>1. f[0] = 0 /\ 2^0 = 1
        BY Powers DEF PartialSums
    <2> QED
        BY <1>0, <2>1
<1>2. ASSUME NEW p \in 0 .. BYTE - 1, p \in T PROVE p + 1 \in T
    <2>1. PICK d \in Nat \ {0} : d = 2^p /\ 2^(p + 1) = 2 * d
        BY <1>0, Powers
    <2>2. PICK x \in 0 .. d - 1 : x = f[p]
        BY <1>2, <2>1
    <2>3. PICK c \in 0..1 : c * d = Digit(S, p) /\ (c = 1 <=> p \in S)
        <3>1. CASE p \in S
            <4>1. 1 * d = Digit(S, p)
                BY <2>1, <3>1 DEF Digit
            <4> QED
                BY <3>1, <4>1
        <3>2. CASE p \notin S
            <4>1. 0 * d = Digit(S, p)
                BY <2>1, <3>2 DEF Digit
            <4> QED
                BY <3>2, <4>1
        <3> QED
            BY <3>1, <3>2
    <2>4. f[p + 1] = x + c * d
        BY <2>2, <2>3 DEF PartialSums
    <2>5. x + c * d \in 0 .. 2 * d - 1
        <3>1. c * d = 0 \/ c * d = d
            BY <2>3
        <3> QED
            BY <3>1
    <2>6. ASSUME NEW j \in 0 .. p - 1 PROVE ((x + c * d) \div 2^j) % 2 = 1 <=> j \in S
        <3>1. PICK a \in Nat \ {0}, b \in Nat : a = 2^j /\ b = 2^(p - j - 1)
            BY <1>0, Powers
        <3>2. d = a * (2 * b)
            <4>1. 2^(j + (p - j)) = 2^j * 2^(p - j)
                BY <1>0, PowersMultiply
            <4>2. j + (p - j) = p /\ (p - j - 1) + 1 = p - j /\ p - j - 1 \in 0 .. 4 * BYTE - 1
                BY <1>0
            <4>3. 2^(p - j) = 2 * b
                BY <3>1, <4>2, Powers
            <4> QED
                BY <2>1, <3>1, <4>1, <4>2, <4>3
        <3>3. PICK q \in Int, r \in 0 .. a - 1 : x = a * q + r /\ q = x \div a
            <4>1. x \in Int /\ x \div a \in Int
                BY SMT
            <4>2. x % a \in 0 .. a - 1 /\ x = a * (x \div a) + (x % a)
                BY <4>1, DivisionIs
            <4> QED
                BY <4>1, <4>2
        <3>4. x + c * d = a * (q + 2 * (c * b)) + r
            BY <3>2, <3>3, SMT
        <3>5. PICK cb \in Nat : cb = c * b
            BY SMT
        <3>6. (x + c * d) \div a = q + 2 * cb
            <4>1. PICK w \in Int : w = q + 2 * cb
                OBVIOUS
            <4>2. (a * w + r) \div a = w
                BY DivisionOf
            <4> QED
                BY <3>4, <3>5, <4>1, <4>2
        <3>7. (q + 2 * cb) % 2 = q % 2
            BY SMT
        <3>8. (x \div 2^j) % 2 = 1 <=> j \in S
            BY <1>2, <2>2
        <3> QED
            BY <3>1, <3>3, <3>6, <3>7, <3>8
    <2>7. ((x + c * d) \div d) % 2 = 1 <=> p \in S
        <3>1. x + c * d = d * c + x
            BY SMT
        <3>2. (d * c + x) \div d = c
            BY DivisionOf
        <3> QED
            BY <2>3, <3>1, <3>2
    <2>8. Good(p + 1)
        <3>1. f[p + 1] \in 0 .. 2^(p + 1) - 1
            BY <2>1, <2>4, <2>5
        <3>2. ASSUME NEW j \in 0 .. (p + 1) - 1 PROVE (f[p + 1] \div 2^j) % 2 = 1 <=> j \in S
            <4>1. CASE j = p
                BY <2>1, <2>4, <2>7, <4>1
            <4>2. CASE j # p
                <5>1. j \in 0 .. p - 1
                    BY <4>2
                <5> QED
                    BY <2>4, <2>6, <5>1
            <4> QED
                BY <4>1, <4>2
        <3> QED
            BY <3>1, <3>2
    <2> QED
        BY <1>0, <2>8
<1> HIDE DEF T
<1>3. n \in T
    BY <1>0, <1>1, <1>2, Climb
<1> QED
    BY <1>3 DEF T

(* A byte is the sum of its bits.                                          *)
LEMMA SumOfBits ==
    ASSUME ParametersFit, NEW b \in ByteValues, NEW f, PartialSums(f, BitsOfByte(b), BYTE)
    PROVE  f[BYTE] = b
<1> DEFINE S == BitsOfByte(b)
           T == {p \in 0..BYTE : f[p] = b % 2^p}
<1>0. /\ BYTE \in Nat \ {0} /\ 4 * BYTE \in Nat /\ BYTE <= 4 * BYTE
      /\ 2^BYTE \in Nat \ {0} /\ b \in 0 .. 2^BYTE - 1 /\ b \in Int
    BY Powers DEF ByteValues
<1>1. 0 \in T
    <2>1. f[0] = 0 /\ 2^0 = 1 /\ b % 1 = 0
        BY <1>0, Powers DEF PartialSums
    <2> QED
        BY <1>0, <2>1
<1>2. ASSUME NEW p \in 0 .. BYTE - 1, p \in T PROVE p + 1 \in T
    <2>1. PICK d \in Nat \ {0} : d = 2^p /\ 2^(p + 1) = 2 * d
        BY <1>0, Powers
    <2>2. PICK q \in Int, x \in 0 .. d - 1 : b = d * q + x /\ q = b \div d /\ x = b % d
        BY <1>0, DivisionIs
    <2>3. PICK h \in Int, c \in 0..1 : q = 2 * h + c /\ c = q % 2
        BY SMT
    <2>4. f[p + 1] = x + c * d
        <3>1. p \in S <=> c = 1
            BY <2>1, <2>2, <2>3 DEF BitsOfByte
        <3>2. Digit(S, p) = c * d
            BY <2>1, <3>1 DEF Digit
        <3> QED
            BY <1>2, <2>1, <2>2, <3>2 DEF PartialSums
    <2>5. b = (2 * d) * h + (x + c * d)
        <3>1. d * (2 * h + c) = (2 * d) * h + c * d
            BY SMT
        <3>2. PICK A \in Int, C \in Int : A = (2 * d) * h /\ C = c * d
            BY SMT
        <3>3. d * q = A + C
            BY <2>3, <3>1, <3>2
        <3>4. (A + C) + x = A + (x + C)
            OBVIOUS
        <3> QED
            BY <2>2, <3>2, <3>3, <3>4
    <2>6. x + c * d \in 0 .. 2 * d - 1
        <3>1. c * d = 0 \/ c * d = d
            OBVIOUS
        <3> QED
            BY <3>1
    <2>7. b % (2 * d) = x + c * d
        <3>1. PICK n \in Nat \ {0} : n = 2 * d
            OBVIOUS
        <3>2. PICK y \in 0 .. n - 1 : y = x + c * d
            BY <2>6, <3>1
        <3> QED
            BY <2>5, <3>1, <3>2, DivisionOf
    <2> QED
        BY <1>0, <2>1, <2>4, <2>7
<1> HIDE DEF T
<1>3. BYTE \in T
    BY <1>0, <1>1, <1>2, Climb
<1>4. b % 2^BYTE = b
    BY <1>0
<1> QED
    BY <1>3, <1>4 DEF T

(* What ByteOf makes of the bits of a word                                 *)
LEMMA BytesOfWords ==
    ASSUME ParametersFit, NEW word, NEW k
    PROVE  /\ ByteOf(word, k) \in ByteValues
           /\ BitsOfByte(ByteOf(word, k)) = InByte(word, k)
           /\ \A b \in ByteValues : InByte(word, k) = BitsOfByte(b) => ByteOf(word, k) = b
<1>1. PICK f : PartialSums(f, InByte(word, k), BYTE) /\ ByteOf(word, k) = f[BYTE]
    BY ByteOfIs
<1>2. BYTE \in 0..BYTE
    BY Powers
<1>3. /\ f[BYTE] \in ByteValues
      /\ \A j \in 0 .. BYTE - 1 : (f[BYTE] \div 2^j) % 2 = 1 <=> j \in InByte(word, k)
    BY <1>1, <1>2, SumsAreNumbers DEF ByteValues
<1>4. BitsOfByte(f[BYTE]) = InByte(word, k)
    BY <1>3 DEF BitsOfByte, InByte
<1> QED
    BY <1>1, <1>3, <1>4, SumOfBits

-----------------------------------------------------------------------------
(* Arrays of words and strings of bytes                                    *)

(* How many parts of n hold t.                                             *)
LEMMA PartsOf ==
    ASSUME NEW n \in Nat \ {0}, NEW t \in Nat \ {0}
    PROVE  \E c \in Nat \ {0} : /\ c = (t + n - 1) \div n /\ t <= n * c
                                 /\ \A k \in Int : n * k < t <=> k < c
<1> DEFINE c == (t + n - 1) \div n
<1>1. PICK r \in 0 .. n - 1 : t + n - 1 = n * c + r
    <2>1. t + n - 1 \in Int
        OBVIOUS
    <2> QED
        BY <2>1, DivisionIs
<1>2. c \in Int /\ n * c \in Int
    <2>1. t + n - 1 \in Int
        OBVIOUS
    <2> QED
        BY <2>1, DivisionIs
<1> HIDE DEF c
<1>3. t <= n * c
    BY <1>1, <1>2
<1>4. n * (c - 1) = n * c - n
    BY <1>2, SMT
<1>5. n * (c - 1) < t
    BY <1>1, <1>2, <1>4
<1>6. c >= 1
    <2>1. c <= 0 => n * c <= 0
        BY <1>2, SMT
    <2> QED
        BY <1>2, <1>3, <2>1
<1>7. ASSUME NEW k \in Int PROVE n * k < t <=> k < c
    <2>1. n * k \in Int
        BY SMT
    <2>2. k < c => n * k <= n * (c - 1)
        <3> SUFFICES ASSUME k < c PROVE n * k <= n * (c - 1)
            OBVIOUS
        <3>1. k <= c - 1 /\ c - 1 \in Int
            BY <1>2
        <3> QED
            BY <3>1, Monotone
    <2>3. ~(k < c) => n * c <= n * k
        BY <1>2, Monotone
    <2>4. n * (c - 1) \in Int
        BY <1>2, SMT
    <2> QED
        BY <1>2, <1>3, <1>5, <2>1, <2>2, <2>3, <2>4
<1> QED
    BY <1>2, <1>3, <1>6, <1>7 DEF c

(* More bits take no fewer parts.                                          *)
LEMMA PartsGrow ==
    ASSUME NEW n \in Nat \ {0}, NEW s \in Nat \ {0}, NEW t \in Nat \ {0}, s <= t
    PROVE  (s + n - 1) \div n \in Nat /\ (t + n - 1) \div n \in Nat
           /\ (s + n - 1) \div n <= (t + n - 1) \div n
<1>1. PICK c \in Nat \ {0} : c = (s + n - 1) \div n /\ \A k \in Int : n * k < s <=> k < c
    BY PartsOf
<1>2. PICK e \in Nat \ {0} : e = (t + n - 1) \div n /\ t <= n * e
    BY PartsOf
<1>3. c <= e
    <2>1. e \in Int /\ n * e \in Int
        BY SMT
    <2>2. ~(n * e < s)
        BY <1>2, <2>1
    <2> QED
        BY <1>1, <2>1, <2>2
<1> QED
    BY <1>1, <1>2, <1>3

LEMMA WordsAreBytes ==
    ASSUME ParametersFit
    PROVE  WordFits /\ PerWord \in Nat \ {0} /\ BYTE * PerWord = WORD /\ WORD \in Nat \ {0}
<1>1. WORD \in Nat \ {0} /\ BYTE \in Nat \ {0} /\ WORD % BYTE = 0 /\ WordFits
    BY DEF ParametersFit, WordFits
<1>2. PerWord \in Int /\ WORD = BYTE * PerWord
    BY <1>1, DivisionIs DEF PerWord
<1>3. PerWord >= 1
    <2>1. PerWord <= 0 => BYTE * PerWord <= 0
        BY <1>1, <1>2, SMT
    <2> QED
        BY <1>1, <1>2, <2>1
<1> QED
    BY <1>1, <1>2, <1>3

(* A bit of an array is one of its word.                                   *)
LEMMA BitOf ==
    ASSUME WordFits, NEW n \in Nat, NEW a \in [0 .. n - 1 -> Word]
    PROVE  /\ \A i \in 0 .. n - 1, p \in 0 .. WORD - 1 : WORD * i + p \in Bits(a) <=> p \in a[i]
           /\ \A e \in Bits(a) : /\ e \in 0 .. WORD * n - 1
                                 /\ e \div WORD \in 0 .. n - 1 /\ e % WORD \in a[e \div WORD]
                                 /\ e % WORD \in 0 .. WORD - 1
<1>1. Bits(a) = Value(a, 0, n)
    BY BitsAre
<1>2. ASSUME NEW i \in 0 .. n - 1, NEW p \in 0 .. WORD - 1
      PROVE  WORD * i + p \in Bits(a) <=> p \in a[i]
    <2>1. (WORD * i + p) \div WORD = i /\ (WORD * i + p) % WORD = p
        BY Digits
    <2>2. WORD * i + p \in Nat
        BY SMT DEF WordFits
    <2> QED
        BY <1>1, <2>1, <2>2 DEF Value
<1>3. ASSUME NEW e \in Bits(a)
      PROVE  /\ e \in 0 .. WORD * n - 1
             /\ e \div WORD \in 0 .. n - 1 /\ e % WORD \in a[e \div WORD]
             /\ e % WORD \in 0 .. WORD - 1
    <2>1. e \in Nat /\ e \div WORD < n /\ e % WORD \in a[0 + (e \div WORD)]
        BY <1>1 DEF Value
    <2>2. e \div WORD \in Nat /\ e % WORD \in 0 .. WORD - 1 /\ e \in 0 .. WORD * n - 1
        BY <1>1, <2>1, QuotientBelow, ByDigits, ValueIsBits
    <2> QED
        BY <2>1, <2>2
<1> QED
    BY <1>2, <1>3

LEMMA SameBits ==
    ASSUME WordFits, NEW n \in Nat, NEW a \in [0 .. n - 1 -> Word], NEW b \in [0 .. n - 1 -> Word],
           Bits(a) = Bits(b)
    PROVE  a = b
<1>1. ASSUME NEW i \in 0 .. n - 1 PROVE a[i] = b[i]
    <2>1. a[i] \subseteq 0 .. WORD - 1 /\ b[i] \subseteq 0 .. WORD - 1
        BY DEF Word
    <2>2. \A p \in 0 .. WORD - 1 : p \in a[i] <=> p \in b[i]
        BY BitOf
    <2> QED
        BY <2>1, <2>2
<1> QED
    BY <1>1

(* Bits put into words are found there again.                              *)
LEMMA BitsOfToWords ==
    ASSUME WordFits, NEW n \in Nat, NEW S, S \subseteq 0 .. WORD * n - 1
    PROVE  ToWords(S, n) \in [0 .. n - 1 -> Word] /\ Bits(ToWords(S, n)) = S
<1> DEFINE a == ToWords(S, n)
<1>0. WORD * n \in Int /\ S \subseteq Nat
    BY SMT DEF WordFits
<1>1. a \in [0 .. n - 1 -> Word]
    BY <1>0, ToWordsAre
<1>2. \A i \in 0 .. n - 1 : a[i] = {p % WORD : p \in {q \in S : q \div WORD = i}}
    BY DEF ToWords
<1> HIDE DEF a
<1>3. ASSUME NEW e \in S PROVE e \in Bits(a)
    <2>1. e \in Nat /\ e < WORD * n
        BY <1>0
    <2>2. e \div WORD \in 0 .. n - 1 /\ e % WORD \in 0 .. WORD - 1
          /\ e = WORD * (e \div WORD) + (e % WORD)
        BY <2>1, QuotientBelow, ByDigits
    <2>3. e % WORD \in a[e \div WORD]
        BY <1>2, <2>2
    <2> QED
        BY <1>1, <2>2, <2>3, BitOf
<1>4. ASSUME NEW e \in Bits(a) PROVE e \in S
    <2>1. /\ e \div WORD \in 0 .. n - 1 /\ e % WORD \in a[e \div WORD] /\ e \in Int
        BY <1>1, BitOf
    <2>2. PICK q \in S : q \div WORD = e \div WORD /\ q % WORD = e % WORD
        BY <1>2, <2>1
    <2>3. q = e
        BY <1>0, <2>1, <2>2, ByDigits
    <2> QED
        BY <2>3
<1> QED
    BY <1>1, <1>3, <1>4 DEF a

LEMMA WordsOfBits ==
    ASSUME WordFits, NEW n \in Nat, NEW a \in [0 .. n - 1 -> Word]
    PROVE  ToWords(Bits(a), n) = a
<1>1. Bits(a) \subseteq 0 .. WORD * n - 1
    BY BitOf
<1> QED
    BY <1>1, BitsOfToWords, SameBits

(* A bit of a string loaded into words                                     *)
LEMMA LoadedBits ==
    ASSUME ParametersFit, NEW n \in Nat, NEW length \in Nat, NEW string, IsString(string, length),
           NEW i \in 0 .. n - 1, NEW q \in 0 .. WORD - 1
    PROVE  /\ q \div BYTE \in 0 .. PerWord - 1 /\ q % BYTE \in 0 .. BYTE - 1
           /\ q = BYTE * (q \div BYTE) + (q % BYTE)
           /\ q \in load8_arr(n, string)[i] <=>
                  /\ PerWord * i + (q \div BYTE) < length
                  /\ q % BYTE \in BitsOfByte(string[PerWord * i + (q \div BYTE) + 1])
<1>1. PICK w \in Nat \ {0} : w = PerWord /\ BYTE * w = WORD /\ WORD \in Nat \ {0}
    BY WordsAreBytes
<1>2. BYTE \in Nat \ {0} /\ q \in Nat
    BY <1>1, Powers
<1>3. PICK d \in Int, p \in 0 .. BYTE - 1 : q = BYTE * d + p /\ d = q \div BYTE /\ p = q % BYTE
    <2>1. q \in Int
        BY <1>2
    <2> QED
        BY <1>2, <2>1, DivisionIs
<1>4. d \in 0 .. w - 1
    <2>1. BYTE * d \in Int
        BY <1>2, SMT
    <2>2. d <= -1 => BYTE * d <= BYTE * (-1)
        BY <1>2, Monotone
    <2>3. BYTE * (-1) = -BYTE
        BY <1>2, SMT
    <2>4. w <= d => BYTE * w <= BYTE * d
        BY <1>2, Monotone
    <2> QED
        BY <1>1, <1>2, <1>3, <2>1, <2>2, <2>3, <2>4
<1> DEFINE left == Len(string) - PerWord * i
           size == IF left >= PerWord THEN PerWord ELSE left
           at0 == PerWord * i
<1>5. Len(string) = length /\ at0 \in Nat /\ w * i \in Nat /\ left \in Int /\ left = length - at0
    <2>1. Len(string) = length
        BY StringsAreSeq
    <2>2. w * i \in Nat
        BY SMT
    <2> QED
        BY <1>1, <2>1, <2>2
<1>6. load8_arr(n, string)[i] = IF left <= 0 THEN {} ELSE load8(string, at0, size)
    BY DEF load8_arr
<1>7. ASSUME NEW k \in 0 .. size - 1, NEW b \in BitsOfByte(string[at0 + k + 1]), q = BYTE * k + b
      PROVE  k = d /\ b = p
    <2>1. b \in 0 .. BYTE - 1 /\ k \in Int
        BY DEF BitsOfByte
    <2>2. (BYTE * k + b) \div BYTE = k /\ (BYTE * k + b) % BYTE = b
        BY <1>2, <2>1, DivisionOf
    <2> QED
        BY <1>3, <1>7, <2>2
<1> HIDE DEF left, at0
<1>8. size \in Int
    BY <1>1, <1>5
<1>9. q \in load8(string, at0, size) <=> d < size /\ p \in BitsOfByte(string[at0 + d + 1])
    <2>1. q \in load8(string, at0, size) <=>
              \E k \in 0 .. size - 1 : \E b \in BitsOfByte(string[at0 + k + 1]) : q = BYTE * k + b
        BY DEF load8
    <2>2. d < size => d \in 0 .. size - 1
        BY <1>4, <1>8
    <2>3. \A k \in 0 .. size - 1 : k < size
        BY <1>8
    <2> HIDE DEF size
    <2> QED
        BY <1>3, <1>7, <2>1, <2>2, <2>3
<1>10. q \in load8_arr(n, string)[i] <=> d < left /\ p \in BitsOfByte(string[at0 + d + 1])
    <2>1. left <= 0 => ~(d < left)
        BY <1>4, <1>5
    <2>2. d < size <=> d < left
        BY <1>1, <1>4, <1>5
    <2> HIDE DEF size
    <2> QED
        BY <1>5, <1>6, <1>9, <2>1, <2>2
<1>11. d < left <=> at0 + d < length
    BY <1>4, <1>5
<1> QED
    BY <1>1, <1>3, <1>4, <1>10, <1>11 DEF at0

(* Bytes by word and place                                                 *)
LEMMA StoredBytes ==
    ASSUME ParametersFit, NEW c \in Nat, NEW words, NEW i \in Nat, NEW k \in 0 .. PerWord - 1,
           PerWord * i + k < c
    PROVE  store8_arr(c, words)[PerWord * i + k + 1] = ByteOf(words[i], k)
<1>1. PICK w \in Nat \ {0} : w = PerWord
    BY WordsAreBytes
<1>2. w * i \in Nat
    BY SMT
<1>3. (w * i + k) \div w = i /\ (w * i + k) % w = k
    BY <1>1, DivisionOf
<1>4. PICK j \in 1..c : j = PerWord * i + k + 1 /\ j - 1 = w * i + k
    BY <1>1, <1>2
<1> QED
    BY <1>1, <1>3, <1>4 DEF store8_arr

LEMMA StoredByte ==
    ASSUME ParametersFit, NEW c \in Nat, NEW words
    PROVE  \A i \in Nat, k \in 0 .. PerWord - 1 : PerWord * i + k < c =>
               store8_arr(c, words)[PerWord * i + k + 1] = ByteOf(words[i], k)
BY StoredBytes

(* What is stored is loaded again, if the bytes are enough for the bits.   *)
LEMMA LoadOfStore ==
    ASSUME ParametersFit, NEW t \in Nat \ {0}, NEW a \in [0 .. Words(t) - 1 -> Word],
           Bits(a) \subseteq 0 .. t - 1
    PROVE  load8_arr(Words(t), store8_arr(CeilDivide(t, BYTE), a)) = a
<1>1. PICK w \in Nat \ {0} : w = PerWord /\ BYTE * w = WORD /\ WORD \in Nat \ {0} /\ WordFits
    BY WordsAreBytes
<1>2. BYTE \in Nat \ {0}
    BY Powers
<1>3. PICK n \in Nat \ {0} : n = Words(t)
    <2>1. \E n \in Nat \ {0} : n = (t + WORD - 1) \div WORD
        BY <1>1, PartsOf
    <2> QED
        BY <2>1 DEF Words
<1>4. PICK c \in Nat : c = CeilDivide(t, BYTE) /\ \A k \in Int : BYTE * k < t <=> k < c
    <2>1. \E c \in Nat \ {0} : c = (t + BYTE - 1) \div BYTE /\ \A k \in Int : BYTE * k < t <=> k < c
        BY <1>2, PartsOf
    <2> QED
        BY <2>1 DEF CeilDivide
<1>0. \A i \in Nat, k \in 0 .. PerWord - 1 : PerWord * i + k < c =>
          store8_arr(c, a)[PerWord * i + k + 1] = ByteOf(a[i], k)
    <2>1. PICK x : x = a
        OBVIOUS
    <2>2. \A i \in Nat, k \in 0 .. PerWord - 1 : PerWord * i + k < c =>
              store8_arr(c, x)[PerWord * i + k + 1] = ByteOf(x[i], k)
        BY StoredByte
    <2> QED
        BY <2>1, <2>2
<1> DEFINE string == store8_arr(c, a)
           b == load8_arr(n, string)
<1>5. IsString(string, c)
    BY ExpansionsAreStrings
<1>6. b \in [0 .. n - 1 -> Word]
    BY <1>5, LoadsAreWords
<1>7. ASSUME NEW i \in 0 .. n - 1, NEW q \in 0 .. WORD - 1 PROVE q \in b[i] <=> q \in a[i]
    <2>1. PICK d \in 0 .. w - 1, p \in 0 .. BYTE - 1 :
              /\ d = q \div BYTE /\ p = q % BYTE /\ q = BYTE * d + p
              /\ q \in b[i] <=> w * i + d < c /\ p \in BitsOfByte(string[w * i + d + 1])
        <3> HIDE DEF string
        <3>1. /\ q \div BYTE \in 0 .. PerWord - 1 /\ q % BYTE \in 0 .. BYTE - 1
              /\ q = BYTE * (q \div BYTE) + (q % BYTE)
              /\ q \in load8_arr(n, string)[i] <=>
                     /\ PerWord * i + (q \div BYTE) < c
                     /\ q % BYTE \in BitsOfByte(string[PerWord * i + (q \div BYTE) + 1])
            BY <1>5, LoadedBits
        <3> QED
            BY <1>1, <3>1
    <2>2. w * i + d \in Nat /\ i \in Nat
        BY SMT
    <2>3. ASSUME w * i + d < c PROVE p \in BitsOfByte(string[w * i + d + 1]) <=> q \in a[i]
        <3>1. string[w * i + d + 1] = ByteOf(a[i], d)
            <4>1. i \in Nat /\ d \in 0 .. PerWord - 1 /\ PerWord * i + d < c
                BY <1>1, <2>2, <2>3
            <4> HIDE DEF string, b
            <4>2. c \in Nat
                OBVIOUS
            <4>4. store8_arr(c, a)[PerWord * i + d + 1] = ByteOf(a[i], d)
                BY <4>1, <1>0
            <4>3. string = store8_arr(c, a)
                BY DEF string
            <4> QED
                BY <1>1, <4>4, <4>3
        <3>2. BitsOfByte(ByteOf(a[i], d)) = InByte(a[i], d)
            BY BytesOfWords
        <3> QED
            BY <2>1, <3>1, <3>2 DEF InByte
    <2>4. ASSUME q \in a[i] PROVE w * i + d < c
        <3>1. WORD * i + q \in Bits(a)
            BY <1>1, <1>3, <2>4, BitOf
        <3>2. WORD * i + q < t
            BY <3>1
        <3>3. BYTE * (w * i + d) = WORD * i + BYTE * d
            <4>1. BYTE * (w * i + d) = (BYTE * w) * i + BYTE * d
                BY <1>2, SMT
            <4> QED
                BY <1>1, <4>1
        <3>4. PICK x \in Int, y \in Int : x = WORD * i /\ y = BYTE * d
            BY <1>1, <1>2, SMT
        <3>5. x + q < t /\ q = y + p /\ p >= 0
            <4>1. q = y + p
                BY <2>1, <3>4
            <4>2. x + q < t
                BY <3>2, <3>4
            <4>3. p >= 0
                BY <1>2
            <4> QED
                BY <4>1, <4>2, <4>3
        <3>6. x + y < t
            BY <3>5
        <3>7. BYTE * (w * i + d) < t
            BY <3>3, <3>4, <3>6
        <3> QED
            BY <1>4, <2>2, <3>7
    <2> HIDE DEF string, b
    <2> QED
        BY <2>1, <2>3, <2>4
<1> HIDE DEF b
<1>8. ASSUME NEW i \in 0 .. n - 1 PROVE b[i] = a[i]
    <2>1. a[i] \subseteq 0 .. WORD - 1 /\ b[i] \subseteq 0 .. WORD - 1
        BY <1>3, <1>6 DEF Word
    <2> QED
        BY <1>7, <2>1
<1>9. b = a
    BY <1>3, <1>6, <1>8
<1> QED
    BY <1>3, <1>4, <1>9 DEF b

(* A string of bytes that is loaded is stored again.                       *)
LEMMA StoreOfLoad ==
    ASSUME ParametersFit, NEW length \in Nat \ {0}, NEW m, IsString(m, length),
           \A k \in 1..length : m[k] \in ByteValues
    PROVE  store8_arr(length, load8_arr(Words(BYTE * length), m)) = m
<1>1. PICK w \in Nat \ {0} : w = PerWord /\ BYTE * w = WORD /\ WORD \in Nat \ {0} /\ WordFits
    BY WordsAreBytes
<1>2. BYTE \in Nat \ {0} /\ BYTE * length \in Nat \ {0}
    <2>1. BYTE \in Nat \ {0}
        BY Powers
    <2> QED
        BY <2>1, SMT
<1>3. PICK n \in Nat \ {0} : n = Words(BYTE * length) /\ \A k \in Int : WORD * k < BYTE * length <=> k < n
    <2>1. \E n \in Nat \ {0} : /\ n = (BYTE * length + WORD - 1) \div WORD
                               /\ \A k \in Int : WORD * k < BYTE * length <=> k < n
        BY <1>1, <1>2, PartsOf
    <2> QED
        BY <2>1 DEF Words
<1> DEFINE a == load8_arr(n, m)
<1>4. ASSUME NEW k \in 1..length PROVE store8_arr(length, a)[k] = m[k]
    <2>1. PICK i \in Int, j \in 0 .. w - 1 : k - 1 = w * i + j
        <3>1. k - 1 \in Int
            OBVIOUS
        <3> QED
            BY <3>1, DivisionIs
    <2>2. i \in Nat
        <3>1. i <= -1 => w * i <= w * (-1)
            BY Monotone
        <3>2. w * (-1) = -w /\ w * i \in Int
            BY SMT
        <3> QED
            BY <2>1, <3>1, <3>2
    <2>3. w * i + j < length /\ w * i + j + 1 = k /\ w * i \in Int
        <3>1. w * i \in Int
            BY SMT
        <3> QED
            BY <2>1, <3>1
    <2>4. i \in 0 .. n - 1
        <3>1. WORD * i = BYTE * (w * i)
            <4>1. BYTE * (w * i) = (BYTE * w) * i
                BY <1>2, SMT
            <4> QED
                BY <1>1, <4>1
        <3>2. w * i < length
            BY <2>3
        <3>3. BYTE * (w * i) < BYTE * length
            <4>1. PICK x \in Int : x = w * i /\ x < length
                BY <2>3, <3>2
            <4>2. BYTE * x < BYTE * length
                BY <1>2, <4>1, SMT
            <4> QED
                BY <4>1, <4>2
        <3>4. i < n
            BY <1>3, <3>1, <3>3
        <3> QED
            BY <2>2, <3>4
    <2>5. InByte(a[i], j) = BitsOfByte(m[k])
        <3>1. ASSUME NEW p \in 0 .. BYTE - 1 PROVE BYTE * j + p \in a[i] <=> p \in BitsOfByte(m[k])
            <4>1. PICK q \in Int : q = BYTE * j + p /\ q \div BYTE = j /\ q % BYTE = p
                <5>1. BYTE * j + p \in Int
                    BY <1>2, SMT
                <5>2. (BYTE * j + p) \div BYTE = j /\ (BYTE * j + p) % BYTE = p
                    BY <1>2, DivisionOf
                <5> QED
                    BY <5>1, <5>2
            <4>2. q \in 0 .. WORD - 1
                <5>1. BYTE * (j + 1) <= BYTE * w
                    <6>1. j + 1 <= w /\ j + 1 \in Int
                        OBVIOUS
                    <6> QED
                        BY <1>2, <6>1, Monotone
                <5>2. BYTE * (j + 1) = BYTE * j + BYTE
                    BY <1>2, SMT
                <5>3. BYTE * j \in Nat
                    BY <1>2, SMT
                <5> QED
                    BY <1>1, <1>2, <4>1, <5>1, <5>2, <5>3
            <4>3. q \in a[i] <=> w * i + j < length /\ p \in BitsOfByte(m[w * i + j + 1])
                <5>1. q \in a[i] <=>
                          /\ PerWord * i + (q \div BYTE) < length
                          /\ q % BYTE \in BitsOfByte(m[PerWord * i + (q \div BYTE) + 1])
                    BY <2>4, <4>2, LoadedBits
                <5> QED
                    BY <1>1, <4>1, <5>1
            <4> QED
                BY <2>3, <4>1, <4>3
        <3> HIDE DEF a
        <3> QED
            BY <3>1 DEF InByte, BitsOfByte
    <2>6. ByteOf(a[i], j) = m[k]
        BY <2>5, BytesOfWords
    <2> HIDE DEF a
    <2>7. store8_arr(length, a)[w * i + j + 1] = ByteOf(a[i], j)
        BY <1>1, <2>2, <2>3, StoredBytes
    <2> QED
        BY <2>3, <2>6, <2>7
<1> HIDE DEF a
<1>5. IsString(store8_arr(length, a), length)
    BY ExpansionsAreStrings
<1>6. store8_arr(length, a) = m
    BY <1>4, <1>5, Zenon DEF IsString
<1> QED
    BY <1>3, <1>6 DEF a

-----------------------------------------------------------------------------
(* Operations on arrays as operations on their bits                        *)

(* The bits of an array are known word by word.                            *)
LEMMA BitsBy ==
    ASSUME WordFits, NEW n \in Nat, NEW a \in [0 .. n - 1 -> Word], NEW S, S \subseteq 0 .. WORD * n - 1,
           \A i \in 0 .. n - 1, p \in 0 .. WORD - 1 : p \in a[i] <=> WORD * i + p \in S
    PROVE  Bits(a) = S
<1>1. ASSUME NEW e \in Bits(a) PROVE e \in S
    <2>1. e \div WORD \in 0 .. n - 1 /\ e % WORD \in a[e \div WORD] /\ e % WORD \in 0 .. WORD - 1 /\ e \in Int
        BY BitOf
    <2>2. e = WORD * (e \div WORD) + (e % WORD)
        BY <2>1, ByDigits
    <2> QED
        BY <2>1, <2>2
<1>2. ASSUME NEW e \in S PROVE e \in Bits(a)
    <2>1. e \in Nat /\ e < WORD * n
        <3>1. WORD * n \in Int
            BY SMT DEF WordFits
        <3> QED
            BY <3>1
    <2>2. e \div WORD \in 0 .. n - 1 /\ e % WORD \in 0 .. WORD - 1
          /\ e = WORD * (e \div WORD) + (e % WORD)
        BY <2>1, QuotientBelow, ByDigits
    <2>3. e % WORD \in a[e \div WORD]
        BY <2>2
    <2> QED
        BY <2>2, <2>3, BitOf
<1> QED
    BY <1>1, <1>2

LEMMA SumOfArrays ==
    ASSUME WordFits, NEW n \in Nat, NEW a \in [0 .. n - 1 -> Word], NEW b \in [0 .. n - 1 -> Word]
    PROVE  /\ vect_add(a, b, n) \in [0 .. n - 1 -> Word]
           /\ Bits(vect_add(a, b, n)) = Bits(a) (+) Bits(b)
<1> DEFINE c == vect_add(a, b, n)
<1>1. c = [i \in 0 .. n - 1 |-> a[i] (+) b[i]]
    BY DEF vect_add
<1> HIDE DEF c
<1>2. c \in [0 .. n - 1 -> Word]
    BY <1>1, SumOfWords
<1>3. Bits(a) (+) Bits(b) \subseteq 0 .. WORD * n - 1
    BY BitOf DEF (+)
<1>4. ASSUME NEW i \in 0 .. n - 1, NEW p \in 0 .. WORD - 1
      PROVE  p \in c[i] <=> WORD * i + p \in Bits(a) (+) Bits(b)
    <2>1. WORD * i + p \in Bits(a) <=> p \in a[i]
        BY BitOf
    <2>2. WORD * i + p \in Bits(b) <=> p \in b[i]
        BY BitOf
    <2> QED
        BY <1>1, <2>1, <2>2 DEF (+)
<1>5. Bits(c) = Bits(a) (+) Bits(b)
    BY <1>2, <1>3, <1>4, BitsBy
<1> QED
    BY <1>2, <1>5 DEF c

(* The arrays whose bits are a vector, and those whose bits are a codeword  *)
VectorArrays == {a \in Arrays : Bits(a) \in Vectors}

CodeArrays ==
    {a \in [0 .. VEC_N1N2_SIZE_64 - 1 -> Word] : Bits(a) \subseteq 0 .. PARAM_N1N2 - 1}

(* How many words and bytes they have                                      *)
LEMMA Lengths ==
    ASSUME ParametersFit
    PROVE  /\ WordFits /\ VEC_N_SIZE_64 \in Nat \ {0} /\ VEC_N1N2_SIZE_64 \in Nat \ {0}
           /\ VEC_N1N2_SIZE_64 <= VEC_N_SIZE_64
           /\ PARAM_N \in Nat \ {0} /\ PARAM_N1N2 \in Nat \ {0} /\ PARAM_N1N2 < PARAM_N
           /\ VEC_N_SIZE_64 = Words(PARAM_N) /\ VEC_N1N2_SIZE_64 = Words(PARAM_N1N2)
           /\ PARAM_N <= WORD * VEC_N_SIZE_64 /\ PARAM_N1N2 <= WORD * VEC_N1N2_SIZE_64
           /\ \A k \in Int : WORD * k < PARAM_N1N2 <=> k < VEC_N1N2_SIZE_64
           /\ \A k \in Int : WORD * k < PARAM_N <=> k < VEC_N_SIZE_64
<1>1. WordFits /\ WORD \in Nat \ {0} /\ PARAM_N \in Nat \ {0} /\ PARAM_N1N2 \in Nat \ {0}
      /\ PARAM_N1N2 < PARAM_N
    BY DEF ParametersFit, WordFits
<1>2. VEC_N_SIZE_64 = Words(PARAM_N) /\ VEC_N1N2_SIZE_64 = Words(PARAM_N1N2)
    BY DEF VEC_N_SIZE_64, VEC_N1N2_SIZE_64
<1>3. PICK n \in Nat \ {0} : /\ n = Words(PARAM_N) /\ PARAM_N <= WORD * n
                             /\ \A k \in Int : WORD * k < PARAM_N <=> k < n
    <2>1. \E n \in Nat \ {0} : /\ n = (PARAM_N + WORD - 1) \div WORD /\ PARAM_N <= WORD * n
                               /\ \A k \in Int : WORD * k < PARAM_N <=> k < n
        BY <1>1, PartsOf
    <2> QED
        BY <2>1 DEF Words
<1>4. PICK c \in Nat \ {0} : /\ c = Words(PARAM_N1N2) /\ PARAM_N1N2 <= WORD * c
                             /\ \A k \in Int : WORD * k < PARAM_N1N2 <=> k < c
    <2>1. \E m \in Nat \ {0} : /\ m = (PARAM_N1N2 + WORD - 1) \div WORD /\ PARAM_N1N2 <= WORD * m
                               /\ \A k \in Int : WORD * k < PARAM_N1N2 <=> k < m
        BY <1>1, PartsOf
    <2> QED
        BY <2>1 DEF Words
<1>5. c <= n
    <2>1. WORD * (c - 1) < PARAM_N1N2 /\ WORD * (c - 1) \in Int
        <3>1. c - 1 \in Int /\ c - 1 < c
            OBVIOUS
        <3>2. WORD * (c - 1) \in Int
            BY <1>1, <3>1, SMT
        <3> QED
            BY <1>4, <3>1, <3>2
    <2>2. WORD * (c - 1) < PARAM_N
        BY <1>1, <2>1
    <2>3. c - 1 \in Int
        OBVIOUS
    <2>4. c - 1 < n
        BY <1>3, <2>2, <2>3
    <2> QED
        BY <2>4
<1> QED
    BY <1>1, <1>2, <1>3, <1>4, <1>5

LEMMA VectorSums ==
    ASSUME ParametersFit, NEW a \in VectorArrays, NEW b \in VectorArrays
    PROVE  /\ vect_add(a, b, VEC_N_SIZE_64) \in VectorArrays
           /\ Bits(vect_add(a, b, VEC_N_SIZE_64)) = Bits(a) (+) Bits(b)
<1>1. PICK n \in Nat : n = VEC_N_SIZE_64 /\ WordFits
    BY Lengths
<1>2. a \in [0 .. n - 1 -> Word] /\ b \in [0 .. n - 1 -> Word]
    BY <1>1 DEF VectorArrays, Arrays
<1>3. vect_add(a, b, n) \in [0 .. n - 1 -> Word] /\ Bits(vect_add(a, b, n)) = Bits(a) (+) Bits(b)
    BY <1>1, <1>2, SumOfArrays
<1>4. Bits(a) (+) Bits(b) \in Vectors
    BY SumsAreVectors DEF VectorArrays
<1> QED
    BY <1>1, <1>3, <1>4 DEF VectorArrays, Arrays

LEMMA VectorProducts ==
    ASSUME ParametersFit, NEW a \in VectorArrays, NEW b \in VectorArrays
    PROVE  /\ vect_mul(a, b) \in VectorArrays
           /\ Bits(vect_mul(a, b)) = CyclicProduct(Bits(a), Bits(b))
<1>1. SizesFit /\ PARAM_N % WORD # 0 /\ PARAM_N \in Nat \ {0}
    BY ArraysFit, Lengths
<1>2. a \in Arrays /\ b \in Arrays /\ Bits(a) \in Vectors /\ Bits(b) \in Vectors
    BY DEF VectorArrays
<1>3. Fits(Bits(a), Bits(b))
    BY <1>1, <1>2 DEF Fits, Vectors
<1>4. vect_mul(a, b) \in Arrays /\ Bits(vect_mul(a, b)) = CyclicProduct(Bits(a), Bits(b))
    BY <1>1, <1>2, <1>3, VectMulMultiplies
<1>5. CyclicProduct(Bits(a), Bits(b)) \in Vectors
    BY <1>1, <1>2, ProductTurns
<1> QED
    BY <1>4, <1>5 DEF VectorArrays

(* vect_set_random                                                         *)
LEMMA UniformInRange ==
    ASSUME ParametersFit, NEW ctx
    PROVE  vect_set_random(ctx) \in VectorArrays
<1>1. PICK n \in Nat \ {0} : n = VEC_N_SIZE_64 /\ WordFits /\ SizesFit /\ PARAM_N % WORD # 0
                              /\ PARAM_N \in Nat \ {0} /\ WORD \in Nat \ {0}
    BY Lengths, ArraysFit DEF WordFits
<1>2. PICK r \in 1 .. WORD - 1 : r = PARAM_N % WORD /\ PARAM_N = WORD * (n - 1) + r
    BY <1>1, LastWord
<1> DEFINE v == vect_set_random(ctx)
<1>3. v \in Arrays
    BY UniformVectors
<1>4. v[n - 1] \subseteq 0 .. r - 1
    <2> DEFINE w == load8_arr(VEC_N_SIZE_64, seedexpander(ctx, VEC_N_SIZE_BYTES))
    <2>1. w = [i \in 0 .. n - 1 |-> w[i]]
        BY <1>1 DEF load8_arr
    <2>2. v = [w EXCEPT ![n - 1] = @ \cap RED_MASK]
        BY <1>1 DEF vect_set_random
    <2> HIDE DEF w, v
    <2>3. n - 1 \in 0 .. n - 1
        OBVIOUS
    <2>4. v[n - 1] = w[n - 1] \cap RED_MASK
        BY <2>1, <2>2, <2>3
    <2> QED
        BY <1>2, <2>4 DEF RED_MASK
<1> HIDE DEF v
<1>5. ASSUME NEW e \in Bits(v) PROVE e \in 0 .. PARAM_N - 1
    <2>1. v \in [0 .. n - 1 -> Word]
        BY <1>1, <1>3 DEF Arrays
    <2>2. PICK i \in 0 .. n - 1, p \in 0 .. WORD - 1 :
              i = e \div WORD /\ p = e % WORD /\ p \in v[i] /\ e \in 0 .. WORD * n - 1
        BY <1>1, <2>1, BitOf
    <2>3. e = WORD * i + p /\ e \in Nat
        <3>1. e \in Int
            BY <2>2
        <3> QED
            BY <1>1, <2>2, <3>1, ByDigits
    <2>4. PICK x \in Int, y \in Int : x = WORD * i /\ y = WORD * (n - 1)
        BY <1>1, SMT
    <2>5. CASE i = n - 1
        <3>1. p < r
            BY <1>4, <2>2, <2>5
        <3> QED
            BY <1>2, <2>3, <2>4, <2>5, <3>1
    <2>6. CASE i < n - 1
        <3>1. WORD * (i + 1) <= WORD * (n - 1)
            <4>1. i + 1 \in Int /\ n - 1 \in Int /\ i + 1 <= n - 1
                BY <2>6
            <4> QED
                BY <1>1, <4>1, Monotone
        <3>2. WORD * (i + 1) = x + WORD
            BY <1>1, <2>4, SMT
        <3> QED
            BY <1>1, <1>2, <2>3, <2>4, <3>1, <3>2
    <2> QED
        BY <2>5, <2>6
<1> QED
    BY <1>3, <1>5 DEF VectorArrays, Vectors, v

(* vect_resize from the length of a codeword to that of a vector, and back  *)
Extended(v) == vect_resize(Zeros(VEC_N_SIZE_64), PARAM_N, v, PARAM_N1N2)

Shortened(o, v) == vect_resize(o, PARAM_N1N2, v, PARAM_N)

LEMMA ExtendedIs ==
    ASSUME ParametersFit, NEW v \in CodeArrays
    PROVE  Extended(v) \in VectorArrays /\ Bits(Extended(v)) = Bits(v)
<1>1. PICK n \in Nat \ {0}, c \in Nat \ {0} : n = VEC_N_SIZE_64 /\ c = VEC_N1N2_SIZE_64
    BY Lengths
<1>2. WordFits /\ c <= n /\ PARAM_N \in Nat /\ PARAM_N1N2 \in Nat /\ PARAM_N1N2 < PARAM_N
      /\ c = Words(PARAM_N1N2) /\ PARAM_N <= WORD * n /\ WORD * n \in Int
    <2>1. WORD * n \in Int
        BY Lengths, SMT DEF WordFits
    <2> QED
        BY <1>1, <2>1, Lengths
<1>3. v \in [0 .. c - 1 -> Word] /\ Bits(v) \subseteq 0 .. PARAM_N1N2 - 1
    BY <1>1 DEF CodeArrays
<1> DEFINE a == Extended(v)
<1>4. a = [i \in 0 .. n - 1 |-> IF i < c THEN v[i] ELSE {}]
    <2>1. ~(PARAM_N < PARAM_N1N2)
        BY <1>2
    <2>2. a = [i \in DOMAIN Zeros(n) |-> IF i < c THEN v[i] ELSE Zeros(n)[i]]
        BY <1>1, <1>2, <2>1 DEF Extended, vect_resize
    <2>3. Zeros(n) = [i \in 0 .. n - 1 |-> {}]
        BY DEF Zeros
    <2> HIDE DEF a
    <2> QED
        BY <2>2, <2>3
<1> HIDE DEF a
<1>5. a \in [0 .. n - 1 -> Word]
    <2>1. {} \in Word
        BY DEF Word
    <2>2. \A i \in 0 .. n - 1 : i < c => i \in 0 .. c - 1
        OBVIOUS
    <2> QED
        BY <1>3, <1>4, <2>1, <2>2
<1>6. Bits(v) \subseteq 0 .. WORD * n - 1
    BY <1>2, <1>3
<1>7. ASSUME NEW i \in 0 .. n - 1, NEW p \in 0 .. WORD - 1
      PROVE  p \in a[i] <=> WORD * i + p \in Bits(v)
    <2>1. CASE i < c
        <3>1. i \in 0 .. c - 1
            BY <2>1
        <3>2. WORD * i + p \in Bits(v) <=> p \in v[i]
            BY <1>2, <1>3, <3>1, BitOf
        <3> QED
            BY <1>4, <2>1, <3>2
    <2>2. CASE ~(i < c)
        <3>1. a[i] = {}
            BY <1>4, <2>2
        <3>2. i \in Int /\ (WORD * i + p) \div WORD = i
            BY <1>2, Digits
        <3>3. WORD * i + p \notin Bits(v)
            <4>1. \A e \in Bits(v) : e \div WORD \in 0 .. c - 1
                BY <1>2, <1>3, BitOf
            <4> QED
                BY <2>2, <3>2, <4>1
        <3> QED
            BY <3>1, <3>3
    <2> QED
        BY <2>1, <2>2
<1>8. Bits(a) = Bits(v)
    BY <1>2, <1>5, <1>6, <1>7, BitsBy
<1>9. Bits(v) \in Vectors
    BY <1>2, <1>3 DEF Vectors
<1> QED
    BY <1>1, <1>5, <1>8, <1>9 DEF VectorArrays, Arrays, a

LEMMA ShortenedIs ==
    ASSUME ParametersFit, NEW o \in [0 .. VEC_N1N2_SIZE_64 - 1 -> Word], NEW v \in VectorArrays
    PROVE  /\ Shortened(o, v) \in CodeArrays
           /\ Bits(Shortened(o, v)) = Bits(v) \cap (0 .. PARAM_N1N2 - 1)
<1>1. PICK n \in Nat \ {0}, c \in Nat \ {0} : n = VEC_N_SIZE_64 /\ c = VEC_N1N2_SIZE_64
    BY Lengths
<1>2. /\ WordFits /\ WORD \in Nat \ {0} /\ c <= n /\ PARAM_N1N2 \in Nat \ {0} /\ PARAM_N1N2 < PARAM_N
      /\ PARAM_N \in Nat /\ WORD * c \in Int
      /\ PARAM_N1N2 <= WORD * c /\ \A k \in Int : WORD * k < PARAM_N1N2 <=> k < c
    <2>1. WORD * c \in Int
        BY Lengths, SMT DEF WordFits
    <2> QED
        BY <1>1, <2>1, Lengths DEF WordFits
<1>3. v \in [0 .. n - 1 -> Word] /\ o \in [0 .. c - 1 -> Word]
    BY <1>1 DEF VectorArrays, Arrays
<1> DEFINE a == Shortened(o, v)
           r == PARAM_N1N2 % WORD
           top == WORD - 1 - (IF r = 0 THEN 0 ELSE WORD - r)
<1>4. a = [i \in 0 .. c - 1 |-> IF i < c - 1 THEN v[i] ELSE v[i] \cap (0 .. top)]
    <2>1. a = [i \in DOMAIN o |-> IF i < c - 1 THEN v[i]
                                  ELSE IF i = c - 1 THEN v[i] \cap (0 .. top) ELSE o[i]]
        BY <1>1, <1>2 DEF Shortened, vect_resize
    <2>2. DOMAIN o = 0 .. c - 1
        BY <1>3
    <2>3. \A i \in 0 .. c - 1 : ~(i < c - 1) => i = c - 1
        OBVIOUS
    <2> HIDE DEF a, top
    <2> QED
        BY <2>1, <2>2, <2>3, Zenon
<1> HIDE DEF a
<1>5. a \in [0 .. c - 1 -> Word]
    <2>1. \A i \in 0 .. c - 1 : v[i] \in Word
        BY <1>2, <1>3
    <2>2. \A w \in Word : \A S : w \cap S \in Word
        BY DEF Word
    <2> HIDE DEF top
    <2> QED
        BY <1>4, <2>1, <2>2
(* The last word of a codeword                                             *)
<1>6. ASSUME NEW p \in 0 .. WORD - 1 PROVE p <= top <=> WORD * (c - 1) + p < PARAM_N1N2
    <2>1. PICK q \in Int, s \in 0 .. WORD - 1 : s = r /\ PARAM_N1N2 = WORD * q + s
        <3>1. PARAM_N1N2 \in Int
            BY <1>2
        <3>2. /\ PARAM_N1N2 \div WORD \in Int /\ r \in 0 .. WORD - 1
              /\ PARAM_N1N2 = WORD * (PARAM_N1N2 \div WORD) + r
            BY <1>2, <3>1, ByDigits
        <3> HIDE DEF r
        <3> QED
            BY <3>2
    <2>2. PICK x \in Int, y \in Int, z \in Int : x = WORD * (c - 1) /\ y = WORD * q /\ z = WORD * (q + 1)
        BY <1>2, SMT
    <2>3. z = y + WORD /\ WORD * c = x + WORD
        BY <1>2, <2>2, SMT
    <2>4. x < PARAM_N1N2 /\ PARAM_N1N2 <= x + WORD
        BY <1>2, <2>2, <2>3
    <2>5. CASE r = 0
        <3>1. top = WORD - 1
            BY <1>2, <2>5
        <3>2. y = x + WORD
            <4>1. PARAM_N1N2 = y
                BY <2>1, <2>2, <2>5
            <4>2. c <= q
                <5>1. ~(WORD * q < PARAM_N1N2)
                    BY <2>2, <4>1
                <5> QED
                    BY <1>2, <5>1
            <4>3. WORD * c <= WORD * q
                BY <1>2, <4>2, Monotone
            <4> QED
                BY <1>2, <2>2, <2>3, <2>4, <4>1, <4>3
        <3> QED
            BY <1>2, <2>1, <2>2, <2>5, <3>1, <3>2
    <2>6. CASE r # 0
        <3>1. top = s - 1
            BY <1>2, <2>1, <2>6
        <3>2. q < c /\ ~(q + 1 < c)
            <4>1. WORD * q < PARAM_N1N2 /\ ~(WORD * (q + 1) < PARAM_N1N2)
                BY <1>2, <2>1, <2>2, <2>3, <2>6
            <4>2. q + 1 \in Int
                OBVIOUS
            <4> QED
                BY <1>2, <4>1, <4>2
        <3>3. q = c - 1
            BY <3>2
        <3>4. x = y
            BY <2>2, <3>3
        <3> QED
            BY <2>1, <2>2, <3>1, <3>4
    <2> QED
        BY <2>5, <2>6
<1>7. top \in Int
    <2>1. r \in Int
        BY <1>2, ByDigits
    <2> HIDE DEF r
    <2> QED
        BY <1>2, <2>1
<1> HIDE DEF top
<1> DEFINE S == Bits(v) \cap (0 .. PARAM_N1N2 - 1)
<1>8. S \subseteq 0 .. WORD * c - 1
    BY <1>2
<1>9. ASSUME NEW i \in 0 .. c - 1, NEW p \in 0 .. WORD - 1
      PROVE  p \in a[i] <=> WORD * i + p \in S
    <2>1. i \in 0 .. n - 1
        BY <1>2
    <2>2. WORD * i + p \in Bits(v) <=> p \in v[i]
        BY <1>2, <1>3, <2>1, BitOf
    <2>3. PICK x \in Int : x = WORD * i
        BY <1>2, SMT
    <2>4. x >= 0
        BY <1>2, <2>3, SMT
    <2>5. CASE i < c - 1
        <3>1. a[i] = v[i]
            BY <1>4, <2>5
        <3>2. WORD * (i + 1) < PARAM_N1N2
            <4>1. i + 1 \in Int /\ i + 1 < c
                BY <2>5
            <4> QED
                BY <1>2, <4>1
        <3>3. WORD * (i + 1) = x + WORD
            BY <1>2, <2>3, SMT
        <3>4. x + p \in 0 .. PARAM_N1N2 - 1
            BY <1>2, <2>4, <3>2, <3>3
        <3> QED
            BY <2>2, <2>3, <3>1, <3>4
    <2>6. CASE i = c - 1
        <3>1. a[i] = v[i] \cap (0 .. top)
            BY <1>4, <2>6
        <3>2. p <= top <=> x + p < PARAM_N1N2
            BY <1>6, <2>3, <2>6
        <3>3. p \in 0 .. top <=> x + p \in 0 .. PARAM_N1N2 - 1
            BY <1>2, <1>7, <2>4, <3>2
        <3> QED
            BY <2>2, <2>3, <3>1, <3>3
    <2> QED
        BY <2>5, <2>6
<1>10. Bits(a) = S
    BY <1>2, <1>5, <1>8, <1>9, BitsBy
<1> QED
    BY <1>1, <1>5, <1>10 DEF CodeArrays, a

(* Vectors and codewords survive as bytes.                                 *)
LEMMA VectorsSurvive ==
    ASSUME ParametersFit, NEW a \in VectorArrays, NEW v \in CodeArrays
    PROVE  /\ load8_arr(VEC_N_SIZE_64, store8_arr(VEC_N_SIZE_BYTES, a)) = a
           /\ load8_arr(VEC_N1N2_SIZE_64, store8_arr(VEC_N1N2_SIZE_BYTES, v)) = v
<1>1. /\ PARAM_N \in Nat \ {0} /\ PARAM_N1N2 \in Nat \ {0}
      /\ VEC_N_SIZE_64 = Words(PARAM_N) /\ VEC_N1N2_SIZE_64 = Words(PARAM_N1N2)
    BY Lengths
<1>2. a \in [0 .. Words(PARAM_N) - 1 -> Word] /\ Bits(a) \subseteq 0 .. PARAM_N - 1
    BY <1>1 DEF VectorArrays, Arrays, Vectors
<1>3. v \in [0 .. Words(PARAM_N1N2) - 1 -> Word] /\ Bits(v) \subseteq 0 .. PARAM_N1N2 - 1
    BY <1>1 DEF CodeArrays
<1>4. load8_arr(Words(PARAM_N), store8_arr(CeilDivide(PARAM_N, BYTE), a)) = a
    BY <1>1, <1>2, LoadOfStore
<1>5. load8_arr(Words(PARAM_N1N2), store8_arr(CeilDivide(PARAM_N1N2, BYTE), v)) = v
    BY <1>1, <1>3, LoadOfStore
<1> QED
    BY <1>1, <1>4, <1>5 DEF VEC_N_SIZE_BYTES, VEC_N1N2_SIZE_BYTES

-----------------------------------------------------------------------------
(* The code                                                                *)

(* The bits of a message                                                   *)
Carried(m) == Bits(load8_arr(Words(MessageBits), m))

IsMessage(m) == IsString(m, VEC_K_SIZE_BYTES) /\ \A k \in 1..VEC_K_SIZE_BYTES : m[k] \in ByteValues

LEMMA MessagesFit ==
    ASSUME ParametersFit
    PROVE  /\ MessageBits \in Nat \ {0} /\ Words(MessageBits) \in Nat \ {0}
           /\ MessageBits <= WORD * Words(MessageBits)
<1>1. MessageBits \in Nat \ {0} /\ WORD \in Nat \ {0}
    <2>1. BYTE \in Nat \ {0} /\ VEC_K_SIZE_BYTES \in Nat \ {0} /\ WORD \in Nat \ {0}
        BY DEF ParametersFit
    <2> QED
        BY <2>1, SMT DEF MessageBits
<1>2. \E n \in Nat \ {0} : n = (MessageBits + WORD - 1) \div WORD /\ MessageBits <= WORD * n
    BY <1>1, PartsOf
<1> QED
    BY <1>1, <1>2 DEF Words

LEMMA CarriedBits ==
    ASSUME ParametersFit, NEW m, IsString(m, VEC_K_SIZE_BYTES)
    PROVE  /\ load8_arr(Words(MessageBits), m) \in [0 .. Words(MessageBits) - 1 -> Word]
           /\ Carried(m) \subseteq 0 .. MessageBits - 1
<1>1. PICK w \in Nat \ {0} : w = PerWord /\ BYTE * w = WORD /\ WORD \in Nat \ {0} /\ WordFits
    BY WordsAreBytes
<1>2. PICK n \in Nat \ {0} : n = Words(MessageBits) /\ MessageBits \in Nat \ {0}
    BY MessagesFit
<1>3. BYTE \in Nat \ {0} /\ VEC_K_SIZE_BYTES \in Nat
    BY DEF ParametersFit
<1> DEFINE a == load8_arr(n, m)
<1>4. a \in [0 .. n - 1 -> Word]
    BY <1>3, LoadsAreWords
<1>5. ASSUME NEW e \in Bits(a) PROVE e \in 0 .. MessageBits - 1
    <2>1. PICK i \in 0 .. n - 1, q \in 0 .. WORD - 1 :
              i = e \div WORD /\ q = e % WORD /\ q \in a[i] /\ e \in 0 .. WORD * n - 1
        <3> HIDE DEF a
        <3> QED
            BY <1>1, <1>4, BitOf
    <2>2. e = WORD * i + q /\ e \in Nat
        <3>1. e \in Int
            BY <2>1
        <3> QED
            BY <1>1, <2>1, <3>1, ByDigits
    <2>3. PICK d \in 0 .. w - 1, p \in 0 .. BYTE - 1 : q = BYTE * d + p /\ w * i + d < VEC_K_SIZE_BYTES
        <3>1. /\ q \div BYTE \in 0 .. PerWord - 1 /\ q % BYTE \in 0 .. BYTE - 1
              /\ q = BYTE * (q \div BYTE) + (q % BYTE)
              /\ q \in load8_arr(n, m)[i] => PerWord * i + (q \div BYTE) < VEC_K_SIZE_BYTES
            BY <1>3, LoadedBits
        <3> QED
            BY <1>1, <2>1, <3>1
    <2>4. WORD * i = BYTE * (w * i) /\ w * i \in Nat
        <3>1. BYTE * (w * i) = (BYTE * w) * i /\ w * i \in Nat
            BY <1>3, SMT
        <3> QED
            BY <1>1, <3>1
    <2>5. PICK x \in Nat : x = w * i + d
        BY <2>4
    <2>6. BYTE * (x + 1) <= BYTE * VEC_K_SIZE_BYTES
        <3>1. x + 1 \in Int /\ VEC_K_SIZE_BYTES \in Int /\ x + 1 <= VEC_K_SIZE_BYTES
            BY <1>3, <2>3, <2>5
        <3> QED
            BY <1>3, <3>1, Monotone
    <2>7. BYTE * (x + 1) = BYTE * (w * i) + BYTE * d + BYTE
        <3>1. PICK y \in Nat : y = w * i
            BY <2>4
        <3>2. BYTE * (y + d + 1) = BYTE * y + BYTE * d + BYTE
            BY <1>3, SMT
        <3> QED
            BY <2>5, <3>1, <3>2
    <2>8. PICK g \in Int, h \in Int : g = BYTE * (w * i) /\ h = BYTE * d
        <3>1. BYTE * d \in Int /\ BYTE * (w * i) \in Int
            BY <1>3, <2>4, SMT
        <3> QED
            BY <3>1
    <2>9. e = g + h + p /\ g + h + BYTE <= MessageBits
        BY <2>2, <2>3, <2>4, <2>6, <2>7, <2>8 DEF MessageBits
    <2> QED
        BY <1>2, <1>3, <2>2, <2>8, <2>9
<1> HIDE DEF a
<1> QED
    BY <1>2, <1>4, <1>5 DEF Carried, a

LEMMA EncodedIs ==
    ASSUME ParametersFit, NEW m
    PROVE  /\ code_encode(m) \in CodeArrays
           /\ Bits(code_encode(m)) = {p \in 0 .. PARAM_N1N2 - 1 : p % MessageBits \in Carried(m)}
<1>1. PICK c \in Nat \ {0} : /\ c = VEC_N1N2_SIZE_64 /\ PARAM_N1N2 <= WORD * c /\ WordFits
                             /\ PARAM_N1N2 \in Nat /\ WORD * c \in Int
    <2>1. WORD * VEC_N1N2_SIZE_64 \in Int
        BY Lengths, SMT DEF WordFits
    <2> QED
        BY <2>1, Lengths
<1> DEFINE S == {p \in 0 .. PARAM_N1N2 - 1 : p % MessageBits \in Carried(m)}
<1>2. S \subseteq 0 .. WORD * c - 1
    BY <1>1
<1>3. code_encode(m) = ToWords(S, c)
    BY <1>1 DEF code_encode, Carried
<1>4. S \subseteq 0 .. PARAM_N1N2 - 1
    OBVIOUS
<1> HIDE DEF S
<1>5. ToWords(S, c) \in [0 .. c - 1 -> Word] /\ Bits(ToWords(S, c)) = S
    BY <1>1, <1>2, BitsOfToWords
<1> QED
    BY <1>1, <1>3, <1>4, <1>5 DEF CodeArrays, S

(* How often the code sends a bit                                          *)
Copies == PARAM_N1N2 \div MessageBits

LEMMA ManyCopies ==
    ASSUME ParametersFit, NEW b \in 0 .. MessageBits - 1
    PROVE  LET places == {p \in 0 .. PARAM_N1N2 - 1 : p % MessageBits = b}
           IN  Copies \in Int /\ IsFiniteSet(places) /\ Copies <= Cardinality(places)
<1> DEFINE places == {p \in 0 .. PARAM_N1N2 - 1 : p % MessageBits = b}
<1>1. PICK k \in Nat \ {0} : k = MessageBits
    BY MessagesFit
<1>2. PARAM_N1N2 \in Nat
    BY Lengths
<1>3. PICK c \in Int : c = Copies /\ k * c \in Int /\ k * c <= PARAM_N1N2
    <2>1. PARAM_N1N2 \in Int
        BY <1>2
    <2>2. /\ PARAM_N1N2 \div k \in Int /\ PARAM_N1N2 % k \in 0 .. k - 1 /\ k * (PARAM_N1N2 \div k) \in Int
          /\ PARAM_N1N2 = k * (PARAM_N1N2 \div k) + (PARAM_N1N2 % k)
        BY <2>1, DivisionIs
    <2> QED
        BY <1>1, <2>2 DEF Copies
<1>4. IsFiniteSet(places)
    <2>1. IsFiniteSet(0 .. PARAM_N1N2 - 1)
        BY <1>2, FS_Interval
    <2> QED
        BY <2>1, FS_Subset
<1> DEFINE f == [j \in 0 .. c - 1 |-> k * j + b]
<1>5. ASSUME NEW j \in 0 .. c - 1 PROVE k * j + b \in places /\ (k * j + b) \div k = j
    <2>1. b \in 0 .. k - 1 /\ j \in Int
        BY <1>1
    <2>2. (k * j + b) \div k = j /\ (k * j + b) % k = b
        BY <2>1, DivisionOf
    <2>3. k * (j + 1) <= k * c
        <3>1. j + 1 \in Int /\ j + 1 <= c
            OBVIOUS
        <3> QED
            BY <3>1, Monotone
    <2>4. k * (j + 1) = k * j + k /\ k * j \in Nat
        BY SMT
    <2>5. k * j + b \in 0 .. PARAM_N1N2 - 1
        BY <1>2, <1>3, <2>1, <2>3, <2>4
    <2> QED
        BY <1>1, <2>2, <2>5
<1> HIDE DEF places
<1>6. f \in Injection(0 .. c - 1, places)
    <2>1. f \in [0 .. c - 1 -> places]
        BY <1>5
    <2>2. ASSUME NEW i \in 0 .. c - 1, NEW j \in 0 .. c - 1, f[i] = f[j] PROVE i = j
        <3>1. k * i + b = k * j + b
            BY <2>2
        <3> QED
            BY <1>5, <3>1
    <2> HIDE DEF f
    <2> QED
        BY <2>1, <2>2 DEF Injection, IsInjective
<1> HIDE DEF f
<1>7. Cardinality(0 .. c - 1) <= Cardinality(places)
    BY <1>4, <1>6, FS_Injection
<1>8. Cardinality(0 .. c - 1) = IF 0 > c - 1 THEN 0 ELSE c
    <2>1. Cardinality(0 .. c - 1) = IF 0 > c - 1 THEN 0 ELSE (c - 1) - 0 + 1
        BY FS_Interval
    <2> QED
        BY <2>1
<1>9. Cardinality(places) \in Nat
    BY <1>4, FS_CardinalityType
<1>10. c <= Cardinality(places)
    BY <1>7, <1>8, <1>9
<1> QED
    BY <1>3, <1>4, <1>10 DEF places

(* The majority decides rightly if no more bits than the radius are wrong.   *)
LEMMA MajorityDecides ==
    ASSUME ParametersFit, NEW m, IsMessage(m), NEW word \in Arrays,
           NEW flips, flips \subseteq 0 .. PARAM_N1N2 - 1,
           Cardinality(flips) <= Radius,
           Bits(word) \cap (0 .. PARAM_N1N2 - 1) = Bits(code_encode(m)) (+) flips
    PROVE  code_decode(word) = m
<1>1. PICK k \in Nat \ {0} : k = MessageBits
    BY MessagesFit
<1>2. PARAM_N1N2 \in Nat
    BY Lengths
<1>3. IsFiniteSet(flips) /\ Cardinality(flips) \in Nat
    <2>1. IsFiniteSet(0 .. PARAM_N1N2 - 1)
        BY <1>2, FS_Interval
    <2> QED
        BY <2>1, FS_Subset, FS_CardinalityType
<1>4. PICK c \in Int : c = Copies
    <2>1. PARAM_N1N2 \in Int
        BY <1>2
    <2> QED
        BY <1>1, <2>1, DivisionIs DEF Copies
<1>5. 2 * Cardinality(flips) < c
    <2>1. Radius = (c - 1) \div 2
        BY <1>4 DEF Radius, Copies
    <2>2. 2 * ((c - 1) \div 2) <= c - 1 /\ (c - 1) \div 2 \in Int
        OBVIOUS
    <2> QED
        BY <1>3, <2>1, <2>2
<1> DEFINE codeword == Bits(code_encode(m))
           got(b) == {p \in Bits(word) : p < PARAM_N1N2 /\ p % k = b}
<1>6. ASSUME NEW b, NEW p
      PROVE  p \in got(b) <=> p \in 0 .. PARAM_N1N2 - 1 /\ p % k = b /\ ~(p \in codeword <=> p \in flips)
    <2>1. Bits(word) \subseteq Nat
        <3>1. PICK n \in Nat : n = VEC_N_SIZE_64 /\ WordFits
            BY Lengths
        <3>2. word \in [0 .. n - 1 -> Word]
            BY <3>1 DEF Arrays
        <3> QED
            BY <3>1, <3>2, ArraysAreBits
    <2>2. p \in got(b) <=> p \in Bits(word) \cap (0 .. PARAM_N1N2 - 1) /\ p % k = b
        <3>1. p \in Bits(word) => (p < PARAM_N1N2 <=> p \in 0 .. PARAM_N1N2 - 1)
            BY <1>2, <2>1
        <3> QED
            BY <3>1
    <2>3. p \in Bits(word) \cap (0 .. PARAM_N1N2 - 1) <=>
              p \in 0 .. PARAM_N1N2 - 1 /\ ~(p \in codeword <=> p \in flips)
        <3>1. codeword \subseteq 0 .. PARAM_N1N2 - 1
            BY EncodedIs
        <3> QED
            BY <3>1 DEF (+)
    <2> QED
        BY <2>2, <2>3
<1>7. ASSUME NEW b \in 0 .. k - 1, NEW p \in 0 .. PARAM_N1N2 - 1, p % k = b
      PROVE  p \in codeword <=> b \in Carried(m)
    BY <1>1, <1>7, EncodedIs
<1> HIDE DEF codeword
<1>8. ASSUME NEW b \in 0 .. k - 1 PROVE 2 * Cardinality(got(b)) > c <=> b \in Carried(m)
    <2> DEFINE places == {p \in 0 .. PARAM_N1N2 - 1 : p % k = b}
    <2>1. IsFiniteSet(places) /\ c <= Cardinality(places) /\ Cardinality(places) \in Nat
        <3>1. IsFiniteSet(places) /\ Copies <= Cardinality(places)
            BY <1>1, ManyCopies
        <3> QED
            BY <1>4, <3>1, FS_CardinalityType
    <2>2. got(b) \subseteq places
        BY <1>6
    <2>3. \A p \in places : p \in 0 .. PARAM_N1N2 - 1 /\ p % k = b
        OBVIOUS
    <2> DEFINE here == got(b)
    <2>4. IsFiniteSet(here) /\ Cardinality(here) \in Nat
        BY <2>1, <2>2, FS_Subset, FS_CardinalityType
    <2>5. \A p : p \in here <=> p \in places /\ ~(p \in codeword <=> p \in flips)
        BY <1>6
    <2> HIDE DEF here, places
    <2>6. CASE b \in Carried(m)
        <3>1. places \subseteq here \cup flips
            BY <1>7, <2>3, <2>5, <2>6
        <3>2. /\ IsFiniteSet(here \cup flips) /\ Cardinality(here \cap flips) \in Nat
              /\ Cardinality(here \cup flips) =
                     Cardinality(here) + Cardinality(flips) - Cardinality(here \cap flips)
            <4>1. IsFiniteSet(here \cap flips)
                BY <1>3, FS_Subset
            <4> QED
                BY <1>3, <2>4, <4>1, FS_Union, FS_CardinalityType
        <3>3. Cardinality(places) <= Cardinality(here \cup flips)
            BY <3>1, <3>2, FS_Subset
        <3>4. 2 * Cardinality(here) > c
            BY <1>3, <1>5, <2>1, <2>4, <3>2, <3>3
        <3> QED
            BY <2>6, <3>4 DEF here
    <2>7. CASE b \notin Carried(m)
        <3>1. here \subseteq flips
            BY <1>7, <2>3, <2>5, <2>7
        <3>2. Cardinality(here) <= Cardinality(flips)
            BY <1>3, <3>1, FS_Subset
        <3>3. ~(2 * Cardinality(here) > c)
            BY <1>3, <1>5, <2>4, <3>2
        <3> QED
            BY <2>7, <3>3 DEF here
    <2> QED
        BY <2>6, <2>7
<1>9. IsString(m, VEC_K_SIZE_BYTES) /\ \A j \in 1..VEC_K_SIZE_BYTES : m[j] \in ByteValues
    BY DEF IsMessage
<1> DEFINE ones == {b \in 0 .. k - 1 : 2 * Cardinality(got(b)) > c}
<1>10. ones = Carried(m)
    <2>1. Carried(m) \subseteq 0 .. k - 1
        BY <1>1, <1>9, CarriedBits
    <2> HIDE DEF got
    <2> QED
        BY <1>8, <2>1
<1>11. code_decode(word) = store8_arr(VEC_K_SIZE_BYTES, ToWords(ones, Words(MessageBits)))
    BY <1>1, <1>4 DEF code_decode, Copies
<1> HIDE DEF ones
<1>12. ToWords(Carried(m), Words(MessageBits)) = load8_arr(Words(MessageBits), m)
    <2>1. PICK n \in Nat \ {0} : n = Words(MessageBits)
        BY MessagesFit
    <2>2. load8_arr(n, m) \in [0 .. n - 1 -> Word]
        BY <1>9, <2>1, CarriedBits
    <2>3. WordFits
        BY Lengths
    <2>4. ToWords(Bits(load8_arr(n, m)), n) = load8_arr(n, m)
        BY <2>2, <2>3, WordsOfBits
    <2> QED
        BY <2>1, <2>4 DEF Carried
<1>13. store8_arr(VEC_K_SIZE_BYTES, load8_arr(Words(MessageBits), m)) = m
    <2>1. VEC_K_SIZE_BYTES \in Nat \ {0}
        BY DEF ParametersFit
    <2> QED
        BY <1>9, <2>1, StoreOfLoad DEF MessageBits
<1> QED
    BY <1>10, <1>11, <1>12, <1>13

-----------------------------------------------------------------------------
(* vect_set_random_fixed_weight as a function of the seed expander          *)

(* How many values a drawn number has                                      *)
Draws == 2^(4 * BYTE)

LEMMA DrawsFit ==
    ASSUME ParametersFit
    PROVE  PARAM_N \in Nat \ {0} /\ Draws \in Nat /\ 2 * PARAM_N <= Draws
<1>1. PARAM_N \in Nat \ {0} /\ 2 * PARAM_N <= Draws
    BY DEF ParametersFit, Draws
<1>2. Draws \in Nat
    <2>1. 4 * BYTE \in 0 .. 4 * BYTE
        BY Powers
    <2> QED
        BY <2>1, Powers DEF Draws
<1> QED
    BY <1>1, <1>2

(* The quotient and the remainder of a natural number by a positive one.     *)
LEMMA QuotientIs ==
    ASSUME NEW a \in Nat, NEW n \in Nat \ {0}
    PROVE  /\ a \div n \in Nat
           /\ n * (a \div n) <= a
           /\ a < n * (a \div n) + n
BY SMT

(* A product is monotone in one of its factors.                             *)
LEMMA ProductMonotone ==
    ASSUME NEW a \in Int, NEW b \in Int, NEW c \in Nat, a <= b
    PROVE  a * c <= b * c
BY SMT

(* A common positive factor may be dropped from a comparison.               *)
LEMMA ProductStrict ==
    ASSUME NEW a \in Int, NEW b \in Int, NEW c \in Nat \ {0}, a * c < b * c
    PROVE  a < b
BY SMT

(* Numbers that need no wrapping, and those that wrap once.                 *)
LEMMA RemainderIs ==
    ASSUME NEW D \in Nat \ {0}, NEW k \in Int
    PROVE  /\ k \in 0 .. D - 1 => k % D = k
           /\ k \in -D .. -1 => k % D = k + D
BY SMT

(* The multiplication with the inverse is wrong by less than twice n.        *)
LEMMA QuotientIsClose ==
    ASSUME NEW n \in Nat \ {0}, NEW D \in Nat, 2 * n <= D, NEW a \in 0 .. D - 1
    PROVE  a - ((a * (D \div n)) \div D) * n \in 0 .. 2 * n - 1
<1> DEFINE m == D \div n
           q == (a * m) \div D
<1>1. m \in Nat /\ n * m <= D /\ D < n * m + n
    BY QuotientIs
<1>2. a * m \in Nat /\ D \in Nat \ {0} /\ a \in Nat
    BY <1>1, SMT
<1>3. q \in Nat /\ D * q <= a * m /\ a * m < D * q + D
    BY <1>2, QuotientIs
<1> HIDE DEF m, q
<1>4. q * n <= a
    <2>1. (D * q) * n <= (a * m) * n
        BY <1>2, <1>3, ProductMonotone
    <2>2. (n * m) * a <= D * a
        BY <1>1, <1>2, ProductMonotone
    <2>3. (a * m) * n = (n * m) * a /\ (D * q) * n = (q * n) * D
        BY <1>1, <1>2, <1>3, SMT
    <2>4. (q * n) * D <= a * D
        BY <2>1, <2>2, <2>3, <1>1, <1>2, <1>3, SMT
    <2> QED
        BY <2>4, <1>2, <1>3, SMT
<1>5. a < q * n + 2 * n
    <2>1. (a * m + 1) * n <= (D * q + D) * n
        BY <1>1, <1>2, <1>3, ProductMonotone
    <2>2. D * a <= (n * m + n) * a
        BY <1>1, <1>2, ProductMonotone
    <2>3. (a * m + 1) * n = (a * m) * n + n /\ (n * m + n) * a = (a * m) * n + n * a
        BY <1>1, <1>2, SMT
    <2>4. (D * q + D) * n = (q * n + n) * D
        BY <1>2, <1>3, SMT
    <2>5. a * n <= D * n
        BY <1>2, ProductMonotone
    <2>6. a * D < (q * n + n) * D + n * D
        <3>1. (a * m) * n \in Nat /\ n * a = a * n /\ D * n = n * D /\ D * a = a * D
            BY <1>1, <1>2, SMT
        <3>2. (q * n + n) * D \in Nat /\ a * n \in Nat /\ D * n \in Nat /\ D * a \in Nat
            BY <1>2, <1>3, SMT
        <3> QED
            BY <2>1, <2>2, <2>3, <2>4, <2>5, <3>1, <3>2
    <2>7. (q * n + n) * D + n * D = (q * n + 2 * n) * D
        BY <1>2, <1>3, SMT
    <2> QED
        BY <2>6, <2>7, <1>2, <1>3, ProductStrict
<1> QED
    BY <1>2, <1>3, <1>4, <1>5 DEF m, q

(* reduce of vector.c gives a position below PARAM_N - i for any number     *)
(* drawn, so that i plus it is a position of the vector and not below i.    *)
LEMMA ReduceInRange ==
    ASSUME ParametersFit, NEW i \in 0 .. PARAM_N - 1, NEW a \in 0 .. Draws - 1
    PROVE  FW!reduce(a, i) \in 0 .. PARAM_N - i - 1
<1> DEFINE n == PARAM_N - i
           r == a - ((a * (Draws \div n)) \div Draws) * n
<1>1. n \in Nat \ {0} /\ Draws \in Nat \ {0} /\ 2 * n <= Draws
    BY DrawsFit
<1>2. r \in 0 .. 2 * n - 1
    BY <1>1, QuotientIsClose
<1>3. FW!reduce(a, i) = FW!cond_sub(r, n)
    BY DEF FW!reduce, FW!m_val, Draws
<1> HIDE DEF n, r
<1>4. /\ Draws \div 2 \in Nat
      /\ 2 * (Draws \div 2) <= Draws
      /\ Draws < 2 * (Draws \div 2) + 2
    BY <1>1, QuotientIs
<1>5. CASE r < n
    <2>1. r - n \in -Draws .. -1
        BY <1>1, <1>2, <1>5
    <2>2. (r - n) % Draws = r - n + Draws
        BY <1>1, <2>1, RemainderIs
    <2>3. r - n + Draws >= Draws \div 2
        BY <1>1, <1>2, <1>4
    <2>4. FW!cond_sub(r, n) = (r + Draws) % Draws
        <3>1. r - n + Draws + n = r + Draws
            BY <1>1, <1>2
        <3> QED
            BY <2>2, <2>3, <3>1 DEF FW!cond_sub, Draws
    <2>5. (r + Draws) % Draws = r
        BY <1>1, <1>2, <1>5, SMT
    <2> QED
        BY <1>1, <1>2, <1>3, <1>5, <2>4, <2>5 DEF n
<1>6. CASE r >= n
    <2>1. r - n \in 0 .. Draws - 1
        BY <1>1, <1>2, <1>6
    <2>2. (r - n) % Draws = r - n
        BY <1>1, <2>1, RemainderIs
    <2>3. r - n < Draws \div 2
        BY <1>1, <1>2, <1>4
    <2>4. FW!cond_sub(r, n) = r - n
        <3>1. ~(r - n >= Draws \div 2)
            BY <1>1, <1>2, <1>4, <2>3
        <3> QED
            BY <2>2, <3>1 DEF FW!cond_sub, Draws
    <2> QED
        BY <1>1, <1>2, <1>3, <1>6, <2>4 DEF n
<1> QED
    BY <1>1, <1>2, <1>5, <1>6


LEMMA NumbersInRange ==
    ASSUME ParametersFit, ShakeGivesBytes, NEW ctx, NEW w \in Nat, NEW i \in 0 .. w - 1
    PROVE  Numbers(seedexpander(ctx, 4 * w))[i] \in 0 .. Draws - 1
<1> DEFINE bytes == seedexpander(ctx, 4 * w)
           byte(k) == bytes[4*i + k + 1] * 2^(BYTE * k)
<1>1. BYTE \in Nat \ {0}
    BY Powers
<1>2. Len(bytes) = 4 * w
    <2>1. 4 * w \in Nat
        OBVIOUS
    <2> QED
        BY <2>1, ExpansionsAreStrings, StringsAreSeq
<1>3. Len(bytes) \div 4 = w
    BY <1>2
<1>4. PICK P \in Nat \ {0} : P = 2^BYTE
    BY <1>1, Powers
<1>5. 2^(BYTE * 0) = 1 /\ 2^(BYTE * 1) = P /\ 2^(BYTE * 2) = P * P
      /\ 2^(BYTE * 3) = P * (P * P) /\ Draws = P * (P * (P * P))
    <2>1. BYTE * 0 = 0 /\ BYTE * 1 = BYTE /\ BYTE * 2 = BYTE + BYTE /\ BYTE * 3 = BYTE + BYTE * 2
          /\ 4 * BYTE = BYTE + BYTE * 3
        BY <1>1
    <2>2. BYTE \in 0 .. 4 * BYTE /\ BYTE \in 0 .. 4 * BYTE - BYTE /\ BYTE * 2 \in 0 .. 4 * BYTE - BYTE
          /\ BYTE * 3 \in 0 .. 4 * BYTE - BYTE
        BY <1>1
    <2>3. 2^(BYTE + BYTE) = 2^BYTE * 2^BYTE
        BY <2>2, PowersMultiply
    <2>4. 2^(BYTE + BYTE * 2) = 2^BYTE * 2^(BYTE * 2)
        BY <2>2, PowersMultiply
    <2>5. 2^(BYTE + BYTE * 3) = 2^BYTE * 2^(BYTE * 3)
        BY <2>2, PowersMultiply
    <2>6. 2^0 = 1
        BY Powers
    <2> QED
        BY <1>4, <2>1, <2>3, <2>4, <2>5, <2>6 DEF Draws
<1>6. ASSUME NEW k \in 0..3 PROVE bytes[4*i + k + 1] \in 0 .. P - 1
    <2>1. 4*i + k + 1 \in 1 .. 4*w
        OBVIOUS
    <2> QED
        BY <1>4, <2>1 DEF ShakeGivesBytes, ByteValues, seedexpander
<1>7. Numbers(bytes)[i] = byte(0) + byte(1) + byte(2) + byte(3)
    <2> HIDE DEF bytes
    <2> QED
        BY <1>3 DEF Numbers
<1> HIDE DEF bytes
<1>8. PICK b0 \in 0 .. P - 1 : b0 = bytes[4*i + 0 + 1]
    BY <1>6
<1>9. PICK b1 \in 0 .. P - 1 : b1 = bytes[4*i + 1 + 1]
    BY <1>6
<1>10. PICK b2 \in 0 .. P - 1 : b2 = bytes[4*i + 2 + 1]
    BY <1>6
<1>11. PICK b3 \in 0 .. P - 1 : b3 = bytes[4*i + 3 + 1]
    BY <1>6
<1>12. Numbers(bytes)[i] = b0 + b1 * P + b2 * (P * P) + b3 * (P * (P * P))
    BY <1>5, <1>7, <1>8, <1>9, <1>10, <1>11
<1>13. PICK Q \in Nat : Q = P * P
    BY SMT
<1>14. PICK R \in Nat : R = P * Q
    BY SMT
<1>15. PICK x1 \in Nat : x1 = b1 * P /\ x1 <= Q - P
    <2>1. b1 * P <= (P - 1) * P /\ (P - 1) * P = Q - P /\ b1 * P \in Nat
        BY <1>13, SMT
    <2> QED
        BY <2>1
<1>16. PICK x2 \in Nat : x2 = b2 * Q /\ x2 <= R - Q
    <2>1. b2 * Q <= (P - 1) * Q /\ (P - 1) * Q = P * Q - Q /\ b2 * Q \in Nat
        BY SMT
    <2> QED
        BY <1>14, <2>1
<1>17. PICK x3 \in Nat : x3 = b3 * R /\ x3 <= P * R - R
    <2>1. b3 * R <= (P - 1) * R /\ (P - 1) * R = P * R - R /\ b3 * R \in Nat
        BY SMT
    <2> QED
        BY <2>1
<1>18. PICK D \in Int : D = Draws /\ D = P * R
    <2>1. P * R \in Int
        BY SMT
    <2> QED
        BY <1>5, <1>13, <1>14, <2>1
<1>19. Numbers(bytes)[i] = b0 + x1 + x2 + x3
    BY <1>12, <1>13, <1>14, <1>15, <1>16, <1>17
<1>20. b0 + x1 + x2 + x3 \in 0 .. D - 1
    BY <1>15, <1>16, <1>17, <1>18
<1> QED
    BY <1>18, <1>19, <1>20 DEF bytes

(* The positions drawn                                                     *)
DrawnAt(ctx, w) ==
    LET a == Numbers(seedexpander(ctx, 4 * w)) IN [i \in 0 .. w - 1 |-> i + FW!reduce(a[i], i)]

LEMMA DrawnInRange ==
    ASSUME ParametersFit, ShakeGivesBytes, NEW ctx, NEW w \in 1..PARAM_N
    PROVE  DrawnAt(ctx, w) \in [0 .. w - 1 -> 0 .. PARAM_N - 1]
<1> DEFINE a == Numbers(seedexpander(ctx, 4 * w))
<1>1. PARAM_N \in Nat \ {0}
    BY DrawsFit
<1>2. ASSUME NEW i \in 0 .. w - 1 PROVE i + FW!reduce(a[i], i) \in 0 .. PARAM_N - 1
    <2>1. a[i] \in 0 .. Draws - 1
        BY NumbersInRange
    <2> HIDE DEF a
    <2>2. i \in 0 .. PARAM_N - 1
        BY <1>1
    <2>3. FW!reduce(a[i], i) \in 0 .. PARAM_N - i - 1
        BY <2>1, <2>2, ReduceInRange
    <2> QED
        BY <1>1, <2>2, <2>3
<1> HIDE DEF a
<1> QED
    BY <1>2 DEF DrawnAt, a

(* From index k on, f has the positions drawn, without those that a later   *)
(* index has; before, all that were drawn.                                  *)
IsSettled(f, d, w, k) ==
    f = [i \in 0 .. w - 1 |-> IF k <= i /\ \E j \in i + 1 .. w - 1 : f[j] = d[i] THEN i ELSE d[i]]

LEMMA SettledAt ==
    ASSUME NEW f, NEW d, NEW w, NEW k, IsSettled(f, d, w, k), NEW i \in 0 .. w - 1
    PROVE  f[i] = IF k <= i /\ \E j \in i + 1 .. w - 1 : f[j] = d[i] THEN i ELSE d[i]
<1>1. PICK g : g = [n \in 0 .. w - 1 |-> IF k <= n /\ \E j \in n + 1 .. w - 1 : f[j] = d[n] THEN n ELSE d[n]]
    OBVIOUS
<1>2. g[i] = IF k <= i /\ \E j \in i + 1 .. w - 1 : f[j] = d[i] THEN i ELSE d[i]
    BY <1>1
<1>3. f = g
    BY <1>1 DEF IsSettled
<1> QED
    BY <1>2, <1>3

LEMMA SettledOnce ==
    ASSUME NEW w \in Nat, NEW d, NEW f, NEW g, IsSettled(f, d, w, 0), IsSettled(g, d, w, 0)
    PROVE  f = g
<1> DEFINE T == {n \in Nat : \E i \in 0 .. w - 1 : n = w - 1 - i /\ f[i] # g[i]}
<1>1. ASSUME T # {} PROVE FALSE
    <2>1. T \subseteq Nat
        OBVIOUS
    <2>2. PICK n \in T : \A m \in T : n <= m
        BY <1>1, <2>1, Least
    <2>3. PICK i \in 0 .. w - 1 : n = w - 1 - i /\ f[i] # g[i]
        OBVIOUS
    <2>4. \A j \in i + 1 .. w - 1 : f[j] = g[j]
        <3> SUFFICES ASSUME NEW j \in i + 1 .. w - 1, f[j] # g[j] PROVE FALSE
            OBVIOUS
        <3>1. w - 1 - j \in T
            OBVIOUS
        <3> HIDE DEF T
        <3> QED
            BY <2>2, <2>3, <3>1
    <2>5. f[i] = IF 0 <= i /\ \E j \in i + 1 .. w - 1 : f[j] = d[i] THEN i ELSE d[i]
        BY SettledAt
    <2>6. g[i] = IF 0 <= i /\ \E j \in i + 1 .. w - 1 : g[j] = d[i] THEN i ELSE d[i]
        BY SettledAt
    <2> QED
        BY <2>3, <2>4, <2>5, <2>6
<1>2. \A i \in 0 .. w - 1 : f[i] = g[i]
    <2> SUFFICES ASSUME NEW i \in 0 .. w - 1, f[i] # g[i] PROVE FALSE
        OBVIOUS
    <2>1. w - 1 - i \in T
        OBVIOUS
    <2> QED
        BY <1>1, <2>1
<1>3. f = [i \in 0 .. w - 1 |-> f[i]] /\ g = [i \in 0 .. w - 1 |-> g[i]]
    BY Zenon DEF IsSettled
<1> QED
    BY <1>2, <1>3

(* One step of the settling: index k - 1.                                   *)
LEMMA SettleOne ==
    ASSUME NEW w \in Nat, NEW k \in 1 .. w - 1, NEW d, NEW f, IsSettled(f, d, w, k),
           NEW g, g = [f EXCEPT ![k - 1] = IF \E j \in k .. w - 1 : f[j] = f[k - 1] THEN k - 1 ELSE @]
    PROVE  IsSettled(g, d, w, k - 1)
<1>1. f = [i \in 0 .. w - 1 |-> f[i]]
    BY Zenon DEF IsSettled
<1>2. k - 1 \in 0 .. w - 1 /\ (k - 1) + 1 = k
    OBVIOUS
<1>3. f[k - 1] = d[k - 1]
    <2>1. f[k - 1] = IF k <= k - 1 /\ \E j \in (k - 1) + 1 .. w - 1 : f[j] = d[k - 1] THEN k - 1 ELSE d[k - 1]
        BY <1>2, SettledAt
    <2>2. ~(k <= k - 1)
        OBVIOUS
    <2> QED
        BY <2>1, <2>2
<1>4. g = [i \in 0 .. w - 1 |-> g[i]]
    BY <1>1
<1>5. \A i \in 0 .. w - 1 : i # k - 1 => g[i] = f[i]
    BY <1>1
<1>6. g[k - 1] = IF \E j \in k .. w - 1 : f[j] = d[k - 1] THEN k - 1 ELSE d[k - 1]
    BY <1>1, <1>2, <1>3
<1>7. ASSUME NEW i \in 0 .. w - 1
      PROVE  g[i] = IF k - 1 <= i /\ \E j \in i + 1 .. w - 1 : g[j] = d[i] THEN i ELSE d[i]
    <2>1. CASE i = k - 1
        <3>1. \A j \in k .. w - 1 : g[j] = f[j]
            <4>1. \A j \in k .. w - 1 : j \in 0 .. w - 1 /\ j # k - 1
                OBVIOUS
            <4> QED
                BY <1>5, <4>1
        <3> QED
            BY <1>2, <1>6, <2>1, <3>1
    <2>2. CASE i > k - 1
        <3>1. \A j \in i + 1 .. w - 1 : j \in 0 .. w - 1 /\ j # k - 1
            BY <2>2
        <3>2. \A j \in i + 1 .. w - 1 : g[j] = f[j]
            BY <1>5, <3>1
        <3>3. f[i] = IF k <= i /\ \E j \in i + 1 .. w - 1 : f[j] = d[i] THEN i ELSE d[i]
            BY SettledAt
        <3>4. k <= i /\ k - 1 <= i /\ i # k - 1
            BY <2>2
        <3>5. g[i] = f[i]
            BY <1>5, <3>4
        <3> QED
            BY <3>2, <3>3, <3>4, <3>5
    <2>3. CASE i < k - 1
        <3>1. ~(k <= i) /\ ~(k - 1 <= i) /\ i # k - 1
            BY <2>3
        <3>2. f[i] = d[i]
            BY <3>1, SettledAt
        <3>3. g[i] = f[i]
            BY <1>5, <3>1
        <3> QED
            BY <3>1, <3>2, <3>3
    <2> QED
        BY <2>1, <2>2, <2>3
<1> DEFINE h == [i \in 0 .. w - 1 |-> IF k - 1 <= i /\ \E j \in i + 1 .. w - 1 : g[j] = d[i] THEN i ELSE d[i]]
<1>8. h = [i \in 0 .. w - 1 |-> h[i]]
    OBVIOUS
<1>9. \A i \in 0 .. w - 1 : g[i] = h[i]
    BY <1>7
<1>10. g = h
    <2> HIDE DEF h
    <2> QED
        BY <1>4, <1>8, <1>9
<1> QED
    BY <1>10 DEF IsSettled

(* Before the first step everything is as drawn.                           *)
LEMMA SettleNone ==
    ASSUME NEW w \in Nat \ {0}, NEW d, d = [i \in 0 .. w - 1 |-> d[i]]
    PROVE  IsSettled(d, d, w, w - 1)
<1>1. ASSUME NEW i \in 0 .. w - 1
      PROVE  d[i] = IF w - 1 <= i /\ \E j \in i + 1 .. w - 1 : d[j] = d[i] THEN i ELSE d[i]
    <2>1. w - 1 <= i => ~\E j \in i + 1 .. w - 1 : d[j] = d[i]
        OBVIOUS
    <2> QED
        BY <2>1
<1> DEFINE h == [i \in 0 .. w - 1 |-> IF w - 1 <= i /\ \E j \in i + 1 .. w - 1 : d[j] = d[i] THEN i ELSE d[i]]
<1>2. h = [i \in 0 .. w - 1 |-> h[i]]
    OBVIOUS
<1>3. \A i \in 0 .. w - 1 : d[i] = h[i]
    BY <1>1
<1>4. d = h
    <2> HIDE DEF h
    <2> QED
        BY <1>2, <1>3
<1> QED
    BY <1>4 DEF IsSettled

(* Down from the last index the settling comes to an end.                  *)
LEMMA SettlingEnds ==
    ASSUME NEW w \in Nat \ {0}, NEW d, d = [i \in 0 .. w - 1 |-> d[i]]
    PROVE  \E f : IsSettled(f, d, w, 0)
<1> DEFINE T == {n \in Nat : \E settled : IsSettled(settled, d, w, w - 1 - n)}
<1>1. 0 \in T
    <2>1. w - 1 - 0 = w - 1
        OBVIOUS
    <2> QED
        BY <2>1, SettleNone
<1>2. ASSUME NEW n \in 0 .. (w - 1) - 1, n \in T PROVE n + 1 \in T
    <2>1. PICK k \in 1 .. w - 1 : k = w - 1 - n
        OBVIOUS
    <2>2. PICK f : IsSettled(f, d, w, k)
        BY <1>2, <2>1
    <2>3. PICK g : g = [f EXCEPT ![k - 1] = IF \E j \in k .. w - 1 : f[j] = f[k - 1] THEN k - 1 ELSE @]
        OBVIOUS
    <2>4. IsSettled(g, d, w, k - 1)
        BY <2>2, <2>3, SettleOne
    <2>5. k - 1 = w - 1 - (n + 1)
        BY <2>1
    <2>6. \E settled : IsSettled(settled, d, w, w - 1 - (n + 1))
        BY <2>4, <2>5
    <2>7. n + 1 \in Nat
        OBVIOUS
    <2> QED
        BY <2>6, <2>7
<1> HIDE DEF T
<1>3. \A n \in 0 .. w - 1 : n \in T
    BY <1>1, <1>2, Climb
<1>4. w - 1 \in T /\ w - 1 - (w - 1) = 0
    BY <1>3
<1> QED
    BY <1>4 DEF T

LEMMA SettledInRange ==
    ASSUME NEW w \in Nat, NEW n \in Nat, w <= n, NEW d \in [0 .. w - 1 -> 0 .. n - 1], NEW f, NEW k,
           IsSettled(f, d, w, k)
    PROVE  f \in [0 .. w - 1 -> 0 .. n - 1]
<1>1. ASSUME NEW i \in 0 .. w - 1 PROVE f[i] \in 0 .. n - 1
    <2>1. d[i] \in 0 .. n - 1 /\ i \in 0 .. n - 1
        OBVIOUS
    <2>2. f[i] = i \/ f[i] = d[i]
        BY SettledAt
    <2> QED
        BY <2>1, <2>2
<1>2. f = [i \in 0 .. w - 1 |-> f[i]]
    BY Zenon DEF IsSettled
<1> QED
    BY <1>1, <1>2

(* What is sampled from a seed expander, and the seed expander after it     *)
Vector(ctx, name) ==
    LET w == WeightOf(name)
        f == CHOOSE g : IsSettled(g, DrawnAt(ctx, w), w, 0)
    IN  ToWords({f[i] : i \in 0 .. w - 1}, VEC_N_SIZE_64)

Rest(ctx, name) == after(ctx, 4 * WeightOf(name))

SampledNames == {"x", "y", "r1", "r2", "e"}

LEMMA WeightsFit ==
    ASSUME ParametersFit, NEW name \in SampledNames
    PROVE  WeightOf(name) \in 1..PARAM_N
<1>1. PARAM_OMEGA \in 1..PARAM_N /\ PARAM_OMEGA_R \in 1..PARAM_N /\ PARAM_OMEGA_E \in 1..PARAM_N
    BY DEF ParametersFit
<1>2. WeightOf("x") = PARAM_OMEGA /\ WeightOf("y") = PARAM_OMEGA /\ WeightOf("e") = PARAM_OMEGA_E
    BY DEF WeightOf
<1>3. WeightOf("r1") = PARAM_OMEGA_R /\ WeightOf("r2") = PARAM_OMEGA_R
    BY DEF WeightOf
<1> QED
    BY <1>1, <1>2, <1>3 DEF SampledNames

(* The outcome of the settling is the vector, whose bits are in range.      *)
LEMMA VectorIs ==
    ASSUME ParametersFit, ShakeGivesBytes, NEW name \in SampledNames, NEW ctx
    PROVE  /\ Vector(ctx, name) \in VectorArrays
           /\ \A f : IsSettled(f, DrawnAt(ctx, WeightOf(name)), WeightOf(name), 0) =>
                  ToWords({f[i] : i \in 0 .. WeightOf(name) - 1}, VEC_N_SIZE_64) = Vector(ctx, name)
<1>1. PICK n \in Nat \ {0}, z \in Nat : n = PARAM_N /\ z = VEC_N_SIZE_64 /\ n <= WORD * z /\ WordFits
                                        /\ WORD * z \in Int
    <2>1. WORD * VEC_N_SIZE_64 \in Int
        BY Lengths, SMT DEF WordFits
    <2> QED
        BY <2>1, Lengths
<1>2. PICK w \in 1..n : w = WeightOf(name)
    BY <1>1, WeightsFit
<1>3. PICK d : d = DrawnAt(ctx, w) /\ d \in [0 .. w - 1 -> 0 .. n - 1]
    BY <1>1, <1>2, DrawnInRange
<1>4. PICK g : g = CHOOSE f : IsSettled(f, d, w, 0)
    OBVIOUS
<1>5. IsSettled(g, d, w, 0)
    <2>1. d = [i \in 0 .. w - 1 |-> d[i]]
        BY <1>3
    <2>3. w \in Nat \ {0}
        OBVIOUS
    <2>2. \E f : IsSettled(f, d, w, 0)
        BY <2>1, <2>3, SettlingEnds, Zenon
    <2> QED
        BY <1>4, <2>2
<1>6. Vector(ctx, name) = ToWords({g[i] : i \in 0 .. w - 1}, z)
    BY <1>1, <1>2, <1>3, <1>4 DEF Vector
<1>7. \A f : IsSettled(f, d, w, 0) => f = g
    BY <1>5, SettledOnce
<1>8. Vector(ctx, name) \in VectorArrays
    <2>1. g \in [0 .. w - 1 -> 0 .. n - 1]
        BY <1>3, <1>5, SettledInRange
    <2>2. PICK S : S = {g[i] : i \in 0 .. w - 1}
        OBVIOUS
    <2>3. S \subseteq 0 .. n - 1
        BY <2>1, <2>2
    <2>4. S \subseteq 0 .. WORD * z - 1
        BY <1>1, <2>3
    <2>5. ToWords(S, z) \in [0 .. z - 1 -> Word] /\ Bits(ToWords(S, z)) = S
        BY <1>1, <2>4, BitsOfToWords
    <2> QED
        BY <1>1, <1>6, <2>2, <2>3, <2>5 DEF VectorArrays, Arrays, Vectors
<1> QED
    BY <1>1, <1>2, <1>3, <1>6, <1>7, <1>8

-----------------------------------------------------------------------------
(* Strings cut and joined                                                  *)

LEMMA CutIs ==
    ASSUME NEW s, NEW first \in Nat, NEW size \in Nat, NEW t, IsString(t, size),
           \A k \in 1..size : s[first + k] = t[k]
    PROVE  From(s, first, size) = t
<1> DEFINE S == {s[k] : k \in first + 1 .. first + size}
<1>1. \A k \in first + 1 .. first + size : s[k] \in S
    OBVIOUS
<1> HIDE DEF S
<1>2. PICK m \in Int, n \in Int : m = first + 1 /\ n = first + size
    OBVIOUS
<1>3. \A k \in 1 .. n - m + 1 : SubSeq(s, m, n)[k] = s[m + k - 1]
    BY <1>1, <1>2, SubSeqProperties
<1>4. ASSUME NEW k \in 1..size PROVE From(s, first, size)[k] = t[k]
    <2>1. k \in 1 .. n - m + 1 /\ m + k - 1 = first + k
        BY <1>2
    <2> QED
        BY <1>2, <1>3, <2>1 DEF From
<1>5. From(s, first, size) = [k \in 1..size |-> From(s, first, size)[k]]
    BY Cut DEF IsString
<1>6. t = [k \in 1..size |-> t[k]]
    BY DEF IsString
<1> QED
    BY <1>4, <1>5, <1>6

LEMMA CutFirst ==
    ASSUME NEW s, NEW size \in Nat, NEW t, IsString(t, size), \A k \in 1..size : s[k] = t[k]
    PROVE  From(s, 0, size) = t
<1>1. \A k \in 1..size : s[0 + k] = t[k]
    <2>1. \A k \in 1..size : 0 + k = k
        OBVIOUS
    <2> QED
        BY <2>1
<1> QED
    BY <1>1, CutIs

(* The bytes at the beginning of a string                                  *)
LEMMA FromAt ==
    ASSUME NEW s, NEW size \in Nat, NEW t, From(s, 0, size) = t
    PROVE  \A k \in 1..size : s[k] = t[k]
<1> DEFINE S == {s[k] : k \in 1..size}
<1>1. \A k \in 1..size : s[k] \in S
    OBVIOUS
<1> HIDE DEF S
<1>2. PICK m \in Int, n \in Int : m = 1 /\ n = size
    OBVIOUS
<1>3. \A k \in 1 .. n - m + 1 : SubSeq(s, m, n)[k] = s[m + k - 1]
    BY <1>1, <1>2, SubSeqProperties
<1>4. t = SubSeq(s, m, n)
    BY <1>2 DEF From
<1>5. ASSUME NEW k \in 1..size PROVE s[k] = t[k]
    <2>1. k \in 1 .. n - m + 1 /\ m + k - 1 = k
        BY <1>2
    <2> QED
        BY <1>3, <1>4, <2>1
<1> QED
    BY <1>5

IsJoined(x, s, t) == x = s \o t

LEMMA JoinedAt ==
    ASSUME NEW s, NEW t, NEW m \in Nat, NEW n \in Nat, IsString(s, m), IsString(t, n),
           NEW x, IsJoined(x, s, t)
    PROVE  /\ \A k \in 1..m : x[k] = s[k]
           /\ \A k \in 1..n : x[m + k] = t[k]
           /\ IsString(x, m + n)
<1> DEFINE S == {s[k] : k \in 1..m} \cup {t[k] : k \in 1..n}
<1>1. s \in Seq(S) /\ t \in Seq(S) /\ Len(s) = m /\ Len(t) = n
    <2>1. s \in [1..m -> S] /\ t \in [1..n -> S]
        BY Zenon DEF IsString
    <2> HIDE DEF S
    <2> QED
        BY <2>1, StringsAreSeq
<1> HIDE DEF S
<1>2. (\A k \in 1..m : (s \o t)[k] = s[k]) /\ (\A k \in 1..n : (s \o t)[m + k] = t[k])
    BY <1>1
<1> QED
    BY <1>2, Joined DEF IsJoined

LEMMA CutsOfTwo ==
    ASSUME NEW s, NEW t, NEW m \in Nat, NEW n \in Nat, IsString(s, m), IsString(t, n)
    PROVE  /\ IsString(s \o t, m + n)
           /\ From(s \o t, 0, m) = s /\ From(s \o t, m, n) = t
<1>1. PICK x : IsJoined(x, s, t)
    BY DEF IsJoined
<1>3. IsString(x, m + n) /\ (\A k \in 1..m : x[k] = s[k]) /\ (\A k \in 1..n : x[m + k] = t[k])
    BY <1>1, JoinedAt
<1>4. From(x, 0, m) = s
    BY <1>3, CutFirst
<1>5. From(x, m, n) = t
    BY <1>3, CutIs
<1> QED
    BY <1>1, <1>3, <1>4, <1>5 DEF IsJoined

LEMMA CutsOfThree ==
    ASSUME NEW a, NEW b, NEW c, NEW m \in Nat, NEW n \in Nat, NEW p \in Nat,
           IsString(a, m), IsString(b, n), IsString(c, p)
    PROVE  /\ IsString(a \o b \o c, m + n + p)
           /\ From(a \o b \o c, 0, m) = a /\ From(a \o b \o c, m, n) = b
           /\ From(a \o b \o c, m + n, p) = c
<1>1. PICK d : IsJoined(d, a, b)
    BY DEF IsJoined
<1>2. PICK s : IsJoined(s, d, c)
    BY DEF IsJoined
<1>3. PICK l \in Nat : l = m + n
    OBVIOUS
<1>4. IsString(d, l) /\ (\A k \in 1..m : d[k] = a[k]) /\ (\A k \in 1..n : d[m + k] = b[k])
    BY <1>1, <1>3, JoinedAt
<1>5. IsString(s, l + p) /\ From(s, l, p) = c
    BY <1>2, <1>4, CutsOfTwo DEF IsJoined
<1>6. \A k \in 1..l : s[k] = d[k]
    BY <1>2, <1>4, JoinedAt
<1>7. \A k \in 1..m : s[k] = a[k]
    <2>1. \A k \in 1..m : k \in 1..l
        BY <1>3
    <2> QED
        BY <1>4, <1>6, <2>1
<1>8. \A k \in 1..n : s[m + k] = b[k]
    <2>1. \A k \in 1..n : m + k \in 1..l
        BY <1>3
    <2> QED
        BY <1>4, <1>6, <2>1
<1>9. From(s, 0, m) = a
    BY <1>7, CutFirst
<1>10. From(s, m, n) = b
    BY <1>8, CutIs
<1> QED
    BY <1>1, <1>2, <1>3, <1>5, <1>9, <1>10 DEF IsJoined

(* A string in a buffer that is long enough is found there again.          *)
LEMMA IntoIs ==
    ASSUME NEW length \in Nat, NEW buffer, DOMAIN buffer = 1..length, NEW n \in Nat, n <= length,
           NEW s, IsString(s, n)
    PROVE  /\ DOMAIN Into(buffer, s) = 1..length
           /\ From(Into(buffer, s), 0, n) = s
           /\ n = length => Into(buffer, s) = s
<1>1. Len(s) = n
    BY StringsAreSeq
<1>2. PICK b : b = Into(buffer, s)
    OBVIOUS
<1>3. b = [k \in 1..length |-> IF k <= n THEN s[k] ELSE buffer[k]]
    BY <1>1, <1>2 DEF Into
<1>4. \A k \in 1..n : b[k] = s[k]
    BY <1>3
<1>5. From(b, 0, n) = s
    BY <1>4, CutFirst
<1>6. n = length => b = s
    <2> SUFFICES ASSUME n = length PROVE b = s
        OBVIOUS
    <2>1. s = [k \in 1..length |-> s[k]] /\ b = [k \in 1..length |-> b[k]]
        BY <1>3 DEF IsString
    <2> QED
        BY <1>4, <2>1
<1>7. DOMAIN b = 1..length
    BY <1>3
<1> QED
    BY <1>2, <1>5, <1>6, <1>7

(***************************************************************************)
(* What a session computes, as functions of the generator p it begins with *)
(* and of the damage d done to the ciphertext                              *)
(***************************************************************************)

(* hqc_pke_keygen                                                          *)
SkSeed(p) == seedexpander(p, SEED_BYTES)
SigmaOf(p) == seedexpander(after(p, SEED_BYTES), VEC_K_SIZE_BYTES)
PkSeed(p) == seedexpander(after(after(p, SEED_BYTES), VEC_K_SIZE_BYTES), SEED_BYTES)
AfterKeygen(p) == after(after(after(p, SEED_BYTES), VEC_K_SIZE_BYTES), SEED_BYTES)

KeyContext(p) == seedexpander_init(SkSeed(p))
XOf(ctx) == Vector(ctx, "x")
YOf(ctx) == Vector(Rest(ctx, "x"), "y")
HOf(p) == vect_set_random(seedexpander_init(PkSeed(p)))
SOf(p) == vect_add(XOf(KeyContext(p)), vect_mul(YOf(KeyContext(p)), HOf(p)), VEC_N_SIZE_64)

PublicOf(p) == public_key_to_string(PkSeed(p), SOf(p))
SecretOf(p) == secret_key_to_string(SkSeed(p), SigmaOf(p), PublicOf(p))

(* hqc_pke_encrypt                                                         *)
NoiseContext(theta) == seedexpander_init(From(theta, 0, SEED_BYTES))
R1Of(ctx) == Vector(ctx, "r1")
R2Of(ctx) == Vector(Rest(ctx, "r1"), "r2")
EOf(ctx) == Vector(Rest(Rest(ctx, "r1"), "r2"), "e")

EncryptedU(theta, h) ==
    LET ctx == NoiseContext(theta) IN vect_add(R1Of(ctx), vect_mul(R2Of(ctx), h), VEC_N_SIZE_64)

EncryptedV(m, theta, s) ==
    LET ctx == NoiseContext(theta)
    IN  Shortened(code_encode(m),
                  vect_add(vect_add(EOf(ctx), vect_mul(R2Of(ctx), s), VEC_N_SIZE_64),
                           Extended(code_encode(m)), VEC_N_SIZE_64))

(* crypto_kem_enc                                                          *)
MessageOf(p) == seedexpander(AfterKeygen(p), VEC_K_SIZE_BYTES)
SaltOf(p) == seedexpander(after(AfterKeygen(p), VEC_K_SIZE_BYTES), SALT_SIZE_BYTES)
ThetaOf(p) == Theta(MessageOf(p), PublicOf(p), SaltOf(p))
UOf(p) == EncryptedU(ThetaOf(p), public_key_from_string(PublicOf(p)).h)
VOf(p) == EncryptedV(MessageOf(p), ThetaOf(p), public_key_from_string(PublicOf(p)).s)
SentOf(p) == ciphertext_to_string(UOf(p), VOf(p), SaltOf(p))
KeyEncOf(p) == SharedSecret(MessageOf(p), UOf(p), VOf(p))

(* The ciphertext when crypto_kem_dec reads it                             *)
Flipped(old, bit) == IF (old \div 2^bit) % 2 = 1 THEN old - 2^bit ELSE old + 2^bit

ReceivedOf(p, d) ==
    IF d = None THEN SentOf(p)
    ELSE [k \in 1..CIPHERTEXT_BYTES |->
             IF k = d[1] + 1 THEN Flipped(SentOf(p)[k], d[2]) ELSE SentOf(p)[k]]

(* crypto_kem_dec                                                          *)
Cipher(p, d) == ciphertext_from_string(ReceivedOf(p, d))
Opened(p) == secret_key_from_string(SecretOf(p))

WordOf(p, d) ==
    vect_add(Extended(Cipher(p, d).v), vect_mul(YOf(Opened(p).ctx), Cipher(p, d).u), VEC_N_SIZE_64)

DecodedOf(p, d) == code_decode(WordOf(p, d))
ThetaAgain(p, d) == Theta(DecodedOf(p, d), Opened(p).pk, Cipher(p, d).salt)
UAgain(p, d) == EncryptedU(ThetaAgain(p, d), public_key_from_string(Opened(p).pk).h)
VAgain(p, d) == EncryptedV(DecodedOf(p, d), ThetaAgain(p, d), public_key_from_string(Opened(p).pk).s)

Verdict(p, d) ==
    (compare([u |-> Cipher(p, d).u, v |-> Cipher(p, d).v,
              u2 |-> UAgain(p, d), v2 |-> VAgain(p, d)]) - 1) % 256

KeyDecOf(p, d) ==
    SharedSecret(IF Verdict(p, d) = 255 THEN DecodedOf(p, d) ELSE Opened(p).sigma,
                 Cipher(p, d).u, Cipher(p, d).v)

ReturnedOf(p, d) == (Verdict(p, d) % 2) - 1

-----------------------------------------------------------------------------
(* The vectors of a session                                                *)
LEMMA KeyVectors ==
    ASSUME ParametersFit, ShakeGivesBytes, NEW p, NEW ctx
    PROVE  /\ XOf(ctx) \in VectorArrays /\ YOf(ctx) \in VectorArrays
           /\ HOf(p) \in VectorArrays /\ SOf(p) \in VectorArrays
           /\ Bits(SOf(p)) = Bits(XOf(KeyContext(p)))
                  (+) CyclicProduct(Bits(YOf(KeyContext(p))), Bits(HOf(p)))
<1>1. \A c : XOf(c) \in VectorArrays /\ YOf(c) \in VectorArrays
    BY VectorIs DEF XOf, YOf, SampledNames
<1>2. HOf(p) \in VectorArrays
    BY UniformInRange DEF HOf
<1>3. PICK x \in VectorArrays, y \in VectorArrays, h \in VectorArrays :
          x = XOf(KeyContext(p)) /\ y = YOf(KeyContext(p)) /\ h = HOf(p)
    BY <1>1, <1>2
<1>4. PICK z : z = vect_mul(y, h)
    OBVIOUS
<1>5. z \in VectorArrays /\ Bits(z) = CyclicProduct(Bits(y), Bits(h))
    BY <1>4, VectorProducts
<1>6. /\ vect_add(x, z, VEC_N_SIZE_64) \in VectorArrays
      /\ Bits(vect_add(x, z, VEC_N_SIZE_64)) = Bits(x) (+) Bits(z)
    BY <1>5, VectorSums
<1> QED
    BY <1>1, <1>2, <1>3, <1>4, <1>5, <1>6 DEF SOf

LEMMA EncryptionVectors ==
    ASSUME ParametersFit, ShakeGivesBytes, NEW ctx
    PROVE  R1Of(ctx) \in VectorArrays /\ R2Of(ctx) \in VectorArrays /\ EOf(ctx) \in VectorArrays
BY VectorIs DEF R1Of, R2Of, EOf, SampledNames

LEMMA EncryptedIs ==
    ASSUME ParametersFit, ShakeGivesBytes, NEW m, NEW theta, NEW h \in VectorArrays, NEW s \in VectorArrays
    PROVE  LET ctx == NoiseContext(theta)
           IN  /\ EncryptedU(theta, h) \in VectorArrays
               /\ Bits(EncryptedU(theta, h)) =
                      Bits(R1Of(ctx)) (+) CyclicProduct(Bits(R2Of(ctx)), Bits(h))
               /\ EncryptedV(m, theta, s) \in CodeArrays
               /\ Bits(EncryptedV(m, theta, s)) =
                      ((Bits(EOf(ctx)) (+) CyclicProduct(Bits(R2Of(ctx)), Bits(s)))
                          (+) Bits(code_encode(m))) \cap (0 .. PARAM_N1N2 - 1)
<1>1. PICK ctx : ctx = NoiseContext(theta)
    OBVIOUS
<1>2. PICK r1 \in VectorArrays, r2 \in VectorArrays, e \in VectorArrays :
          r1 = R1Of(ctx) /\ r2 = R2Of(ctx) /\ e = EOf(ctx)
    BY EncryptionVectors
<1>3. PICK rh \in VectorArrays, rs \in VectorArrays :
          /\ rh = vect_mul(r2, h) /\ Bits(rh) = CyclicProduct(Bits(r2), Bits(h))
          /\ rs = vect_mul(r2, s) /\ Bits(rs) = CyclicProduct(Bits(r2), Bits(s))
    BY VectorProducts
<1>4. /\ vect_add(r1, rh, VEC_N_SIZE_64) \in VectorArrays
      /\ Bits(vect_add(r1, rh, VEC_N_SIZE_64)) = Bits(r1) (+) Bits(rh)
    BY VectorSums
<1>5. PICK es \in VectorArrays :
          es = vect_add(e, rs, VEC_N_SIZE_64) /\ Bits(es) = Bits(e) (+) Bits(rs)
    BY VectorSums
<1>6. PICK c \in CodeArrays : c = code_encode(m)
    BY EncodedIs
<1>7. PICK c2 \in VectorArrays : c2 = Extended(c) /\ Bits(c2) = Bits(c)
    BY ExtendedIs
<1>8. PICK t \in VectorArrays :
          t = vect_add(es, c2, VEC_N_SIZE_64) /\ Bits(t) = Bits(es) (+) Bits(c2)
    BY VectorSums
<1>9. /\ Shortened(c, t) \in CodeArrays
      /\ Bits(Shortened(c, t)) = Bits(t) \cap (0 .. PARAM_N1N2 - 1)
    <2>1. c \in [0 .. VEC_N1N2_SIZE_64 - 1 -> Word]
        BY DEF CodeArrays
    <2> QED
        BY <2>1, ShortenedIs
<1>10. EncryptedU(theta, h) = vect_add(r1, rh, VEC_N_SIZE_64)
    BY <1>1, <1>2, <1>3 DEF EncryptedU
<1>11. EncryptedV(m, theta, s) = Shortened(c, t)
    BY <1>1, <1>2, <1>3, <1>5, <1>6, <1>7, <1>8 DEF EncryptedV
<1>12. Bits(EncryptedU(theta, h)) = Bits(R1Of(ctx)) (+) CyclicProduct(Bits(R2Of(ctx)), Bits(h))
    BY <1>2, <1>3, <1>4, <1>10
<1>13. Bits(EncryptedV(m, theta, s)) =
           ((Bits(EOf(ctx)) (+) CyclicProduct(Bits(R2Of(ctx)), Bits(s)))
               (+) Bits(code_encode(m))) \cap (0 .. PARAM_N1N2 - 1)
    BY <1>2, <1>3, <1>5, <1>6, <1>7, <1>8, <1>9, <1>11
<1> QED
    BY <1>1, <1>4, <1>9, <1>10, <1>11, <1>12, <1>13

-----------------------------------------------------------------------------
(* The strings of a session                                                *)
LEMMA StringSizes ==
    ASSUME ParametersFit
    PROVE  /\ SEED_BYTES \in Nat /\ VEC_K_SIZE_BYTES \in Nat /\ SALT_SIZE_BYTES \in Nat
           /\ VEC_N_SIZE_BYTES \in Nat /\ VEC_N1N2_SIZE_BYTES \in Nat /\ SHAKE256_512_BYTES \in Nat
           /\ PUBLIC_KEY_BYTES \in Nat /\ SECRET_KEY_BYTES \in Nat /\ CIPHERTEXT_BYTES \in Nat
BY ArraysFit DEF ParametersFit

LEMMA KeyStrings ==
    ASSUME ParametersFit, ShakeGivesBytes, NEW p
    PROVE  /\ IsString(PublicOf(p), PUBLIC_KEY_BYTES) /\ IsString(SecretOf(p), SECRET_KEY_BYTES)
           /\ public_key_from_string(PublicOf(p)).h = HOf(p)
           /\ public_key_from_string(PublicOf(p)).s = SOf(p)
           /\ Opened(p).ctx = KeyContext(p) /\ Opened(p).sigma = SigmaOf(p)
           /\ Opened(p).pk = PublicOf(p)
<1>1. PICK seed : seed = PkSeed(p) /\ IsString(seed, SEED_BYTES)
    BY ExpansionsAreStrings DEF PkSeed
<1>2. PICK st : st = store8_arr(VEC_N_SIZE_BYTES, SOf(p)) /\ IsString(st, VEC_N_SIZE_BYTES)
    BY ExpansionsAreStrings
<1>3. PICK public : public = PublicOf(p) /\ public = seed \o st
    BY <1>1, <1>2 DEF PublicOf, public_key_to_string
<1>4. /\ IsString(public, SEED_BYTES + VEC_N_SIZE_BYTES)
      /\ From(public, 0, SEED_BYTES) = seed /\ From(public, SEED_BYTES, VEC_N_SIZE_BYTES) = st
    BY <1>1, <1>2, <1>3, StringSizes, CutsOfTwo
<1>5. IsString(public, PUBLIC_KEY_BYTES)
    BY <1>4 DEF PUBLIC_KEY_BYTES
<1>6. load8_arr(VEC_N_SIZE_64, st) = SOf(p)
    <2>1. SOf(p) \in VectorArrays
        BY KeyVectors
    <2>2. \E v : v \in CodeArrays
        BY EncodedIs
    <2> QED
        BY <1>2, <2>1, <2>2, VectorsSurvive
<1>7. /\ public_key_from_string(public).h = HOf(p)
      /\ public_key_from_string(public).s = SOf(p)
    BY <1>1, <1>4, <1>6 DEF public_key_from_string, HOf
<1>8. PICK skseed : skseed = SkSeed(p) /\ IsString(skseed, SEED_BYTES)
    BY ExpansionsAreStrings DEF SkSeed
<1>9. PICK sigma : sigma = SigmaOf(p) /\ IsString(sigma, VEC_K_SIZE_BYTES)
    BY ExpansionsAreStrings DEF SigmaOf
<1>10. PICK secret : secret = SecretOf(p) /\ secret = skseed \o sigma \o public
    BY <1>3, <1>8, <1>9 DEF SecretOf, secret_key_to_string
<1>11. /\ IsString(secret, SEED_BYTES + VEC_K_SIZE_BYTES + PUBLIC_KEY_BYTES)
       /\ From(secret, 0, SEED_BYTES) = skseed /\ From(secret, SEED_BYTES, VEC_K_SIZE_BYTES) = sigma
       /\ From(secret, SEED_BYTES + VEC_K_SIZE_BYTES, PUBLIC_KEY_BYTES) = public
    BY <1>5, <1>8, <1>9, <1>10, StringSizes, CutsOfThree
<1>12. IsString(secret, SECRET_KEY_BYTES)
    BY <1>11 DEF SECRET_KEY_BYTES
<1>13. /\ Opened(p).ctx = KeyContext(p) /\ Opened(p).sigma = SigmaOf(p)
       /\ Opened(p).pk = PublicOf(p)
    BY <1>3, <1>8, <1>9, <1>10, <1>11 DEF Opened, secret_key_from_string, KeyContext
<1> QED
    BY <1>3, <1>5, <1>7, <1>10, <1>12, <1>13

LEMMA CipherStrings ==
    ASSUME ParametersFit, ShakeGivesBytes, NEW p
    PROVE  /\ IsString(SentOf(p), CIPHERTEXT_BYTES)
           /\ Cipher(p, None).u = UOf(p) /\ Cipher(p, None).v = VOf(p)
           /\ Cipher(p, None).salt = SaltOf(p)
           /\ UOf(p) \in VectorArrays /\ VOf(p) \in CodeArrays
<1>1. UOf(p) \in VectorArrays /\ VOf(p) \in CodeArrays
    <2>1. /\ public_key_from_string(PublicOf(p)).h \in VectorArrays
          /\ public_key_from_string(PublicOf(p)).s \in VectorArrays
        BY KeyStrings, KeyVectors
    <2> QED
        BY <2>1, EncryptedIs DEF UOf, VOf
<1>2. PICK a : a = store8_arr(VEC_N_SIZE_BYTES, UOf(p)) /\ IsString(a, VEC_N_SIZE_BYTES)
    BY ExpansionsAreStrings
<1>3. PICK b : b = store8_arr(VEC_N1N2_SIZE_BYTES, VOf(p)) /\ IsString(b, VEC_N1N2_SIZE_BYTES)
    BY ExpansionsAreStrings
<1>4. PICK c : c = SaltOf(p) /\ IsString(c, SALT_SIZE_BYTES)
    BY ExpansionsAreStrings DEF SaltOf
<1>5. PICK s : s = SentOf(p) /\ s = a \o b \o c
    BY <1>2, <1>3, <1>4 DEF SentOf, ciphertext_to_string
<1>6. /\ IsString(s, VEC_N_SIZE_BYTES + VEC_N1N2_SIZE_BYTES + SALT_SIZE_BYTES)
      /\ From(s, 0, VEC_N_SIZE_BYTES) = a /\ From(s, VEC_N_SIZE_BYTES, VEC_N1N2_SIZE_BYTES) = b
      /\ From(s, VEC_N_SIZE_BYTES + VEC_N1N2_SIZE_BYTES, SALT_SIZE_BYTES) = c
    BY <1>2, <1>3, <1>4, <1>5, StringSizes, CutsOfThree
<1>7. load8_arr(VEC_N_SIZE_64, a) = UOf(p) /\ load8_arr(VEC_N1N2_SIZE_64, b) = VOf(p)
    BY <1>1, <1>2, <1>3, VectorsSurvive
<1>8. Cipher(p, None) = ciphertext_from_string(s)
    BY <1>5 DEF Cipher, ReceivedOf
<1> QED
    BY <1>1, <1>4, <1>5, <1>6, <1>7, <1>8 DEF ciphertext_from_string, CIPHERTEXT_BYTES

-----------------------------------------------------------------------------
(* The noise of a session                                                  *)
NoiseOf(p) ==
    LET ctx == NoiseContext(ThetaOf(p))
        key == KeyContext(p)
    IN  (CyclicProduct(Bits(XOf(key)), Bits(R2Of(ctx))) (+) CyclicProduct(Bits(R1Of(ctx)), Bits(YOf(key)))
             (+) Bits(EOf(ctx))) \cap (0 .. PARAM_N1N2 - 1)

(* The products with h cancel.                                             *)
LEMMA NoiseRemains ==
    ASSUME ParametersFit, ShakeGivesBytes, NEW p
    PROVE  /\ WordOf(p, None) \in VectorArrays
           /\ Bits(WordOf(p, None)) \cap (0 .. PARAM_N1N2 - 1) =
                  Bits(code_encode(MessageOf(p))) (+) NoiseOf(p)
<1>1. PICK ctx, key : ctx = NoiseContext(ThetaOf(p)) /\ key = KeyContext(p)
    OBVIOUS
<1>2. PICK x \in Vectors, y \in Vectors, h \in Vectors :
          x = Bits(XOf(key)) /\ y = Bits(YOf(key)) /\ h = Bits(HOf(p))
    BY KeyVectors DEF VectorArrays
<1>3. PICK r1 \in Vectors, r2 \in Vectors, e \in Vectors :
          r1 = Bits(R1Of(ctx)) /\ r2 = Bits(R2Of(ctx)) /\ e = Bits(EOf(ctx))
    BY EncryptionVectors DEF VectorArrays
<1>4. PICK c \in SUBSET (0 .. PARAM_N1N2 - 1) : c = Bits(code_encode(MessageOf(p)))
    BY EncodedIs DEF CodeArrays
<1>5. PARAM_N \in Nat \ {0}
    BY Lengths
<1>6. PICK s : s = Bits(SOf(p)) /\ s = x (+) CyclicProduct(y, h)
    BY <1>1, <1>2, KeyVectors
<1>7. PICK u : u = Bits(UOf(p)) /\ u = r1 (+) CyclicProduct(r2, h)
    <2>1. HOf(p) \in VectorArrays /\ SOf(p) \in VectorArrays
        BY KeyVectors
    <2>2. Bits(EncryptedU(ThetaOf(p), HOf(p))) = r1 (+) CyclicProduct(r2, h)
        BY <1>1, <1>2, <1>3, <2>1, EncryptedIs
    <2> QED
        BY <2>2, KeyStrings DEF UOf
<1>8. PICK v : v = Bits(VOf(p)) /\ v = ((e (+) CyclicProduct(r2, s)) (+) c) \cap (0 .. PARAM_N1N2 - 1)
    <2>1. HOf(p) \in VectorArrays /\ SOf(p) \in VectorArrays
        BY KeyVectors
    <2>2. PICK m, theta, ph, ps : m = MessageOf(p) /\ theta = ThetaOf(p) /\ ph = HOf(p) /\ ps = SOf(p)
        OBVIOUS
    <2>3. ph \in VectorArrays /\ ps \in VectorArrays
        BY <2>1, <2>2
    <2>4. Bits(EncryptedV(m, theta, ps)) =
              ((Bits(EOf(NoiseContext(theta)))
                    (+) CyclicProduct(Bits(R2Of(NoiseContext(theta))), Bits(ps)))
                  (+) Bits(code_encode(m))) \cap (0 .. PARAM_N1N2 - 1)
        BY <2>3, EncryptedIs
    <2>5. Bits(EncryptedV(m, theta, ps)) = ((e (+) CyclicProduct(r2, s)) (+) c) \cap (0 .. PARAM_N1N2 - 1)
        BY <1>1, <1>3, <1>4, <1>6, <2>2, <2>4
    <2> QED
        BY <2>2, <2>5, KeyStrings DEF VOf
(* What decryption adds up                                                 *)
<1>9. PICK w : /\ w = WordOf(p, None) /\ w \in VectorArrays
               /\ Bits(w) = v (+) CyclicProduct(y, u)
    <2>1. UOf(p) \in VectorArrays /\ VOf(p) \in CodeArrays
        BY CipherStrings
    <2>2. PICK v2 \in VectorArrays : v2 = Extended(VOf(p)) /\ Bits(v2) = v
        BY <1>8, <2>1, ExtendedIs
    <2>3. PICK yu \in VectorArrays : yu = vect_mul(YOf(key), UOf(p)) /\ Bits(yu) = CyclicProduct(y, u)
        <3>1. YOf(key) \in VectorArrays
            BY KeyVectors
        <3>2. PICK yv \in VectorArrays, uv \in VectorArrays : yv = YOf(key) /\ uv = UOf(p)
            BY <2>1, <3>1
        <3>3. vect_mul(yv, uv) \in VectorArrays /\ Bits(vect_mul(yv, uv)) = CyclicProduct(Bits(yv), Bits(uv))
            BY VectorProducts
        <3> QED
            BY <1>2, <1>7, <3>2, <3>3
    <2>4. /\ vect_add(v2, yu, VEC_N_SIZE_64) \in VectorArrays
          /\ Bits(vect_add(v2, yu, VEC_N_SIZE_64)) = Bits(v2) (+) Bits(yu)
        BY VectorSums
    <2>5. WordOf(p, None) = vect_add(v2, yu, VEC_N_SIZE_64)
        BY <1>1, <2>2, <2>3, CipherStrings, KeyStrings DEF WordOf
    <2> QED
        BY <2>2, <2>3, <2>4, <2>5
<1>10. PICK yh \in Vectors, rh \in Vectors : yh = CyclicProduct(y, h) /\ rh = CyclicProduct(r2, h)
    BY <1>5, ProductTurns
<1>11. PICK t : t = CyclicProduct(r2, yh) /\ t = CyclicProduct(y, rh)
    BY <1>5, <1>10, ProductsSwap
<1>12. PICK a, b : /\ a = CyclicProduct(x, r2) /\ b = CyclicProduct(r1, y)
                   /\ a = CyclicProduct(r2, x) /\ b = CyclicProduct(y, r1)
    BY <1>5, ProductCommutes
<1>13. CyclicProduct(r2, s) = a (+) t
    <2>1. CyclicProduct(r2, x (+) yh) = CyclicProduct(r2, x) (+) CyclicProduct(r2, yh)
        BY <1>5, ProductIsLinear
    <2> QED
        BY <1>6, <1>10, <1>11, <1>12, <2>1
<1>14. CyclicProduct(y, u) = b (+) t
    <2>1. CyclicProduct(y, r1 (+) rh) = CyclicProduct(y, r1) (+) CyclicProduct(y, rh)
        BY <1>5, ProductIsLinear
    <2> QED
        BY <1>7, <1>10, <1>11, <1>12, <2>1
<1>15. NoiseOf(p) = (a (+) b (+) e) \cap (0 .. PARAM_N1N2 - 1)
    BY <1>1, <1>2, <1>3, <1>12 DEF NoiseOf
<1>16. ASSUME NEW L, c \subseteq L
       PROVE  ((((e (+) (a (+) t)) (+) c) \cap L) (+) (b (+) t)) \cap L = c (+) ((a (+) b (+) e) \cap L)
    <2> DEFINE left == ((((e (+) (a (+) t)) (+) c) \cap L) (+) (b (+) t)) \cap L
               right == c (+) ((a (+) b (+) e) \cap L)
    <2>1. ASSUME NEW A, NEW B, NEW q PROVE q \in A (+) B <=> ~(q \in A <=> q \in B)
        BY DEF (+)
    <2>2. ASSUME NEW q PROVE q \in left <=> q \in right
        <3>1. q \in right <=> ~(q \in c <=> (q \in (a (+) b (+) e) /\ q \in L))
            BY <2>1
        <3>2. q \in (a (+) b (+) e) <=> ~(~(q \in a <=> q \in b) <=> q \in e)
            BY <2>1
        <3>3. q \in left <=> q \in L /\ ~((q \in ((e (+) (a (+) t)) (+) c) /\ q \in L) <=> q \in (b (+) t))
            BY <2>1
        <3>4. q \in (b (+) t) <=> ~(q \in b <=> q \in t)
            BY <2>1
        <3>5. q \in ((e (+) (a (+) t)) (+) c) <=> ~(~(q \in e <=> ~(q \in a <=> q \in t)) <=> q \in c)
            <4>1. q \in ((e (+) (a (+) t)) (+) c) <=> ~(q \in (e (+) (a (+) t)) <=> q \in c)
                BY <2>1
            <4>2. q \in (e (+) (a (+) t)) <=> ~(q \in e <=> q \in (a (+) t))
                BY <2>1
            <4>3. q \in (a (+) t) <=> ~(q \in a <=> q \in t)
                BY <2>1
            <4> QED
                BY <4>1, <4>2, <4>3
        <3> HIDE DEF left, right
        <3> QED
            BY <1>16, <3>1, <3>2, <3>3, <3>4, <3>5
    <2> HIDE DEF left, right
    <2>3. left = right
        BY <2>2
    <2> QED
        BY <2>3 DEF left, right
<1>17. Bits(w) \cap (0 .. PARAM_N1N2 - 1) = c (+) NoiseOf(p)
    <2>1. Bits(w) = (((e (+) (a (+) t)) (+) c) \cap (0 .. PARAM_N1N2 - 1)) (+) (b (+) t)
        <3>1. v = ((e (+) (a (+) t)) (+) c) \cap (0 .. PARAM_N1N2 - 1)
            BY <1>8, <1>13
        <3> QED
            BY <1>9, <1>14, <3>1
    <2>2. c \subseteq 0 .. PARAM_N1N2 - 1
        OBVIOUS
    <2>3. ((((e (+) (a (+) t)) (+) c) \cap (0 .. PARAM_N1N2 - 1)) (+) (b (+) t)) \cap (0 .. PARAM_N1N2 - 1)
              = c (+) ((a (+) b (+) e) \cap (0 .. PARAM_N1N2 - 1))
        BY <1>16, <2>2
    <2> QED
        BY <1>15, <2>1, <2>3
<1> QED
    BY <1>4, <1>9, <1>17

(* With no more noise than the code corrects both sides share the secret.   *)
LEMMA SecretsAgree ==
    ASSUME ParametersFit, ShakeGivesBytes, NEW p, Cardinality(NoiseOf(p)) <= Radius
    PROVE  ReturnedOf(p, None) = 0 /\ KeyDecOf(p, None) = KeyEncOf(p)
<1>1. DecodedOf(p, None) = MessageOf(p)
    <2>1. PICK m, w, flips : /\ m = MessageOf(p) /\ w = WordOf(p, None) /\ flips = NoiseOf(p)
        OBVIOUS
    <2>2. IsMessage(m)
        <3>1. IsString(m, VEC_K_SIZE_BYTES)
            BY <2>1, ExpansionsAreStrings DEF MessageOf
        <3>2. \A k \in 1..VEC_K_SIZE_BYTES : m[k] \in ByteValues
            BY <2>1 DEF MessageOf, seedexpander, ShakeGivesBytes
        <3> QED
            BY <3>1, <3>2 DEF IsMessage
    <2>3. w \in Arrays /\ Bits(w) \cap (0 .. PARAM_N1N2 - 1) = Bits(code_encode(m)) (+) flips
        BY <2>1, NoiseRemains DEF VectorArrays
    <2>4. flips \subseteq 0 .. PARAM_N1N2 - 1
        BY <2>1 DEF NoiseOf
    <2>5. code_decode(w) = m
        BY <2>1, <2>2, <2>3, <2>4, MajorityDecides
    <2> QED
        BY <2>1, <2>5 DEF DecodedOf
<1>2. UAgain(p, None) = UOf(p) /\ VAgain(p, None) = VOf(p)
    <2>1. ThetaAgain(p, None) = ThetaOf(p)
        BY <1>1, KeyStrings, CipherStrings DEF ThetaAgain, ThetaOf
    <2> QED
        BY <1>1, <2>1, KeyStrings DEF UAgain, VAgain, UOf, VOf
<1>3. Verdict(p, None) = 255
    <2> DEFINE l == [u |-> Cipher(p, None).u, v |-> Cipher(p, None).v,
                     u2 |-> UAgain(p, None), v2 |-> VAgain(p, None)]
    <2>1. l.u = l.u2 /\ l.v = l.v2
        BY <1>2, CipherStrings
    <2> HIDE DEF l
    <2>2. ASSUME NEW a, NEW n PROVE vect_compare(a, a, n) = 0
        <3>1. differences(a, a, n) = 256
            BY DEF differences
        <3> QED
            BY <3>1 DEF vect_compare
    <2>3. compare(l) = 0
        BY <2>1, <2>2 DEF compare
    <2>4. Verdict(p, None) = (compare(l) - 1) % 256
        BY DEF Verdict, l
    <2>5. (0 - 1) % 256 = 255
        <3>1. PICK n \in Nat \ {0}, q \in Int, r \in 0 .. 255 : n = 256 /\ q = -1 /\ r = 255
            OBVIOUS
        <3>2. (n * q + r) % n = r
            <4>1. r \in 0 .. n - 1
                BY <3>1
            <4> QED
                BY <4>1, DivisionOf
        <3>3. n * q + r = 0 - 1
            BY <3>1
        <3> QED
            BY <3>1, <3>2, <3>3
    <2> QED
        BY <2>3, <2>4, <2>5
<1>4. ReturnedOf(p, None) = 0
    BY <1>3 DEF ReturnedOf
<1>5. KeyDecOf(p, None) = KeyEncOf(p)
    BY <1>1, <1>3, CipherStrings DEF KeyDecOf, KeyEncOf
<1> QED
    BY <1>4, <1>5

(***************************************************************************)
(* Where a session is                                                      *)
(***************************************************************************)

-----------------------------------------------------------------------------
(* The sampler is drawing the vector called name from the seed expander ctx: *)
(* it has not begun, or the positions from index at on are settled.          *)
Drawing(name, ctx) ==
    \/ at = -1 /\ expander = ctx
    \/ /\ at \in 0 .. WeightOf(name) - 1 /\ weight = WeightOf(name) /\ expander = Rest(ctx, name)
       /\ IsSettled(support, DrawnAt(ctx, WeightOf(name)), WeightOf(name), at)

(* The vectors of a key                                                    *)
DrawingKey(ctx) ==
    \/ queue = <<"x", "y">> /\ Drawing("x", ctx)
    \/ queue = <<"y">> /\ loc.x = XOf(ctx) /\ Drawing("y", Rest(ctx, "x"))
    \/ queue = << >> /\ at = -1 /\ loc.x = XOf(ctx) /\ loc.y = YOf(ctx)

(* The vectors of an encryption                                            *)
DrawingNoise(ctx) ==
    \/ queue = <<"r1", "r2", "e">> /\ Drawing("r1", ctx)
    \/ queue = <<"r2", "e">> /\ loc.r1 = R1Of(ctx) /\ Drawing("r2", Rest(ctx, "r1"))
    \/ /\ queue = <<"e">> /\ loc.r1 = R1Of(ctx) /\ loc.r2 = R2Of(ctx)
       /\ Drawing("e", Rest(Rest(ctx, "r1"), "r2"))
    \/ /\ queue = << >> /\ at = -1
       /\ loc.r1 = R1Of(ctx) /\ loc.r2 = R2Of(ctx) /\ loc.e = EOf(ctx)

(* What a step of the sampler does to a vector it draws: it goes on, or ends *)
(* with the vector.                                                        *)
LEMMA DrawingGoesOn ==
    ASSUME ParametersFit, ShakeGivesBytes, NEW name \in SampledNames, NEW ctx,
           Head(queue) = name, Drawing(name, ctx), Draw \/ Settle \/ Collect
    PROVE  \/ queue' = queue /\ loc' = loc /\ Drawing(name, ctx)'
           \/ /\ queue' = Tail(queue) /\ loc' = [loc EXCEPT ![name] = Vector(ctx, name)]
              /\ at' = -1 /\ expander' = Rest(ctx, name)
<1>0. PICK n \in Nat \ {0} : n = PARAM_N
    BY DrawsFit
<1>1. PICK w \in 1..n : n = PARAM_N /\ w = WeightOf(name)
    BY <1>0, WeightsFit
<1>2. PICK d : d = DrawnAt(ctx, w) /\ d \in [0 .. w - 1 -> 0 .. n - 1]
    BY <1>1, DrawnInRange
<1>3. d = [i \in 0 .. w - 1 |-> d[i]]
    BY <1>2
<1>4. w \in Nat \ {0}
    OBVIOUS
<1>5. CASE Draw
    <2>1. at = -1 /\ queue' = queue /\ loc' = loc
        BY <1>5 DEF Draw, FW!Draw
    <2>2. expander = ctx
        BY <1>1, <1>4, <2>1 DEF Drawing
    <2>3. weight' = w /\ at' = w - 1 /\ expander' = Rest(ctx, name) /\ support' = d
        BY <1>1, <1>2, <1>5, <2>2 DEF Draw, FW!Draw, Rest, DrawnAt
    <2>4. IsSettled(d, d, w, w - 1)
        BY <1>3, <1>4, SettleNone
    <2>5. w - 1 \in 0 .. w - 1
        OBVIOUS
    <2>6. Drawing(name, ctx)'
        BY <1>1, <1>2, <2>3, <2>4, <2>5 DEF Drawing
    <2> QED
        BY <2>1, <2>6
<1>6. CASE Settle
    <2>1. /\ at > 0 /\ at' = at - 1 /\ weight' = weight /\ queue' = queue /\ loc' = loc
          /\ expander' = expander
          /\ support' = [support EXCEPT ![at - 1] = IF FW!Repeated(at - 1) THEN at - 1 ELSE support[at - 1]]
        BY <1>6 DEF Settle, FW!Settle
    <2>2. /\ at \in 0 .. w - 1 /\ weight = w /\ expander = Rest(ctx, name)
          /\ IsSettled(support, d, w, at)
        BY <1>1, <1>2, <2>1 DEF Drawing
    <2>3. PICK k \in 1 .. w - 1 : k = at
        BY <2>1, <2>2
    <2>4. PICK f, g : f = support /\ g = support'
        OBVIOUS
    <2>5. g = [f EXCEPT ![k - 1] = IF \E j \in k .. w - 1 : f[j] = f[k - 1] THEN k - 1 ELSE @]
        <3>1. FW!Repeated(at - 1) <=> \E j \in k .. w - 1 : f[j] = f[k - 1]
            <4>1. (k - 1) + 1 = k
                OBVIOUS
            <4> QED
                BY <2>2, <2>3, <2>4, <4>1 DEF FW!Repeated
        <3> QED
            BY <2>1, <2>3, <2>4, <3>1
    <2>6. IsSettled(g, d, w, k - 1)
        <3>1. w \in Nat /\ IsSettled(f, d, w, k)
            BY <2>2, <2>3, <2>4
        <3>2. PICK u \in Nat : u = w
            BY <3>1
        <3>3. /\ k \in 1 .. u - 1 /\ IsSettled(f, d, u, k)
              /\ g = [f EXCEPT ![k - 1] = IF \E j \in k .. u - 1 : f[j] = f[k - 1] THEN k - 1 ELSE @]
            BY <2>5, <3>1, <3>2
        <3>4. IsSettled(g, d, u, k - 1)
            BY <3>3, SettleOne
        <3> QED
            BY <3>2, <3>4
    <2>7. at' = k - 1 /\ k - 1 \in 0 .. w - 1
        BY <2>1, <2>3, <2>4
    <2>8. Drawing(name, ctx)'
        BY <1>1, <1>2, <2>1, <2>2, <2>3, <2>4, <2>6, <2>7 DEF Drawing
    <2> QED
        BY <2>1, <2>8
<1>7. CASE Collect
    <2>1. /\ at = 0 /\ at' = -1 /\ queue' = Tail(queue) /\ expander' = expander
          /\ drawn' = {support[i] : i \in 0 .. weight - 1}
          /\ loc' = [loc EXCEPT ![name] = ToWords(drawn', VEC_N_SIZE_64)]
        BY <1>7 DEF Collect, FW!Collect
    <2>2. weight = w /\ expander = Rest(ctx, name) /\ IsSettled(support, d, w, 0)
        BY <1>1, <1>2, <2>1 DEF Drawing
    <2>3. ToWords({support[i] : i \in 0 .. w - 1}, VEC_N_SIZE_64) = Vector(ctx, name)
        BY <1>1, <1>2, <2>2, VectorIs
    <2> QED
        BY <2>1, <2>2, <2>3
<1> QED
    BY <1>5, <1>6, <1>7

(* A queue that holds names is not empty, and no two of them are the same.   *)
LEMMA QueuesDiffer ==
    ASSUME NEW a, NEW b, NEW c
    PROVE  /\ Head(<<a, b, c>>) = a /\ Tail(<<a, b, c>>) = <<b, c>> /\ <<a, b, c>> # << >>
           /\ Head(<<a, b>>) = a /\ Tail(<<a, b>>) = <<b>> /\ <<a, b>> # << >>
           /\ Head(<<a>>) = a /\ Tail(<<a>>) = << >> /\ <<a>> # << >>
OBVIOUS

LEMMA KeyDrawn ==
    ASSUME ParametersFit, ShakeGivesBytes, NEW ctx, DOMAIN loc = Names, DrawingKey(ctx),
           queue # << >>, Draw \/ Settle \/ Collect
    PROVE  /\ DrawingKey(ctx)' /\ DOMAIN loc' = Names
           /\ \A name \in Names \ {"x", "y"} : loc'[name] = loc[name]
<1>1. CASE queue = <<"x", "y">>
    <2>1. Head(queue) = "x" /\ Tail(queue) = <<"y">> /\ "x" \in SampledNames
        BY <1>1, QueuesDiffer DEF SampledNames
    <2>2. Drawing("x", ctx)
        BY <1>1 DEF DrawingKey
    <2>3. CASE queue' = queue /\ loc' = loc /\ Drawing("x", ctx)'
        BY <1>1, <2>3 DEF DrawingKey
    <2>4. CASE /\ queue' = <<"y">> /\ loc' = [loc EXCEPT !["x"] = Vector(ctx, "x")]
               /\ at' = -1 /\ expander' = Rest(ctx, "x")
        <3>1. Drawing("y", Rest(ctx, "x"))'
            BY <2>4 DEF Drawing
        <3>2. loc'.x = XOf(ctx)
            BY <2>4 DEF XOf, Names
        <3> QED
            BY <2>4, <3>1, <3>2 DEF DrawingKey, Names
    <2> QED
        BY <2>1, <2>2, <2>3, <2>4, DrawingGoesOn
<1>2. CASE queue = <<"y">>
    <2>1. Head(queue) = "y" /\ Tail(queue) = << >> /\ "y" \in SampledNames
        BY <1>2, QueuesDiffer DEF SampledNames
    <2>2. PICK c : c = Rest(ctx, "x")
        OBVIOUS
    <2>3. Drawing("y", c) /\ loc.x = XOf(ctx)
        BY <1>2, <2>2 DEF DrawingKey
    <2>4. CASE queue' = queue /\ loc' = loc /\ Drawing("y", c)'
        BY <1>2, <2>2, <2>3, <2>4 DEF DrawingKey
    <2>5. CASE /\ queue' = << >> /\ loc' = [loc EXCEPT !["y"] = Vector(c, "y")] /\ at' = -1
        <3>1. loc'.y = YOf(ctx) /\ loc'.x = XOf(ctx)
            BY <2>2, <2>3, <2>5 DEF YOf, Names
        <3> QED
            BY <2>5, <3>1 DEF DrawingKey, Names
    <2> QED
        BY <2>1, <2>3, <2>4, <2>5, DrawingGoesOn
<1> QED
    BY <1>1, <1>2 DEF DrawingKey

LEMMA NoiseDrawn ==
    ASSUME ParametersFit, ShakeGivesBytes, NEW ctx, DOMAIN loc = Names, DrawingNoise(ctx),
           queue # << >>, Draw \/ Settle \/ Collect
    PROVE  /\ DrawingNoise(ctx)' /\ DOMAIN loc' = Names
           /\ \A name \in Names \ {"r1", "r2", "e"} : loc'[name] = loc[name]
<1>1. CASE queue = <<"r1", "r2", "e">>
    <2>1. Head(queue) = "r1" /\ Tail(queue) = <<"r2", "e">> /\ "r1" \in SampledNames
        BY <1>1, QueuesDiffer DEF SampledNames
    <2>2. Drawing("r1", ctx)
        BY <1>1 DEF DrawingNoise
    <2>3. CASE queue' = queue /\ loc' = loc /\ Drawing("r1", ctx)'
        BY <1>1, <2>3 DEF DrawingNoise
    <2>4. CASE /\ queue' = <<"r2", "e">> /\ loc' = [loc EXCEPT !["r1"] = Vector(ctx, "r1")]
               /\ at' = -1 /\ expander' = Rest(ctx, "r1")
        <3>1. Drawing("r2", Rest(ctx, "r1"))'
            BY <2>4 DEF Drawing
        <3>2. loc'.r1 = R1Of(ctx)
            BY <2>4 DEF R1Of, Names
        <3> QED
            BY <2>4, <3>1, <3>2 DEF DrawingNoise, Names
    <2> QED
        BY <2>1, <2>2, <2>3, <2>4, DrawingGoesOn
<1>2. CASE queue = <<"r2", "e">>
    <2>1. Head(queue) = "r2" /\ Tail(queue) = <<"e">> /\ "r2" \in SampledNames
        BY <1>2, QueuesDiffer DEF SampledNames
    <2>2. PICK c : c = Rest(ctx, "r1")
        OBVIOUS
    <2>3. Drawing("r2", c) /\ loc.r1 = R1Of(ctx)
        BY <1>2, <2>2 DEF DrawingNoise
    <2>4. CASE queue' = queue /\ loc' = loc /\ Drawing("r2", c)'
        BY <1>2, <2>2, <2>3, <2>4 DEF DrawingNoise
    <2>5. CASE /\ queue' = <<"e">> /\ loc' = [loc EXCEPT !["r2"] = Vector(c, "r2")]
               /\ at' = -1 /\ expander' = Rest(c, "r2")
        <3>1. Drawing("e", Rest(Rest(ctx, "r1"), "r2"))'
            BY <2>2, <2>5 DEF Drawing
        <3>2. loc'.r2 = R2Of(ctx) /\ loc'.r1 = R1Of(ctx)
            BY <2>2, <2>3, <2>5 DEF R2Of, Names
        <3> QED
            BY <2>5, <3>1, <3>2 DEF DrawingNoise, Names
    <2> QED
        BY <2>1, <2>3, <2>4, <2>5, DrawingGoesOn
<1>3. CASE queue = <<"e">>
    <2>1. Head(queue) = "e" /\ Tail(queue) = << >> /\ "e" \in SampledNames
        BY <1>3, QueuesDiffer DEF SampledNames
    <2>2. PICK c : c = Rest(Rest(ctx, "r1"), "r2")
        OBVIOUS
    <2>3. Drawing("e", c) /\ loc.r1 = R1Of(ctx) /\ loc.r2 = R2Of(ctx)
        BY <1>3, <2>2 DEF DrawingNoise
    <2>4. CASE queue' = queue /\ loc' = loc /\ Drawing("e", c)'
        BY <1>3, <2>2, <2>3, <2>4 DEF DrawingNoise
    <2>5. CASE /\ queue' = << >> /\ loc' = [loc EXCEPT !["e"] = Vector(c, "e")] /\ at' = -1
        <3>1. loc'.e = EOf(ctx) /\ loc'.r1 = R1Of(ctx) /\ loc'.r2 = R2Of(ctx)
            BY <2>2, <2>3, <2>5 DEF EOf, Names
        <3> QED
            BY <2>5, <3>1 DEF DrawingNoise, Names
    <2> QED
        BY <2>1, <2>3, <2>4, <2>5, DrawingGoesOn
<1> QED
    BY <1>1, <1>2, <1>3 DEF DrawingNoise

(* None is no pair of factors, and no damage.                              *)
NoneIsNoPair == \A a, b : None # <<a, b>>

-----------------------------------------------------------------------------
(* hqc_pke_encrypt, of m under theta and the key of h and s                 *)
Encrypting(m, theta, h, s) ==
    LET ctx == NoiseContext(theta)
    IN  /\ loc.m = m
        /\ pc = "encrypt_u" => loc.h = h /\ loc.s = s /\ DrawingNoise(ctx)
        /\ pc # "encrypt_u" => loc.r1 = R1Of(ctx) /\ loc.r2 = R2Of(ctx) /\ loc.e = EOf(ctx)
        /\ pc = "encrypt_mg" => loc.s = s /\ factors = <<R2Of(ctx), h>>
        /\ pc = "encrypt_v" =>
               /\ loc.u2 = EncryptedU(theta, h) /\ loc.tmp = Extended(code_encode(m))
               /\ factors = <<R2Of(ctx), s>>
        /\ pc \in {"enc_end", "dec_end"} =>
               loc.u2 = EncryptedU(theta, h) /\ loc.v2 = EncryptedV(m, theta, s)

(* Its local variables, but for those it computes                          *)
OthersStay == \A name \in Names \ {"r1", "r2", "e", "u2", "tmp", "v2"} : loc'[name] = loc[name]

(* What waits for a product has it.                                        *)
LEMMA ProductIsThere ==
    ASSUME NoneIsNoPair, KemInv, NEW label, Ready(label), NEW a, NEW b, factors = <<a, b>>
    PROVE  product = vect_mul(a, b)
<1>1. product # None
    BY DEF Ready, NoneIsNoPair
<1>2. product = vect_mul(factors[1], factors[2])
    BY <1>1 DEF KemInv, ProductInv
<1>3. factors[1] = a /\ factors[2] = b
    OBVIOUS
<1> QED
    BY <1>2, <1>3

LEMMA EncryptionBegun ==
    ASSUME NEW locals, DOMAIN locals = Names, NEW m, NEW theta, locals.m = m, locals.theta = theta,
           NEW public, NEW return, BeginEncrypt(locals, public, return), at' = -1
    PROVE  /\ Encrypting(m, theta, public_key_from_string(public).h, public_key_from_string(public).s)'
           /\ pc' = "encrypt_u" /\ loc'.to = return /\ DOMAIN loc' = Names
           /\ \A name \in Names \ {"h", "s", "to"} : loc'[name] = locals[name]
<1>1. PICK h, s : h = public_key_from_string(public).h /\ s = public_key_from_string(public).s
    OBVIOUS
<1>2. /\ loc' = [locals EXCEPT !.h = h, !.s = s, !.to = return]
      /\ expander' = seedexpander_init(From(theta, 0, SEED_BYTES))
      /\ queue' = <<"r1", "r2", "e">> /\ pc' = "encrypt_u"
    BY <1>1 DEF BeginEncrypt
<1>3. /\ DOMAIN loc' = Names /\ loc'.h = h /\ loc'.s = s /\ loc'.to = return
      /\ \A name \in Names \ {"h", "s", "to"} : loc'[name] = locals[name]
    BY <1>2 DEF Names
<1>4. expander' = NoiseContext(theta)
    BY <1>2 DEF NoiseContext
<1>5. DrawingNoise(NoiseContext(theta))'
    BY <1>2, <1>4 DEF DrawingNoise, Drawing
<1>6. loc'.m = m
    BY <1>3 DEF Names
<1>7. Encrypting(m, theta, h, s)'
    BY <1>2, <1>3, <1>5, <1>6 DEF Encrypting
<1> QED
    BY <1>1, <1>2, <1>3, <1>7

LEMMA EncryptsU ==
    ASSUME ParametersFit, KemInv, NEW m, NEW theta, NEW h, NEW s, Encrypting(m, theta, h, s), EncryptU
    PROVE  Encrypting(m, theta, h, s)' /\ OthersStay
<1>1. /\ Ready("encrypt_u") /\ Multiply(loc.r2, loc.h) /\ pc' = "encrypt_mg" /\ loc' = loc
      /\ UNCHANGED sampler
    BY DEF EncryptU
<1>2. pc = "encrypt_u" /\ queue = << >>
    BY <1>1, Begun
<1>3. PICK ctx : ctx = NoiseContext(theta)
    OBVIOUS
<1>4. DrawingNoise(ctx) /\ loc.h = h /\ loc.s = s /\ loc.m = m
    BY <1>2, <1>3 DEF Encrypting
<1>5. loc.r1 = R1Of(ctx) /\ loc.r2 = R2Of(ctx) /\ loc.e = EOf(ctx)
    BY <1>2, <1>4, QueuesDiffer DEF DrawingNoise
<1>6. factors' = <<R2Of(ctx), h>>
    BY <1>1, <1>4, <1>5 DEF Multiply
<1> QED
    BY <1>1, <1>3, <1>4, <1>5, <1>6 DEF Encrypting, OthersStay

LEMMA EncryptsMG ==
    ASSUME ParametersFit, NoneIsNoPair, KemInv, NEW m, NEW theta, NEW h, NEW s,
           Encrypting(m, theta, h, s), EncryptMG
    PROVE  Encrypting(m, theta, h, s)' /\ OthersStay
<1>1. /\ Ready("encrypt_mg") /\ Multiply(loc.r2, loc.s) /\ pc' = "encrypt_v"
      /\ loc' = [loc EXCEPT !.u2 = vect_add(loc.r1, product, VEC_N_SIZE_64),
                            !.tmp = Extended(code_encode(loc.m))]
      /\ UNCHANGED sampler
    BY DEF EncryptMG, Extended
<1>2. pc = "encrypt_mg" /\ DOMAIN loc = Names
    BY <1>1, Begun DEF LocalsInv
<1>3. PICK ctx : ctx = NoiseContext(theta)
    OBVIOUS
<1>4. /\ loc.r1 = R1Of(ctx) /\ loc.r2 = R2Of(ctx) /\ loc.e = EOf(ctx) /\ loc.s = s /\ loc.m = m
      /\ factors = <<R2Of(ctx), h>>
    BY <1>2, <1>3 DEF Encrypting
<1>5. product = vect_mul(R2Of(ctx), h)
    BY <1>1, <1>4, ProductIsThere
<1>6. vect_add(loc.r1, product, VEC_N_SIZE_64) = EncryptedU(theta, h)
    BY <1>3, <1>4, <1>5 DEF EncryptedU
<1>7. /\ loc'.u2 = EncryptedU(theta, h) /\ loc'.tmp = Extended(code_encode(m))
      /\ \A name \in Names \ {"u2", "tmp"} : loc'[name] = loc[name]
    BY <1>1, <1>2, <1>4, <1>6 DEF Names
<1>8. factors' = <<R2Of(ctx), s>>
    BY <1>1, <1>4 DEF Multiply
<1>9. loc'.m = m /\ loc'.r1 = R1Of(ctx) /\ loc'.r2 = R2Of(ctx) /\ loc'.e = EOf(ctx)
    BY <1>4, <1>7 DEF Names
<1> QED
    BY <1>1, <1>3, <1>7, <1>8, <1>9 DEF Encrypting, OthersStay

LEMMA EncryptsV ==
    ASSUME ParametersFit, NoneIsNoPair, KemInv, NEW m, NEW theta, NEW h, NEW s,
           Encrypting(m, theta, h, s), EncryptV
    PROVE  Encrypting(m, theta, h, s)' /\ OthersStay
<1>1. /\ Ready("encrypt_v") /\ pc' = loc.to
      /\ loc' = [loc EXCEPT !.v2 =
             Shortened(code_encode(loc.m), vect_add(vect_add(loc.e, product, VEC_N_SIZE_64), loc.tmp, VEC_N_SIZE_64))]
      /\ UNCHANGED sampler
    BY DEF EncryptV, Shortened
<1>2. pc = "encrypt_v" /\ DOMAIN loc = Names /\ loc.to \in {"enc_end", "dec_end"}
    BY <1>1, Begun DEF LocalsInv
<1>3. PICK ctx : ctx = NoiseContext(theta)
    OBVIOUS
<1>4. /\ loc.r1 = R1Of(ctx) /\ loc.r2 = R2Of(ctx) /\ loc.e = EOf(ctx) /\ loc.m = m
      /\ loc.u2 = EncryptedU(theta, h) /\ loc.tmp = Extended(code_encode(m))
      /\ factors = <<R2Of(ctx), s>>
    BY <1>2, <1>3 DEF Encrypting
<1>5. product = vect_mul(R2Of(ctx), s)
    BY <1>1, <1>4, ProductIsThere
<1>6. Shortened(code_encode(loc.m), vect_add(vect_add(loc.e, product, VEC_N_SIZE_64), loc.tmp, VEC_N_SIZE_64))
          = EncryptedV(m, theta, s)
    BY <1>3, <1>4, <1>5 DEF EncryptedV
<1>7. loc'.v2 = EncryptedV(m, theta, s) /\ \A name \in Names \ {"v2"} : loc'[name] = loc[name]
    BY <1>1, <1>2, <1>6 DEF Names
<1>8. /\ loc'.m = m /\ loc'.r1 = R1Of(ctx) /\ loc'.r2 = R2Of(ctx) /\ loc'.e = EOf(ctx)
      /\ loc'.u2 = EncryptedU(theta, h)
    BY <1>4, <1>7 DEF Names
<1>9. pc' \in {"enc_end", "dec_end"}
    BY <1>1, <1>2
<1> QED
    BY <1>3, <1>7, <1>8, <1>9 DEF Encrypting, OthersStay

(* Sampling and multiplying are part of it.                                *)
LEMMA EncryptionSamples ==
    ASSUME ParametersFit, ShakeGivesBytes, KemInv, NEW m, NEW theta, NEW h, NEW s,
           Encrypting(m, theta, h, s), pc = "encrypt_u", Draw \/ Settle \/ Collect
    PROVE  /\ Encrypting(m, theta, h, s)' /\ DOMAIN loc' = Names
           /\ \A name \in Names \ {"r1", "r2", "e"} : loc'[name] = loc[name]
<1>1. queue # << >>
    BY DEF KemInv, SamplerInv, Draw, Settle, Collect, FW!Settle, FW!Collect
<1>2. pc' = pc
    BY DEF Draw, Settle, Collect
<1>3. PICK ctx : ctx = NoiseContext(theta)
    OBVIOUS
<1>4. DrawingNoise(ctx) /\ loc.m = m /\ loc.h = h /\ loc.s = s /\ DOMAIN loc = Names
    BY <1>3 DEF Encrypting, KemInv, LocalsInv
<1>5. /\ DrawingNoise(ctx)' /\ DOMAIN loc' = Names
      /\ \A name \in Names \ {"r1", "r2", "e"} : loc'[name] = loc[name]
    BY <1>1, <1>4, NoiseDrawn
<1>6. loc'.m = m /\ loc'.h = h /\ loc'.s = s
    BY <1>4, <1>5 DEF Names
<1> QED
    BY <1>2, <1>3, <1>5, <1>6 DEF Encrypting

-----------------------------------------------------------------------------
(* A session that began with the generator p, its ciphertext damaged as d    *)
(* says, wherever it is                                                    *)

(* The buffers are long enough.                                            *)
Room ==
    \E a, b, c \in Nat :
        /\ DOMAIN pk = 1..a /\ DOMAIN sk = 1..b /\ DOMAIN ct = 1..c
        /\ PUBLIC_KEY_BYTES <= a /\ SECRET_KEY_BYTES <= b /\ CIPHERTEXT_BYTES <= c

(* hqc_pke_keygen                                                          *)
KeySeeds(p) ==
    /\ loc.sk_seed = SkSeed(p) /\ loc.sigma = SigmaOf(p) /\ loc.pk_seed = PkSeed(p)
    /\ prng = AfterKeygen(p)

KeyFactors(p) == loc.x = XOf(KeyContext(p)) /\ factors = <<YOf(KeyContext(p)), HOf(p)>>

KeysWritten(p) ==
    From(pk, 0, PUBLIC_KEY_BYTES) = PublicOf(p) /\ From(sk, 0, SECRET_KEY_BYTES) = SecretOf(p)

(* crypto_kem_enc                                                          *)
Encrypts(to) ==
    \/ pc = to
    \/ pc \in {"encrypt_u", "encrypt_mg", "encrypt_v"} /\ loc.to = to

Encapsulating(p) ==
    /\ loc.salt = SaltOf(p)
    /\ Encrypting(MessageOf(p), ThetaOf(p), public_key_from_string(PublicOf(p)).h,
                  public_key_from_string(PublicOf(p)).s)

(* What has been sent, and what it has become                              *)
SentBy(p, d) ==
    LET ctx == NoiseContext(ThetaOf(p))
    IN  /\ From(ct, 0, CIPHERTEXT_BYTES) = ReceivedOf(p, d) /\ key_enc = KeyEncOf(p)
        /\ sent.m = MessageOf(p)
        /\ sent.r1 = R1Of(ctx) /\ sent.r2 = R2Of(ctx) /\ sent.e = EOf(ctx)

(* crypto_kem_dec                                                          *)
Unpacked(p, d) ==
    /\ loc.u = Cipher(p, d).u /\ loc.v = Cipher(p, d).v /\ loc.salt = Cipher(p, d).salt
    /\ loc.sigma = Opened(p).sigma

SecretVectors(p) == loc.x = XOf(Opened(p).ctx) /\ loc.y = YOf(Opened(p).ctx)

DecryptFactors(p, d) ==
    /\ loc.tmp = Extended(Cipher(p, d).v)
    /\ factors = <<YOf(Opened(p).ctx), Cipher(p, d).u>>

Decapsulating(p, d) ==
    /\ Unpacked(p, d) /\ SecretVectors(p)
    /\ pc = "encrypt_u" => loc.tmp = WordOf(p, d)
    /\ Encrypting(DecodedOf(p, d), ThetaAgain(p, d), public_key_from_string(Opened(p).pk).h,
                  public_key_from_string(Opened(p).pk).s)

Decided(p, d) == key_dec = KeyDecOf(p, d) /\ ret = ReturnedOf(p, d)

Story(p, d) ==
    /\ damage = d /\ Room
    /\ (pc \in {"keypair", "keygen_h", "keygen_s", "enc"} \/ Encrypts("enc_end")) => d = None
    /\ pc \notin {"keypair", "keygen_h", "keygen_s"} => KeysWritten(p)
    /\ (pc \in {"dec", "decrypt", "decrypt_m", "print"} \/ Encrypts("dec_end")) => SentBy(p, d)
    /\ pc = "keypair" => prng = p
    /\ pc = "keygen_h" => KeySeeds(p) /\ DrawingKey(KeyContext(p))
    /\ pc = "keygen_s" => KeySeeds(p) /\ KeyFactors(p)
    /\ pc = "enc" => prng = AfterKeygen(p)
    /\ Encrypts("enc_end") => Encapsulating(p)
    /\ pc = "decrypt" => Unpacked(p, d) /\ DrawingKey(Opened(p).ctx)
    /\ pc = "decrypt_m" => Unpacked(p, d) /\ SecretVectors(p) /\ DecryptFactors(p, d)
    /\ Encrypts("dec_end") => Decapsulating(p, d)
    /\ pc = "print" => SecretVectors(p) /\ Decided(p, d)

-----------------------------------------------------------------------------
(* No step changes the lengths of the buffers.                             *)
LEMMA LengthsStay ==
    ASSUME KemNext
    PROVE  DOMAIN pk' = DOMAIN pk /\ DOMAIN sk' = DOMAIN sk /\ DOMAIN ct' = DOMAIN ct
<1>1. ASSUME NEW b, NEW s PROVE DOMAIN Into(b, s) = DOMAIN b
    BY DEF Into
<1>2. CASE Draw \/ Settle \/ Collect \/ VectMul
    BY <1>2 DEF Draw, Settle, Collect, VectMul, buffers
<1>3. CASE KeygenSeeds \/ KeygenH \/ EncryptU \/ EncryptMG \/ EncryptV \/ EncBegin
    BY <1>3 DEF KeygenSeeds, KeygenH, EncryptU, EncryptMG, EncryptV, EncBegin, buffers
<1>4. CASE DecBegin \/ Decrypt \/ DecryptM \/ DecEnd
    BY <1>4 DEF DecBegin, Decrypt, DecryptM, DecEnd, buffers
<1>5. CASE KeygenS
    BY <1>1, <1>5 DEF KeygenS
<1>6. CASE EncEnd
    BY <1>1, <1>6 DEF EncEnd
<1>7. ASSUME NEW byte, NEW bit, Damage(byte, bit)
      PROVE  DOMAIN pk' = DOMAIN pk /\ DOMAIN sk' = DOMAIN sk /\ DOMAIN ct' = DOMAIN ct
    BY <1>7 DEF Damage
<1> QED
    BY <1>2, <1>3, <1>4, <1>5, <1>6, <1>7 DEF KemNext

LEMMA RoomStays ==
    ASSUME KemNext, Room
    PROVE  Room'
BY LengthsStay DEF Room

(* The labels are different, and so are the two callers of the encryption.   *)
LEMMA KeygenSeedsTells ==
    ASSUME ParametersFit, KemInv, NEW p, NEW d, Story(p, d), KeygenSeeds
    PROVE  Story(p, d)'
<1>1. /\ Ready("keypair") /\ UNCHANGED sampler /\ pc' = "keygen_h" /\ queue' = <<"x", "y">>
      /\ UNCHANGED <<damage, pk, sk, ct>>
      /\ loc' = [Locals EXCEPT !.sk_seed = seedexpander(prng, SEED_BYTES),
                               !.sigma = seedexpander(after(prng, SEED_BYTES), VEC_K_SIZE_BYTES),
                               !.pk_seed = seedexpander(after(after(prng, SEED_BYTES), VEC_K_SIZE_BYTES),
                                                        SEED_BYTES)]
      /\ prng' = after(after(after(prng, SEED_BYTES), VEC_K_SIZE_BYTES), SEED_BYTES)
      /\ expander' = seedexpander_init(seedexpander(prng, SEED_BYTES))
    BY DEF KeygenSeeds, buffers
<1>2. pc = "keypair" /\ at' = -1
    BY <1>1, Begun DEF KemInv, SamplerInv, sampler
<1>3. prng = p /\ d = None /\ damage = d /\ Room'
    BY <1>2, RoomStays DEF Story, KemNext
<1>4. loc' = [Locals EXCEPT !.sk_seed = SkSeed(p), !.sigma = SigmaOf(p), !.pk_seed = PkSeed(p)]
    BY <1>1, <1>3 DEF SkSeed, SigmaOf, PkSeed
<1>5. KeySeeds(p)'
    BY <1>1, <1>3, <1>4, LocalsAre DEF KeySeeds, Names, AfterKeygen
<1>6. expander' = KeyContext(p)
    BY <1>1, <1>3 DEF KeyContext, SkSeed
<1>7. DrawingKey(KeyContext(p))'
    BY <1>1, <1>2, <1>6 DEF DrawingKey, Drawing
<1> QED
    BY <1>1, <1>3, <1>5, <1>7 DEF Story, Encrypts

LEMMA KeygenHTells ==
    ASSUME ParametersFit, KemInv, NEW p, NEW d, Story(p, d), KeygenH
    PROVE  Story(p, d)'
<1>1. PICK h : h = vect_set_random(seedexpander_init(loc.pk_seed))
    OBVIOUS
<1>2. /\ Ready("keygen_h") /\ UNCHANGED sampler /\ pc' = "keygen_s"
      /\ UNCHANGED <<queue, prng, damage, pk, sk, ct>>
      /\ loc' = [loc EXCEPT !.h = h] /\ Multiply(loc.y, h)
    BY <1>1 DEF KeygenH, buffers
<1>3. pc = "keygen_h" /\ queue = << >> /\ DOMAIN loc = Names
    BY <1>2, Begun DEF LocalsInv
<1>4. KeySeeds(p) /\ DrawingKey(KeyContext(p)) /\ d = None /\ damage = d /\ Room'
    BY <1>3, RoomStays DEF Story, KemNext
<1>5. loc.x = XOf(KeyContext(p)) /\ loc.y = YOf(KeyContext(p))
    BY <1>3, <1>4, QueuesDiffer DEF DrawingKey
<1>6. h = HOf(p)
    BY <1>1, <1>4 DEF KeySeeds, HOf
<1>7. /\ loc'.x = loc.x /\ loc'.sk_seed = loc.sk_seed /\ loc'.sigma = loc.sigma
      /\ loc'.pk_seed = loc.pk_seed
    BY <1>2, <1>3 DEF Names
<1>8. KeySeeds(p)'
    BY <1>2, <1>4, <1>7 DEF KeySeeds
<1>9. KeyFactors(p)'
    BY <1>2, <1>5, <1>6, <1>7 DEF KeyFactors, Multiply
<1> QED
    BY <1>2, <1>4, <1>8, <1>9 DEF Story, Encrypts

LEMMA KeygenSTells ==
    ASSUME ParametersFit, ShakeGivesBytes, NoneIsNoPair, KemInv, NEW p, NEW d, Story(p, d), KeygenS
    PROVE  Story(p, d)'
<1>1. PICK s, public : s = vect_add(loc.x, product, VEC_N_SIZE_64) /\ public = public_key_to_string(loc.pk_seed, s)
    OBVIOUS
<1>2. /\ Ready("keygen_s") /\ UNCHANGED sampler /\ pc' = "enc"
      /\ UNCHANGED <<queue, prng, damage, ct>>
      /\ pk' = Into(pk, public)
      /\ sk' = Into(sk, secret_key_to_string(loc.sk_seed, loc.sigma, public))
    BY <1>1 DEF KeygenS
<1>3. pc = "keygen_s"
    BY <1>2, Begun
<1>4. KeySeeds(p) /\ KeyFactors(p) /\ d = None /\ damage = d /\ Room /\ Room'
    BY <1>3, RoomStays DEF Story, KemNext
<1>5. product = vect_mul(YOf(KeyContext(p)), HOf(p))
    BY <1>2, <1>4, ProductIsThere DEF KeyFactors
<1>6. s = SOf(p)
    BY <1>1, <1>4, <1>5 DEF KeyFactors, SOf
<1>7. public = PublicOf(p) /\ secret_key_to_string(loc.sk_seed, loc.sigma, public) = SecretOf(p)
    BY <1>1, <1>4, <1>6 DEF KeySeeds, PublicOf, SecretOf
<1>8. KeysWritten(p)'
    <2>1. PICK a \in Nat, b \in Nat, c \in Nat :
              /\ DOMAIN pk = 1..a /\ DOMAIN sk = 1..b /\ DOMAIN ct = 1..c
              /\ PUBLIC_KEY_BYTES <= a /\ SECRET_KEY_BYTES <= b /\ CIPHERTEXT_BYTES <= c
        BY <1>4 DEF Room
    <2>2. IsString(PublicOf(p), PUBLIC_KEY_BYTES) /\ IsString(SecretOf(p), SECRET_KEY_BYTES)
        BY KeyStrings
    <2>3. From(Into(pk, PublicOf(p)), 0, PUBLIC_KEY_BYTES) = PublicOf(p)
        BY <2>1, <2>2, StringSizes, IntoIs
    <2>4. From(Into(sk, SecretOf(p)), 0, SECRET_KEY_BYTES) = SecretOf(p)
        BY <2>1, <2>2, StringSizes, IntoIs
    <2> QED
        BY <1>2, <1>7, <2>3, <2>4 DEF KeysWritten
<1>9. prng' = AfterKeygen(p)
    BY <1>2, <1>4 DEF KeySeeds
<1> QED
    BY <1>2, <1>4, <1>8, <1>9 DEF Story, Encrypts

LEMMA EncBeginTells ==
    ASSUME ParametersFit, KemInv, NEW p, NEW d, Story(p, d), EncBegin
    PROVE  Story(p, d)'
<1>1. PICK m, salt, public, theta :
          /\ m = seedexpander(prng, VEC_K_SIZE_BYTES)
          /\ salt = seedexpander(after(prng, VEC_K_SIZE_BYTES), SALT_SIZE_BYTES)
          /\ public = From(pk, 0, PUBLIC_KEY_BYTES)
          /\ theta = Theta(m, public, salt)
    OBVIOUS
<1>2. PICK locals : locals = [loc EXCEPT !.m = m, !.salt = salt, !.theta = theta]
    OBVIOUS
<1>3. /\ Ready("enc") /\ UNCHANGED sampler /\ UNCHANGED <<damage, pk, sk, ct>>
      /\ BeginEncrypt(locals, public, "enc_end")
    BY <1>1, <1>2 DEF EncBegin, buffers
<1>4. pc = "enc" /\ DOMAIN loc = Names /\ at' = -1
    BY <1>3, Begun DEF LocalsInv, KemInv, SamplerInv, sampler
<1>5. prng = AfterKeygen(p) /\ KeysWritten(p) /\ d = None /\ damage = d /\ Room'
    BY <1>4, RoomStays DEF Story, KemNext
<1>6. m = MessageOf(p) /\ salt = SaltOf(p) /\ public = PublicOf(p) /\ theta = ThetaOf(p)
    BY <1>1, <1>5 DEF MessageOf, SaltOf, ThetaOf, KeysWritten
<1>7. DOMAIN locals = Names /\ locals.m = m /\ locals.salt = salt /\ locals.theta = theta
    BY <1>2, <1>4 DEF Names
<1>8. /\ Encrypting(m, theta, public_key_from_string(public).h, public_key_from_string(public).s)'
      /\ pc' = "encrypt_u" /\ loc'.to = "enc_end"
      /\ \A name \in Names \ {"h", "s", "to"} : loc'[name] = locals[name]
    BY <1>3, <1>4, <1>7, EncryptionBegun
<1>9. loc'.salt = salt
    BY <1>7, <1>8 DEF Names
<1>10. Encapsulating(p)'
    BY <1>6, <1>8, <1>9 DEF Encapsulating
<1>11. KeysWritten(p)'
    BY <1>3, <1>5 DEF KeysWritten
<1> QED
    BY <1>3, <1>5, <1>8, <1>10, <1>11 DEF Story, Encrypts

LEMMA EncryptTells ==
    ASSUME ParametersFit, NoneIsNoPair, KemInv, NEW p, NEW d, Story(p, d),
           EncryptU \/ EncryptMG \/ EncryptV
    PROVE  Story(p, d)'
<1>1. /\ pc \in {"encrypt_u", "encrypt_mg", "encrypt_v"}
      /\ pc' \in {"encrypt_mg", "encrypt_v"} \/ pc' = loc.to
      /\ UNCHANGED <<prng, buffers, ret, sent, damage>>
    BY DEF EncryptU, EncryptMG, EncryptV, Ready
<1>2. UNCHANGED <<ct, key_enc, key_dec, pk, sk, ret, sent, damage>>
    BY <1>1 DEF buffers
<1>3. loc.to \in {"enc_end", "dec_end"}
    BY <1>1 DEF KemInv, LocalsInv
<1>4. damage = d /\ Room' /\ KeysWritten(p)
    BY <1>1, RoomStays DEF Story, KemNext
<1>5. KeysWritten(p)'
    BY <1>2, <1>4 DEF KeysWritten
<1>6. ASSUME NEW m, NEW theta, NEW h, NEW s, Encrypting(m, theta, h, s)
      PROVE  Encrypting(m, theta, h, s)' /\ OthersStay
    BY <1>6, EncryptsU, EncryptsMG, EncryptsV
<1>7. CASE loc.to = "enc_end"
    <2>1. Encrypts("enc_end")
        BY <1>1, <1>7 DEF Encrypts
    <2>2. Encapsulating(p) /\ d = None
        BY <2>1 DEF Story
    <2>3. PICK m, theta, h, s :
              /\ m = MessageOf(p) /\ theta = ThetaOf(p) /\ h = public_key_from_string(PublicOf(p)).h
              /\ s = public_key_from_string(PublicOf(p)).s
        OBVIOUS
    <2>4. Encrypting(m, theta, h, s) /\ loc.salt = SaltOf(p)
        BY <2>2, <2>3 DEF Encapsulating
    <2>5. Encrypting(m, theta, h, s)' /\ OthersStay
        BY <1>6, <2>4
    <2>6. loc'.salt = loc.salt /\ loc'.to = "enc_end"
        BY <1>7, <2>5 DEF OthersStay, Names
    <2>7. Encapsulating(p)'
        BY <2>3, <2>4, <2>5, <2>6 DEF Encapsulating
    <2>8. pc' \in {"encrypt_mg", "encrypt_v", "enc_end"}
        BY <1>1, <1>7
    <2> QED
        BY <1>2, <1>4, <1>5, <2>2, <2>6, <2>7, <2>8 DEF Story, Encrypts
<1>8. CASE loc.to = "dec_end"
    <2>1. Encrypts("dec_end")
        BY <1>1, <1>8 DEF Encrypts
    <2>2. Decapsulating(p, d) /\ SentBy(p, d)
        BY <2>1 DEF Story
    <2>3. PICK m, theta, h, s :
              /\ m = DecodedOf(p, d) /\ theta = ThetaAgain(p, d)
              /\ h = public_key_from_string(Opened(p).pk).h
              /\ s = public_key_from_string(Opened(p).pk).s
        OBVIOUS
    <2>4. Encrypting(m, theta, h, s) /\ Unpacked(p, d) /\ SecretVectors(p)
        BY <2>2, <2>3 DEF Decapsulating
    <2>5. Encrypting(m, theta, h, s)' /\ OthersStay
        BY <1>6, <2>4
    <2>6. /\ loc'.to = "dec_end" /\ loc'.u = loc.u /\ loc'.v = loc.v /\ loc'.salt = loc.salt
          /\ loc'.sigma = loc.sigma /\ loc'.x = loc.x /\ loc'.y = loc.y
        BY <1>8, <2>5 DEF OthersStay, Names
    <2>7. pc' \in {"encrypt_mg", "encrypt_v", "dec_end"}
        BY <1>1, <1>8
    <2>8. Unpacked(p, d)' /\ SecretVectors(p)'
        BY <2>4, <2>6 DEF Unpacked, SecretVectors
    <2>9. Decapsulating(p, d)'
        BY <2>3, <2>5, <2>7, <2>8 DEF Decapsulating
    <2>10. SentBy(p, d)'
        BY <1>2, <2>2 DEF SentBy
    <2> QED
        BY <1>2, <1>4, <1>5, <2>6, <2>7, <2>9, <2>10 DEF Story, Encrypts
<1> QED
    BY <1>3, <1>7, <1>8

LEMMA EncEndTells ==
    ASSUME ParametersFit, ShakeGivesBytes, KemInv, NEW p, NEW d, Story(p, d), EncEnd
    PROVE  Story(p, d)'
<1>1. /\ Ready("enc_end") /\ UNCHANGED sampler /\ pc' = "dec"
      /\ UNCHANGED <<pk, sk, damage>> /\ sent' = loc
      /\ key_enc' = Into(key_enc, SharedSecret(loc.m, loc.u2, loc.v2))
      /\ ct' = Into(ct, ciphertext_to_string(loc.u2, loc.v2, loc.salt))
    BY DEF EncEnd, working
<1>2. pc = "enc_end" /\ DOMAIN key_enc = 1..SHAKE256_512_BYTES
    BY <1>1, Begun DEF SecretsInv
<1>3. Encapsulating(p) /\ d = None /\ damage = d /\ Room /\ Room' /\ KeysWritten(p)
    <2>1. Encrypts("enc_end")
        BY <1>2 DEF Encrypts
    <2>2. Room /\ KemNext
        BY DEF Story, KemNext
    <2>3. Room'
        BY <2>2, RoomStays
    <2> QED
        BY <1>2, <2>1, <2>2, <2>3 DEF Story
<1>4. PICK ctx : ctx = NoiseContext(ThetaOf(p))
    OBVIOUS
<1>5. /\ loc.m = MessageOf(p) /\ loc.salt = SaltOf(p) /\ loc.u2 = UOf(p) /\ loc.v2 = VOf(p)
      /\ loc.r1 = R1Of(ctx) /\ loc.r2 = R2Of(ctx) /\ loc.e = EOf(ctx)
    BY <1>2, <1>3, <1>4 DEF Encapsulating, Encrypting, UOf, VOf
<1>6. key_enc' = KeyEncOf(p)
    <2>1. IsString(KeyEncOf(p), SHAKE256_512_BYTES)
        BY DEF KeyEncOf, SharedSecret, shake256_512_ds, IsString
    <2>2. Into(key_enc, KeyEncOf(p)) = KeyEncOf(p)
        <3>1. PICK n \in Nat : n = SHAKE256_512_BYTES
            BY StringSizes
        <3>2. n <= n /\ DOMAIN key_enc = 1..n /\ IsString(KeyEncOf(p), n)
            BY <1>2, <2>1, <3>1
        <3> QED
            BY <3>2, IntoIs
    <2> QED
        BY <1>1, <1>5, <2>2 DEF KeyEncOf
<1>7. From(ct', 0, CIPHERTEXT_BYTES) = ReceivedOf(p, d)
    <2>1. PICK a \in Nat, b \in Nat, c \in Nat :
              /\ DOMAIN pk = 1..a /\ DOMAIN sk = 1..b /\ DOMAIN ct = 1..c
              /\ PUBLIC_KEY_BYTES <= a /\ SECRET_KEY_BYTES <= b /\ CIPHERTEXT_BYTES <= c
        BY <1>3 DEF Room
    <2>2. IsString(SentOf(p), CIPHERTEXT_BYTES)
        BY CipherStrings
    <2>3. From(Into(ct, SentOf(p)), 0, CIPHERTEXT_BYTES) = SentOf(p)
        BY <2>1, <2>2, StringSizes, IntoIs
    <2>4. ct' = Into(ct, SentOf(p))
        BY <1>1, <1>5 DEF SentOf
    <2> QED
        BY <1>3, <2>3, <2>4 DEF ReceivedOf
<1>8. SentBy(p, d)'
    BY <1>1, <1>4, <1>5, <1>6, <1>7 DEF SentBy
<1>9. KeysWritten(p)'
    BY <1>1, <1>3 DEF KeysWritten
<1> QED
    BY <1>1, <1>3, <1>8, <1>9 DEF Story, Encrypts

(* One bit of the ciphertext changes.                                      *)
LEMMA DamageTells ==
    ASSUME ParametersFit, ShakeGivesBytes, NoneIsNoPair, KemInv, NEW p, NEW d, Story(p, d),
           NEW byte, NEW bit, Damage(byte, bit)
    PROVE  Story(p, <<byte, bit>>)'
<1>1. /\ Ready("dec") /\ damage = None /\ damage' = <<byte, bit>> /\ pc' = pc
      /\ UNCHANGED <<pk, sk, sent, key_enc>>
      /\ ct' = [ct EXCEPT ![byte + 1] = Flipped(ct[byte + 1], bit)]
    BY DEF Damage, Flipped
<1>2. pc = "dec" /\ d = None /\ Room /\ Room' /\ KeysWritten(p) /\ SentBy(p, None)
    <2>1. pc = "dec" /\ d = None /\ Room'
        BY <1>1, RoomStays DEF Ready, Story, KemNext
    <2> QED
        BY <2>1 DEF Story
<1>3. PICK n \in Nat : n = CIPHERTEXT_BYTES
    BY StringSizes
<1>4. PICK c \in Nat : DOMAIN ct = 1..c /\ n <= c
    BY <1>2, <1>3 DEF Room
<1>5. \A k \in 1..n : ct[k] = SentOf(p)[k]
    <2>1. From(ct, 0, n) = SentOf(p)
        BY <1>2, <1>3 DEF SentBy, ReceivedOf
    <2> QED
        BY <1>3, <2>1, FromAt
<1>6. PICK t : t = ReceivedOf(p, <<byte, bit>>)
    OBVIOUS
<1>7. t = [k \in 1..n |-> IF k = byte + 1 THEN Flipped(SentOf(p)[k], bit) ELSE SentOf(p)[k]]
    <2>1. <<byte, bit>> # None
        BY DEF NoneIsNoPair
    <2>2. <<byte, bit>>[1] = byte /\ <<byte, bit>>[2] = bit
        OBVIOUS
    <2> QED
        BY <1>3, <1>6, <2>1, <2>2 DEF ReceivedOf
<1>8. IsString(t, n) /\ \A k \in 1..n : ct'[k] = t[k]
    <2>1. ASSUME NEW k \in 1..n PROVE ct'[k] = t[k]
        <3>1. k \in DOMAIN ct
            BY <1>4
        <3>2. ct'[k] = IF k = byte + 1 THEN Flipped(ct[byte + 1], bit) ELSE ct[k]
            BY <1>1, <3>1
        <3> QED
            BY <1>5, <1>7, <3>2
    <2> QED
        BY <1>7, <2>1 DEF IsString
<1>9. From(ct', 0, n) = t
    BY <1>8, CutFirst
<1>10. SentBy(p, <<byte, bit>>)'
    BY <1>1, <1>2, <1>3, <1>6, <1>9 DEF SentBy
<1>11. KeysWritten(p)'
    BY <1>1, <1>2 DEF KeysWritten
<1> QED
    BY <1>1, <1>2, <1>10, <1>11 DEF Story, Encrypts

LEMMA DecBeginTells ==
    ASSUME ParametersFit, KemInv, NEW p, NEW d, Story(p, d), DecBegin
    PROVE  Story(p, d)'
<1>1. PICK c, o : c = ciphertext_from_string(From(ct, 0, CIPHERTEXT_BYTES))
                  /\ o = secret_key_from_string(From(sk, 0, SECRET_KEY_BYTES))
    OBVIOUS
<1>2. /\ Ready("dec") /\ UNCHANGED sampler /\ pc' = "decrypt" /\ queue' = <<"x", "y">>
      /\ loc' = [Locals EXCEPT !.u = c.u, !.v = c.v, !.salt = c.salt, !.sigma = o.sigma]
      /\ expander' = o.ctx
      /\ UNCHANGED <<pk, sk, ct, key_enc, sent, damage>>
    BY <1>1 DEF DecBegin, buffers
<1>3. pc = "dec" /\ at' = -1
    BY <1>2, Begun DEF KemInv, SamplerInv, sampler
<1>4. SentBy(p, d) /\ KeysWritten(p) /\ damage = d /\ Room'
    BY <1>3, RoomStays DEF Story, KemNext
<1>5. c = Cipher(p, d) /\ o = Opened(p)
    BY <1>1, <1>4 DEF SentBy, KeysWritten, Cipher, Opened
<1>6. Unpacked(p, d)'
    BY <1>2, <1>5, LocalsAre DEF Unpacked, Names
<1>7. DrawingKey(Opened(p).ctx)'
    BY <1>2, <1>3, <1>5 DEF DrawingKey, Drawing
<1>8. KeysWritten(p)' /\ SentBy(p, d)'
    BY <1>2, <1>4 DEF KeysWritten, SentBy
<1> QED
    BY <1>2, <1>4, <1>6, <1>7, <1>8 DEF Story, Encrypts

LEMMA DecryptTells ==
    ASSUME ParametersFit, KemInv, NEW p, NEW d, Story(p, d), Decrypt
    PROVE  Story(p, d)'
<1>1. /\ Ready("decrypt") /\ UNCHANGED sampler /\ pc' = "decrypt_m" /\ Multiply(loc.y, loc.u)
      /\ loc' = [loc EXCEPT !.tmp = Extended(loc.v)]
      /\ UNCHANGED <<pk, sk, ct, key_enc, sent, damage>>
    BY DEF Decrypt, Extended, buffers
<1>2. pc = "decrypt" /\ queue = << >> /\ DOMAIN loc = Names
    BY <1>1, Begun DEF LocalsInv
<1>3. /\ Unpacked(p, d) /\ DrawingKey(Opened(p).ctx) /\ SentBy(p, d) /\ KeysWritten(p)
      /\ damage = d /\ Room'
    BY <1>2, RoomStays DEF Story, KemNext
<1>4. SecretVectors(p)
    BY <1>2, <1>3, QueuesDiffer DEF DrawingKey, SecretVectors
<1>5. /\ loc'.tmp = Extended(loc.v) /\ loc'.u = loc.u /\ loc'.v = loc.v /\ loc'.salt = loc.salt
      /\ loc'.sigma = loc.sigma /\ loc'.x = loc.x /\ loc'.y = loc.y
    BY <1>1, <1>2 DEF Names
<1>6. Unpacked(p, d)' /\ SecretVectors(p)'
    BY <1>3, <1>4, <1>5 DEF Unpacked, SecretVectors
<1>7. DecryptFactors(p, d)'
    BY <1>1, <1>3, <1>4, <1>5 DEF DecryptFactors, Unpacked, SecretVectors, Multiply
<1>8. KeysWritten(p)' /\ SentBy(p, d)'
    BY <1>1, <1>3 DEF KeysWritten, SentBy
<1> QED
    BY <1>1, <1>3, <1>6, <1>7, <1>8 DEF Story, Encrypts

LEMMA DecryptMTells ==
    ASSUME ParametersFit, NoneIsNoPair, KemInv, NEW p, NEW d, Story(p, d), DecryptM
    PROVE  Story(p, d)'
<1>1. PICK word, m, public, theta :
          /\ word = vect_add(loc.tmp, product, VEC_N_SIZE_64) /\ m = code_decode(word)
          /\ public = secret_key_from_string(From(sk, 0, SECRET_KEY_BYTES)).pk
          /\ theta = Theta(m, public, loc.salt)
    OBVIOUS
<1>2. PICK locals : locals = [loc EXCEPT !.m = m, !.tmp = word, !.theta = theta]
    OBVIOUS
<1>3. /\ Ready("decrypt_m") /\ UNCHANGED sampler /\ UNCHANGED <<pk, sk, ct, key_enc, sent, damage>>
      /\ BeginEncrypt(locals, public, "dec_end")
    BY <1>1, <1>2 DEF DecryptM, buffers
<1>4. pc = "decrypt_m" /\ DOMAIN loc = Names /\ at' = -1
    BY <1>3, Begun DEF LocalsInv, KemInv, SamplerInv, sampler
<1>5. /\ Unpacked(p, d) /\ SecretVectors(p) /\ DecryptFactors(p, d) /\ SentBy(p, d) /\ KeysWritten(p)
      /\ damage = d /\ Room'
    BY <1>4, RoomStays DEF Story, KemNext
<1>6. product = vect_mul(YOf(Opened(p).ctx), Cipher(p, d).u)
    BY <1>3, <1>5, ProductIsThere DEF DecryptFactors
<1>7. word = WordOf(p, d)
    BY <1>1, <1>5, <1>6 DEF WordOf, DecryptFactors
<1>8. m = DecodedOf(p, d) /\ public = Opened(p).pk /\ theta = ThetaAgain(p, d)
    BY <1>1, <1>5, <1>7 DEF DecodedOf, Opened, ThetaAgain, KeysWritten, Unpacked
<1>9. /\ DOMAIN locals = Names /\ locals.m = m /\ locals.theta = theta /\ locals.tmp = word
      /\ locals.u = loc.u /\ locals.v = loc.v /\ locals.salt = loc.salt
      /\ locals.sigma = loc.sigma /\ locals.x = loc.x /\ locals.y = loc.y
    BY <1>2, <1>4 DEF Names
<1>10. /\ Encrypting(m, theta, public_key_from_string(public).h, public_key_from_string(public).s)'
       /\ pc' = "encrypt_u" /\ loc'.to = "dec_end"
       /\ \A name \in Names \ {"h", "s", "to"} : loc'[name] = locals[name]
    BY <1>3, <1>4, <1>9, EncryptionBegun
<1>11. /\ loc'.u = loc.u /\ loc'.v = loc.v /\ loc'.salt = loc.salt /\ loc'.sigma = loc.sigma
       /\ loc'.x = loc.x /\ loc'.y = loc.y /\ loc'.tmp = word
    BY <1>9, <1>10 DEF Names
<1>12. Unpacked(p, d)' /\ SecretVectors(p)'
    BY <1>5, <1>11 DEF Unpacked, SecretVectors
<1>13. Decapsulating(p, d)'
    BY <1>7, <1>8, <1>10, <1>11, <1>12 DEF Decapsulating
<1>14. KeysWritten(p)' /\ SentBy(p, d)'
    BY <1>3, <1>5 DEF KeysWritten, SentBy
<1> QED
    BY <1>3, <1>5, <1>10, <1>13, <1>14 DEF Story, Encrypts

LEMMA DecEndTells ==
    ASSUME ParametersFit, KemInv, NEW p, NEW d, Story(p, d), DecEnd
    PROVE  Story(p, d)'
<1>1. PICK result : result = (compare(loc) - 1) % 256
    OBVIOUS
<1>2. /\ Ready("dec_end") /\ UNCHANGED sampler /\ pc' = "print" /\ loc' = loc
      /\ key_dec' = Into(key_dec, SharedSecret(IF result = 255 THEN loc.m ELSE loc.sigma, loc.u, loc.v))
      /\ ret' = (result % 2) - 1
      /\ UNCHANGED <<pk, sk, ct, key_enc, sent, damage>>
    BY <1>1 DEF DecEnd, working
<1>3. pc = "dec_end" /\ DOMAIN key_dec = 1..SHAKE256_512_BYTES
    BY <1>2, Begun DEF SecretsInv
<1>4. Decapsulating(p, d) /\ SentBy(p, d) /\ KeysWritten(p) /\ damage = d /\ Room'
    <2>1. Encrypts("dec_end")
        BY <1>3 DEF Encrypts
    <2>2. Room /\ KemNext
        BY DEF Story, KemNext
    <2>3. Room'
        BY <2>2, RoomStays
    <2> QED
        BY <1>3, <2>1, <2>2, <2>3 DEF Story
<1>5. /\ Unpacked(p, d) /\ SecretVectors(p) /\ loc.m = DecodedOf(p, d)
      /\ loc.u2 = UAgain(p, d) /\ loc.v2 = VAgain(p, d)
    BY <1>3, <1>4 DEF Decapsulating, Encrypting, UAgain, VAgain
<1>6. result = Verdict(p, d)
    <2>1. PICK l : l = [u |-> Cipher(p, d).u, v |-> Cipher(p, d).v, u2 |-> UAgain(p, d), v2 |-> VAgain(p, d)]
        OBVIOUS
    <2>2. l.u = loc.u /\ l.v = loc.v /\ l.u2 = loc.u2 /\ l.v2 = loc.v2
        BY <1>5, <2>1 DEF Unpacked
    <2>3. compare(l) = compare(loc)
        BY <2>2 DEF compare
    <2> QED
        BY <1>1, <2>1, <2>3 DEF Verdict
<1>7. SharedSecret(IF result = 255 THEN loc.m ELSE loc.sigma, loc.u, loc.v) = KeyDecOf(p, d)
    BY <1>5, <1>6 DEF KeyDecOf, Unpacked
<1>8. key_dec' = KeyDecOf(p, d)
    <2>1. IsString(KeyDecOf(p, d), SHAKE256_512_BYTES)
        BY DEF KeyDecOf, SharedSecret, shake256_512_ds, IsString
    <2>2. PICK n \in Nat : n = SHAKE256_512_BYTES
        BY StringSizes
    <2>3. n <= n /\ DOMAIN key_dec = 1..n /\ IsString(KeyDecOf(p, d), n)
        BY <1>3, <2>1, <2>2
    <2>4. Into(key_dec, KeyDecOf(p, d)) = KeyDecOf(p, d)
        BY <2>3, IntoIs
    <2> QED
        BY <1>2, <1>7, <2>4
<1>9. Decided(p, d)'
    BY <1>2, <1>6, <1>8 DEF Decided, ReturnedOf
<1>10. KeysWritten(p)' /\ SentBy(p, d)' /\ SecretVectors(p)'
    BY <1>2, <1>4, <1>5 DEF KeysWritten, SentBy, SecretVectors
<1> QED
    BY <1>2, <1>4, <1>9, <1>10 DEF Story, Encrypts

-----------------------------------------------------------------------------
(* Sampling, multiplying                                                   *)
LEMMA SamplerTells ==
    ASSUME ParametersFit, ShakeGivesBytes, KemInv, NEW p, NEW d, Story(p, d), Draw \/ Settle \/ Collect
    PROVE  Story(p, d)'
<1>1. queue # << >>
    BY DEF KemInv, SamplerInv, Draw, Settle, Collect, FW!Settle, FW!Collect
<1>2. /\ pc' = pc /\ UNCHANGED <<factors, prng, pk, sk, ct, key_enc, key_dec, ret, sent, damage>>
    BY DEF Draw, Settle, Collect, buffers
<1>3. pc \in {"keygen_h", "decrypt", "encrypt_u"} /\ DOMAIN loc = Names
    BY <1>1 DEF KemInv, SampledInv, LocalsInv
<1>4. damage = d /\ Room'
    BY RoomStays DEF Story, KemNext
<1>5. KeysWritten(p) => KeysWritten(p)'
    BY <1>2 DEF KeysWritten
<1>6. SentBy(p, d) => SentBy(p, d)'
    BY <1>2 DEF SentBy
<1>7. CASE pc = "keygen_h"
    <2>1. KeySeeds(p) /\ DrawingKey(KeyContext(p)) /\ d = None
        BY <1>7 DEF Story
    <2>2. PICK ctx : ctx = KeyContext(p)
        OBVIOUS
    <2>3. DrawingKey(ctx)' /\ \A name \in Names \ {"x", "y"} : loc'[name] = loc[name]
        BY <1>1, <1>3, <2>1, <2>2, KeyDrawn
    <2>4. KeySeeds(p)'
        BY <1>2, <2>1, <2>3 DEF KeySeeds, Names
    <2>5. DrawingKey(KeyContext(p))'
        BY <2>2, <2>3
    <2> QED
        BY <1>2, <1>4, <1>7, <2>1, <2>4, <2>5 DEF Story, Encrypts
<1>8. CASE pc = "decrypt"
    <2>1. Unpacked(p, d) /\ DrawingKey(Opened(p).ctx) /\ SentBy(p, d) /\ KeysWritten(p)
        BY <1>8 DEF Story
    <2>2. PICK ctx : ctx = Opened(p).ctx
        OBVIOUS
    <2>3. DrawingKey(ctx)' /\ \A name \in Names \ {"x", "y"} : loc'[name] = loc[name]
        BY <1>1, <1>3, <2>1, <2>2, KeyDrawn
    <2>4. Unpacked(p, d)'
        BY <2>1, <2>3 DEF Unpacked, Names
    <2>5. DrawingKey(Opened(p).ctx)'
        BY <2>2, <2>3
    <2> QED
        BY <1>2, <1>4, <1>5, <1>6, <1>8, <2>1, <2>4, <2>5 DEF Story, Encrypts
<1>9. CASE pc = "encrypt_u" /\ loc.to = "enc_end"
    <2>1. Encapsulating(p) /\ d = None /\ KeysWritten(p)
        BY <1>9 DEF Story, Encrypts
    <2>2. PICK m, theta, h, s :
              /\ m = MessageOf(p) /\ theta = ThetaOf(p) /\ h = public_key_from_string(PublicOf(p)).h
              /\ s = public_key_from_string(PublicOf(p)).s
        OBVIOUS
    <2>3. Encrypting(m, theta, h, s) /\ loc.salt = SaltOf(p)
        BY <2>1, <2>2 DEF Encapsulating
    <2>4. /\ Encrypting(m, theta, h, s)' /\ DOMAIN loc' = Names
          /\ \A name \in Names \ {"r1", "r2", "e"} : loc'[name] = loc[name]
        BY <1>9, <2>3, EncryptionSamples
    <2>5. loc'.salt = loc.salt /\ loc'.to = loc.to
        BY <2>4 DEF Names
    <2>6. Encapsulating(p)'
        BY <2>2, <2>3, <2>4, <2>5 DEF Encapsulating
    <2> QED
        BY <1>2, <1>4, <1>5, <1>9, <2>1, <2>5, <2>6 DEF Story, Encrypts
<1>10. CASE pc = "encrypt_u" /\ loc.to = "dec_end"
    <2>1. Decapsulating(p, d) /\ SentBy(p, d) /\ KeysWritten(p)
        BY <1>10 DEF Story, Encrypts
    <2>2. PICK m, theta, h, s :
              /\ m = DecodedOf(p, d) /\ theta = ThetaAgain(p, d)
              /\ h = public_key_from_string(Opened(p).pk).h
              /\ s = public_key_from_string(Opened(p).pk).s
        OBVIOUS
    <2>3. Encrypting(m, theta, h, s) /\ Unpacked(p, d) /\ SecretVectors(p) /\ loc.tmp = WordOf(p, d)
        BY <1>10, <2>1, <2>2 DEF Decapsulating
    <2>4. /\ Encrypting(m, theta, h, s)' /\ DOMAIN loc' = Names
          /\ \A name \in Names \ {"r1", "r2", "e"} : loc'[name] = loc[name]
        BY <1>10, <2>3, EncryptionSamples
    <2>5. /\ loc'.to = loc.to /\ loc'.u = loc.u /\ loc'.v = loc.v /\ loc'.salt = loc.salt
          /\ loc'.sigma = loc.sigma /\ loc'.x = loc.x /\ loc'.y = loc.y /\ loc'.tmp = loc.tmp
        BY <2>4 DEF Names
    <2>6. Unpacked(p, d)' /\ SecretVectors(p)'
        BY <2>3, <2>5 DEF Unpacked, SecretVectors
    <2>7. Decapsulating(p, d)'
        BY <2>2, <2>3, <2>4, <2>5, <2>6 DEF Decapsulating
    <2> QED
        BY <1>2, <1>4, <1>5, <1>6, <1>10, <2>1, <2>5, <2>7 DEF Story, Encrypts
<1>11. pc = "encrypt_u" => loc.to \in {"enc_end", "dec_end"}
    BY DEF KemInv, LocalsInv
<1> QED
    BY <1>3, <1>7, <1>8, <1>9, <1>10, <1>11

LEMMA NothingElse ==
    ASSUME NEW p, NEW d, Story(p, d),
           UNCHANGED <<pc, queue, expander, weight, support, at, factors, loc, prng, pk, sk, ct,
                       key_enc, key_dec, ret, sent, damage>>
    PROVE  Story(p, d)'
<1>1. \A ctx : DrawingKey(ctx) => DrawingKey(ctx)'
    BY DEF DrawingKey, Drawing
<1>2. \A ctx : DrawingNoise(ctx) => DrawingNoise(ctx)'
    BY DEF DrawingNoise, Drawing
<1>3. \A m, theta, h, s : Encrypting(m, theta, h, s) => Encrypting(m, theta, h, s)'
    BY <1>2 DEF Encrypting
<1>4. Encapsulating(p) => Encapsulating(p)'
    BY <1>3 DEF Encapsulating
<1>5. /\ Unpacked(p, d) => Unpacked(p, d)'
      /\ SecretVectors(p) => SecretVectors(p)'
    BY DEF Unpacked, SecretVectors
<1>6. Decapsulating(p, d) => Decapsulating(p, d)'
    BY <1>3, <1>5 DEF Decapsulating
<1>7. /\ Room => Room'
      /\ KeySeeds(p) => KeySeeds(p)'
      /\ KeyFactors(p) => KeyFactors(p)'
      /\ KeysWritten(p) => KeysWritten(p)'
      /\ SentBy(p, d) => SentBy(p, d)'
      /\ DecryptFactors(p, d) => DecryptFactors(p, d)'
      /\ Decided(p, d) => Decided(p, d)'
    BY DEF Room, KeySeeds, KeyFactors, KeysWritten, SentBy, DecryptFactors, Decided
<1> QED
    BY <1>1, <1>4, <1>5, <1>6, <1>7 DEF Story, Encrypts

LEMMA VectMulTells ==
    ASSUME NEW p, NEW d, Story(p, d), VectMul
    PROVE  Story(p, d)'
<1>1. UNCHANGED <<pc, queue, expander, weight, support, at, factors, loc, prng, pk, sk, ct,
                  key_enc, key_dec, ret, sent, damage>>
    BY DEF VectMul, sampler, buffers
<1> QED
    BY <1>1, NothingElse

(* A session goes on as it has begun.                                      *)
LEMMA StoryStep ==
    ASSUME ParametersFit, ShakeGivesBytes, NoneIsNoPair, KemInv, NEW p, NEW d, Story(p, d), KemNext
    PROVE  \E d2 : Story(p, d2)'
BY SamplerTells, VectMulTells, KeygenSeedsTells, KeygenHTells, KeygenSTells, EncryptTells,
   EncBeginTells, EncEndTells, DecBeginTells, DecryptTells, DecryptMTells, DecEndTells, DamageTells
   DEF KemNext

-----------------------------------------------------------------------------
(* What the story says of the promises                                     *)
LEMMA StoryBegins ==
    ASSUME NEW p, Room', pc' = "keypair", prng' = p, damage' = None
    PROVE  Story(p, None)'
BY DEF Story, Encrypts

(* The secret vectors drawn again from the key string are those of the key.  *)
LEMMA NoiseIs ==
    ASSUME ParametersFit, ShakeGivesBytes, NEW p, NEW d, SecretVectors(p), SentBy(p, d)
    PROVE  Noise = NoiseOf(p)
<1>1. Opened(p).ctx = KeyContext(p)
    BY KeyStrings
<1>2. loc.x = XOf(KeyContext(p)) /\ loc.y = YOf(KeyContext(p))
    BY <1>1 DEF SecretVectors
<1>3. PICK ctx : ctx = NoiseContext(ThetaOf(p))
    OBVIOUS
<1>4. sent.r1 = R1Of(ctx) /\ sent.r2 = R2Of(ctx) /\ sent.e = EOf(ctx)
    BY <1>3 DEF SentBy
<1> QED
    BY <1>2, <1>3, <1>4 DEF Noise, NoiseOf

LEMMA StoryHasNoise ==
    ASSUME ParametersFit, ShakeGivesBytes, NEW p, NEW d, Story(p, d)
    PROVE  DecryptionSeesTheNoise
<1> SUFFICES ASSUME pc = "encrypt_u", loc.to = "dec_end", damage = None
             PROVE  Bits(loc.tmp) \cap (0 .. PARAM_N1N2 - 1) = Bits(code_encode(sent.m)) (+) Noise
    BY DEF DecryptionSeesTheNoise
<1>1. Encrypts("dec_end")
    BY DEF Encrypts
<1>2. d = None /\ Decapsulating(p, d) /\ SentBy(p, d)
    BY <1>1 DEF Story
<1>3. loc.tmp = WordOf(p, None) /\ SecretVectors(p) /\ sent.m = MessageOf(p)
    BY <1>2 DEF Decapsulating, SentBy
<1>4. Noise = NoiseOf(p)
    BY <1>2, <1>3, NoiseIs
<1> QED
    BY <1>3, <1>4, NoiseRemains

LEMMA StoryAgrees ==
    ASSUME ParametersFit, ShakeGivesBytes, NEW p, NEW d, Story(p, d)
    PROVE  KeysAgree
<1> SUFFICES ASSUME pc = "print", damage = None, Cardinality(Noise) <= Radius
             PROVE  ret = 0 /\ key_dec = key_enc
    BY DEF KeysAgree
<1>1. d = None /\ SentBy(p, d) /\ SecretVectors(p) /\ Decided(p, d)
    BY DEF Story
<1>2. Noise = NoiseOf(p)
    BY <1>1, NoiseIs
<1>3. ReturnedOf(p, None) = 0 /\ KeyDecOf(p, None) = KeyEncOf(p)
    BY <1>2, SecretsAgree
<1> QED
    BY <1>1, <1>3 DEF SentBy, Decided

(* What is printed at the end                                              *)
Output(p, d) == << PublicOf(p), SecretOf(p), ReceivedOf(p, d), KeyEncOf(p), KeyDecOf(p, d) >>

LEMMA StoryEnds ==
    ASSUME ParametersFit, ShakeGivesBytes, NEW p, NEW d, Story(p, d), pc = "print"
    PROVE  /\ d = damage
           /\ << SubSeq(pk, 1, PUBLIC_KEY_BYTES), SubSeq(sk, 1, SECRET_KEY_BYTES),
                 SubSeq(ct, 1, CIPHERTEXT_BYTES), SubSeq(key_enc, 1, SHAKE256_512_BYTES),
                 SubSeq(key_dec, 1, SHAKE256_512_BYTES) >> = Output(p, d)
<1>1. KeysWritten(p) /\ SentBy(p, d) /\ Decided(p, d) /\ d = damage
    BY DEF Story
<1>2. ASSUME NEW s, NEW n \in Nat PROVE From(s, 0, n) = SubSeq(s, 1, n)
    <2>1. 0 + 1 = 1 /\ 0 + n = n
        OBVIOUS
    <2> QED
        BY <2>1 DEF From
<1>3. ASSUME NEW s, IsString(s, SHAKE256_512_BYTES) PROVE SubSeq(s, 1, SHAKE256_512_BYTES) = s
    <2>1. PICK n \in Nat : n = SHAKE256_512_BYTES
        BY StringSizes
    <2>2. From(s, 0, n) = s
        BY <1>3, <2>1, CutFirst DEF IsString
    <2> QED
        BY <1>2, <2>1, <2>2
<1>4. IsString(KeyEncOf(p), SHAKE256_512_BYTES) /\ IsString(KeyDecOf(p, d), SHAKE256_512_BYTES)
    BY DEF KeyEncOf, KeyDecOf, SharedSecret, shake256_512_ds, IsString
<1>5. /\ SubSeq(key_enc, 1, SHAKE256_512_BYTES) = KeyEncOf(p)
      /\ SubSeq(key_dec, 1, SHAKE256_512_BYTES) = KeyDecOf(p, d)
    BY <1>1, <1>3, <1>4 DEF SentBy, Decided
<1>6. /\ SubSeq(pk, 1, PUBLIC_KEY_BYTES) = PublicOf(p) /\ SubSeq(sk, 1, SECRET_KEY_BYTES) = SecretOf(p)
      /\ SubSeq(ct, 1, CIPHERTEXT_BYTES) = ReceivedOf(p, d)
    BY <1>1, <1>2, StringSizes DEF KeysWritten, SentBy
<1> QED
    BY <1>1, <1>5, <1>6 DEF Output
=============================================================================
