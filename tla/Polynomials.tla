----------------------------- MODULE Polynomials -----------------------------
(***************************************************************************)
(* gf2x.c and the vector operations of vector.c: polynomials over GF(2),    *)
(* a bit per coefficient, in arrays of words.  A word is the set of its     *)
(* bits that are one.                                                      *)
(***************************************************************************)
EXTENDS CarrylessMul, Sequences

CONSTANTS PARAM_N,    \* degree of the modulus X^PARAM_N - 1
          PARAM_N1N2  \* length of a codeword, less than PARAM_N

Words(bits) == (bits + WORD - 1) \div WORD

VEC_N_SIZE_64 == Words(PARAM_N)
VEC_N1N2_SIZE_64 == Words(PARAM_N1N2)

RED_MASK == 0 .. (PARAM_N % WORD) - 1

(* An array of bits as words, and the bits of an array of words.            *)
ToWords(bits, size) == [i \in 0 .. size - 1 |-> {p % WORD : p \in {q \in bits : q \div WORD = i}}]
Bits(a) == UNION {{WORD * i + p : p \in a[i]} : i \in DOMAIN a}

Zeros(size) == [i \in 0 .. size - 1 |-> {}]

-----------------------------------------------------------------------------
(* mem with f(i) put at address + i for i < size, one after the other.       *)
Put(mem, address, size, f(_)) ==
    [k \in DOMAIN mem |-> IF k \in address .. address + size - 1 THEN f(k - address) ELSE mem[k]]

\* Mutant: the middle word of an odd number is not copied.
addPairsOnly(mem, alh, blh, a, b, size_l, size_h) ==
    LET sum(x, i) == mem[x + i] (+) mem[x + i + size_l]
    IN  Put(Put(mem, alh, size_h, LAMBDA i : sum(a, i)), blh, size_h, LAMBDA i : sum(b, i))

karatsuba_add1(mem, alh, blh, a, b, size_l, size_h) ==
    LET sum(x, i) == IF i < size_h THEN mem[x + i] (+) mem[x + i + size_l] ELSE mem[x + i]
    IN  Put(Put(mem, alh, size_l, LAMBDA i : sum(a, i)), blh, size_l, LAMBDA i : sum(b, i))

karatsuba_add2(mem, o, tmp1, tmp2, size_l, size_h) ==
    LET middle(i) == mem[tmp1 + i] (+) mem[o + i]
                         (+) (IF i < 2 * size_h THEN mem[tmp2 + i] ELSE {})
    IN  Put(Put(mem, tmp1, 2 * size_l, middle),
            o + size_l, 2 * size_l, LAMBDA i : mem[o + size_l + i] (+) middle(i))

(* Memory: the two factors, the product and 8 * VEC_N_SIZE_64 words of      *)
(* scratch space, and what lies behind it, which is no word.                *)
Scratch == 4 * VEC_N_SIZE_64
MemorySize == 12 * VEC_N_SIZE_64
Behind == {-1}
Memories == [0 .. 2 * MemorySize - 1 -> SUBSET (-1 .. WORD - 1)]

(* The memory after the product of the size words at a and at b has been put *)
(* at o; stack is the address from which scratch space is free.             *)
karatsuba(memory, address, a1, a2, words, scratch) ==
    LET multiply[size \in 1..words] ==
            [mem \in Memories |-> [o \in Nat |-> [a \in Nat |-> [b \in Nat |-> [stack \in Nat |->
                IF size = 1
                THEN LET c == base_mul(mem[a], mem[b]) IN Put(mem, o, 2, LAMBDA i : c[i + 1])
                ELSE LET size_h == size \div 2
                         size_l == (size + 1) \div 2
                         alh == stack
                         blh == alh + size_l
                         tmp1 == blh + size_l
                         tmp2 == o + 2 * size_l
                         free == stack + 4 * size_l
                         low == multiply[size_l][mem][o][a][b][free]
                         high == multiply[size_h][low][tmp2][a + size_l][b + size_l][free]
                         sums == karatsuba_add1(high, alh, blh, a, b, size_l, size_h)
                         mixed == multiply[size_l][sums][tmp1][alh][blh][free]
                     IN  karatsuba_add2(mixed, o, tmp1, tmp2, size_l, size_h)]]]]]
    IN  multiply[words][memory][address][a1][a2][scratch]

(* The 2 * VEC_N_SIZE_64 words of a product modulo X^PARAM_N - 1.           *)
reduce(a) ==
    LET r(i) == Shr(a[i + VEC_N_SIZE_64 - 1], PARAM_N % WORD)
        carry(i) == Shl(a[i + VEC_N_SIZE_64], WORD - (PARAM_N % WORD))
    IN  [i \in 0 .. VEC_N_SIZE_64 - 1 |->
            (a[i] (+) r(i) (+) carry(i))
                \cap (IF i = VEC_N_SIZE_64 - 1 THEN RED_MASK ELSE 0 .. WORD - 1)]

multiplied(v1, v2) ==
    LET n == VEC_N_SIZE_64
        word(i) == CASE i < n -> v1[i]
                     [] i \in n .. 2*n - 1 -> v2[i - n]
                     [] i \in 2*n .. MemorySize - 1 -> {}
                     [] i >= MemorySize -> Behind
    IN  karatsuba([i \in 0 .. 2 * MemorySize - 1 |-> word(i)], 2 * n, 0, n, n, Scratch)

vect_mul(v1, v2) ==
    LET mem == multiplied(v1, v2)
    IN  reduce([i \in 0 .. 2 * VEC_N_SIZE_64 - 1 |-> mem[2 * VEC_N_SIZE_64 + i]])

-----------------------------------------------------------------------------
vect_add(v1, v2, size) == [i \in 0 .. size - 1 |-> v1[i] (+) v2[i]]

(* 256, with a bit of the lower eight set where two elements differ.         *)
differences(v1, v2, size) == 256 + (IF \E i \in 1..size : v1[i] # v2[i] THEN 1 ELSE 0)

\* Mutant: what is 256 for equal arrays is not diminished.
compareUndiminished(v1, v2, size) == differences(v1, v2, size) \div 256

(* 0 if the first size elements are the same, 1 otherwise.                  *)
vect_compare(v1, v2, size) == (differences(v1, v2, size) - 1) \div 256

(* The first bits of a longer vector, or all of a shorter one followed by   *)
(* what o held.  The words copied to a shorter vector are those of a        *)
(* codeword.                                                               *)
vect_resize(o, size_o, v, size_v) ==
    LET last == VEC_N1N2_SIZE_64 - 1
        spare == IF size_o % WORD = 0 THEN 0 ELSE WORD - (size_o % WORD)
    IN  IF size_o < size_v
        THEN [i \in DOMAIN o |->
                 IF i < last THEN v[i]
                 ELSE IF i = last THEN v[i] \cap (0 .. WORD - 1 - spare)
                 ELSE o[i]]
        ELSE [i \in DOMAIN o |-> IF i < Words(size_v) THEN v[i] ELSE o[i]]

-----------------------------------------------------------------------------
(* What vect_mul is to compute, by its definition: the bit e counts the     *)
(* pairs of bits with the sum e modulo PARAM_N.                            *)
Fits(a, b) == \A i \in a, j \in b : i + j < 2 * PARAM_N

CyclicProduct(a, b) ==
    {e \in 0 .. PARAM_N - 1 :
        Cardinality({p \in a \X b : (p[1] + p[2]) % PARAM_N = e}) % 2 = 1}
==============================================================================
