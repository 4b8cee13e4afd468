------------------------------- MODULE Parsing -------------------------------
(***************************************************************************)
(* parsing.c: keys and ciphertexts as strings of bytes, and the seed        *)
(* expander and the sampling of uniform vectors that reading them back      *)
(* takes.  A byte is a number; a string is a sequence of bytes.             *)
(***************************************************************************)
EXTENDS Polynomials

CONSTANTS BYTE,               \* bits of a byte, 8 in the program
          SEED_BYTES, VEC_K_SIZE_BYTES, SALT_SIZE_BYTES,
          SHAKE256_512_BYTES,
          shake256(_, _)      \* byte n = 1, 2, ... of SHAKE-256 of a string

ByteValues == 0 .. 2^BYTE - 1
PerWord == WORD \div BYTE     \* bytes of a word

CeilDivide(a, b) == (a + b - 1) \div b

VEC_N_SIZE_BYTES == CeilDivide(PARAM_N, BYTE)
VEC_N1N2_SIZE_BYTES == CeilDivide(PARAM_N1N2, BYTE)
PUBLIC_KEY_BYTES == SEED_BYTES + VEC_N_SIZE_BYTES
SECRET_KEY_BYTES == SEED_BYTES + VEC_K_SIZE_BYTES + PUBLIC_KEY_BYTES
CIPHERTEXT_BYTES == VEC_N_SIZE_BYTES + VEC_N1N2_SIZE_BYTES + SALT_SIZE_BYTES

From(string, first, size) == SubSeq(string, first + 1, first + size)

-----------------------------------------------------------------------------
(* The seed expander: a string absorbed, and how many bytes of its stream   *)
(* are gone.  (Sponge has it in detail.)                                    *)
SEEDEXPANDER_DOMAIN == 2
G_FCT_DOMAIN == 3
K_FCT_DOMAIN == 4

seedexpander_init(seed) == [absorbed |-> seed \o <<SEEDEXPANDER_DOMAIN>>, gone |-> 0]

(* Bytes are handed out in words, the rest of the last word is lost.        *)
seedexpander(ctx, outlen) == [k \in 1..outlen |-> shake256(ctx.absorbed, ctx.gone + k)]

after(ctx, outlen) == [ctx EXCEPT !.gone = @ + PerWord * CeilDivide(outlen, PerWord)]

shake256_512_ds(input, domain) ==
    [k \in 1..SHAKE256_512_BYTES |-> shake256(input \o <<domain>>, k)]

-----------------------------------------------------------------------------
BitsOfByte(b) == {k \in 0 .. BYTE - 1 : (b \div 2^k) % 2 = 1}

(* The word of the size bytes behind first.                                 *)
load8(string, first, size) ==
    UNION {{BYTE * k + p : p \in BitsOfByte(string[first + k + 1])} : k \in 0 .. size - 1}

\* Mutant: the bytes behind the last whole word are not read.
loadWholeWords(outlen, string) ==
    [i \in 0 .. outlen - 1 |->
        IF PerWord * (i + 1) <= Len(string) THEN load8(string, PerWord * i, PerWord) ELSE {}]

(* The words of a string, whose last may lack bytes.                        *)
load8_arr(outlen, string) ==
    LET left(i) == Len(string) - PerWord * i
    IN  [i \in 0 .. outlen - 1 |->
            IF left(i) <= 0 THEN {}
            ELSE load8(string, PerWord * i, IF left(i) >= PerWord THEN PerWord ELSE left(i))]

ByteOf(word, k) ==
    LET bit(p) == IF BYTE * k + p \in word THEN 2^p ELSE 0
        sum[p \in 0..BYTE] == IF p = 0 THEN 0 ELSE sum[p - 1] + bit(p - 1)
    IN  sum[BYTE]

(* The first outlen bytes of the words.                                     *)
store8_arr(outlen, words) ==
    [k \in 1..outlen |-> ByteOf(words[(k - 1) \div PerWord], (k - 1) % PerWord)]

vect_set_random(ctx) ==
    LET v == load8_arr(VEC_N_SIZE_64, seedexpander(ctx, VEC_N_SIZE_BYTES))
    IN  [v EXCEPT ![VEC_N_SIZE_64 - 1] = @ \cap RED_MASK]

-----------------------------------------------------------------------------
public_key_to_string(pk_seed, s) == pk_seed \o store8_arr(VEC_N_SIZE_BYTES, s)

public_key_from_string(pk) ==
    [h |-> vect_set_random(seedexpander_init(From(pk, 0, SEED_BYTES))),
     s |-> load8_arr(VEC_N_SIZE_64, From(pk, SEED_BYTES, VEC_N_SIZE_BYTES))]

secret_key_to_string(sk_seed, sigma, pk) == sk_seed \o sigma \o pk

(* The vectors x and y follow from the seed, with their sampling.           *)
secret_key_from_string(sk) ==
    [ctx |-> seedexpander_init(From(sk, 0, SEED_BYTES)),
     sigma |-> From(sk, SEED_BYTES, VEC_K_SIZE_BYTES),
     pk |-> From(sk, SEED_BYTES + VEC_K_SIZE_BYTES, PUBLIC_KEY_BYTES)]

ciphertext_to_string(u, v, salt) ==
    store8_arr(VEC_N_SIZE_BYTES, u) \o store8_arr(VEC_N1N2_SIZE_BYTES, v) \o salt

ciphertext_from_string(ct) ==
    [u |-> load8_arr(VEC_N_SIZE_64, From(ct, 0, VEC_N_SIZE_BYTES)),
     v |-> load8_arr(VEC_N1N2_SIZE_64, From(ct, VEC_N_SIZE_BYTES, VEC_N1N2_SIZE_BYTES)),
     salt |-> From(ct, VEC_N_SIZE_BYTES + VEC_N1N2_SIZE_BYTES, SALT_SIZE_BYTES)]
==============================================================================
