--------------------------------- MODULE Kem ---------------------------------
(***************************************************************************)
(* kem.c and hqc.c: key generation, encapsulation and decapsulation, one    *)
(* action for each part between two calls of vect_mul or of the sampling of *)
(* vectors, which are actions of their own.                                 *)
(***************************************************************************)
EXTENDS Parsing

CONSTANTS PARAM_OMEGA, PARAM_OMEGA_R, PARAM_OMEGA_E,
          None

VARIABLES pc,                     \* the part to run next
          queue,                  \* vectors to sample before that, as names
          expander,               \* the seed expander they are drawn from
          weight, support, at, drawn,    \* the sampler
          factors, product,       \* of the multiplication to do before that
          loc,                    \* the local variables
          prng,                   \* the seed expander behind randombytes
          pk, sk, ct, key_enc, key_dec,  \* the caller's buffers
          ret,                    \* what crypto_kem_dec returns
          sent,                   \* history: what crypto_kem_enc has sent
          damage                  \* history: what became of it

(* What parameters.h and the word of the processor are like, and as many    *)
(* powers of two as a drawn number needs.                                   *)
ParametersFit ==
    /\ {WORD, WINDOW, BYTE, PARAM_N, PARAM_N1N2, VEC_K_SIZE_BYTES} \subseteq Nat \ {0}
    /\ {SEED_BYTES, SALT_SIZE_BYTES, SHAKE256_512_BYTES} \subseteq Nat
    /\ WORD % WINDOW = 0 /\ WORD % BYTE = 0
    /\ PARAM_N % WORD # 0 /\ PARAM_N1N2 < PARAM_N
    /\ 2 * PARAM_N <= 2^(4 * BYTE)
    /\ {PARAM_OMEGA, PARAM_OMEGA_R, PARAM_OMEGA_E} \subseteq 1..PARAM_N
    /\ 2^0 = 1 /\ \A n \in 0 .. 4 * BYTE - 1 : 2^(n + 1) = 2 * 2^n

FW == INSTANCE FixedWeight WITH
    DRAWS <- 2^(4 * BYTE), Weights <- {PARAM_OMEGA, PARAM_OMEGA_R, PARAM_OMEGA_E}, v <- drawn

sampler == <<weight, support, at, drawn>>
buffers == <<pk, sk, ct, key_enc, key_dec>>
working == <<queue, expander, sampler, factors, product>>

(* Where a part may run: no vector to sample and no product to wait for.     *)
Ready(label) == pc = label /\ queue = << >> /\ (factors = None \/ product # None)

Multiply(v1, v2) == factors' = <<v1, v2>> /\ product' = None
NoProduct == factors' = None /\ product' = None

(* A string written to the beginning of a buffer.                           *)
Into(buffer, string) ==
    [k \in DOMAIN buffer |-> IF k <= Len(string) THEN string[k] ELSE buffer[k]]

(* The code, as far as it matters here: every bit of the message is sent     *)
(* again and again, and the majority decides.  Code has what it really is.  *)
MessageBits == BYTE * VEC_K_SIZE_BYTES
Radius == (PARAM_N1N2 \div MessageBits - 1) \div 2

code_encode(m) ==
    LET ones == Bits(load8_arr(Words(MessageBits), m))
    IN  ToWords({p \in 0 .. PARAM_N1N2 - 1 : p % MessageBits \in ones}, VEC_N1N2_SIZE_64)

code_decode(word) ==
    LET count(b) == Cardinality({p \in Bits(word) : p < PARAM_N1N2 /\ p % MessageBits = b})
        ones == {b \in 0 .. MessageBits - 1 : 2 * count(b) > PARAM_N1N2 \div MessageBits}
    IN  store8_arr(VEC_K_SIZE_BYTES, ToWords(ones, Words(MessageBits)))

KemInit ==
    /\ queue = << >> /\ expander = None
    /\ FW!SamplerInit
    /\ factors = None /\ product = None
    /\ loc = << >> /\ prng = None /\ ret = None /\ sent = None /\ damage = None

-----------------------------------------------------------------------------
(* vect_set_random_fixed_weight for the vectors of the queue                *)
WeightOf(name) == CASE name \in {"x", "y"} -> PARAM_OMEGA
                    [] name \in {"r1", "r2"} -> PARAM_OMEGA_R
                    [] name = "e" -> PARAM_OMEGA_E

(* Four bytes make a number, the first being the lowest.                     *)
Numbers(bytes) ==
    LET byte(i, k) == bytes[4*i + k + 1] * 2^(BYTE * k)
    IN  [i \in 0 .. Len(bytes) \div 4 - 1 |-> byte(i, 0) + byte(i, 1) + byte(i, 2) + byte(i, 3)]

Draw ==
    /\ queue # << >>
    /\ LET w == WeightOf(Head(queue))
       IN  /\ FW!Draw(w, Numbers(seedexpander(expander, 4 * w)))
           /\ expander' = after(expander, 4 * w)
    /\ UNCHANGED <<pc, queue, factors, product, loc, prng, buffers, ret, sent, damage>>

Settle ==
    /\ FW!Settle
    /\ UNCHANGED <<pc, queue, expander, factors, product, loc, prng, buffers, ret, sent, damage>>

Collect ==
    /\ FW!Collect
    /\ loc' = [loc EXCEPT ![Head(queue)] = ToWords(drawn', VEC_N_SIZE_64)]
    /\ queue' = Tail(queue)
    /\ UNCHANGED <<pc, expander, factors, product, prng, buffers, ret, sent, damage>>

(* vect_mul *)
VectMul ==
    /\ queue = << >> /\ factors # None /\ product = None
    /\ product' = vect_mul(factors[1], factors[2])
    /\ UNCHANGED <<pc, queue, expander, sampler, factors, loc, prng, buffers, ret, sent, damage>>

-----------------------------------------------------------------------------
(* hqc_pke_keygen *)
Locals == [x |-> None, y |-> None, h |-> None, s |-> None,
           r1 |-> None, r2 |-> None, e |-> None, tmp |-> None,
           sk_seed |-> None, sigma |-> None, pk_seed |-> None,
           m |-> None, theta |-> None, salt |-> None, to |-> None,
           u |-> None, v |-> None, u2 |-> None, v2 |-> None]

KeygenSeeds ==
    /\ Ready("keypair")
    /\ LET first == after(prng, SEED_BYTES)
           second == after(first, VEC_K_SIZE_BYTES)
           sk_seed == seedexpander(prng, SEED_BYTES)
       IN  /\ loc' = [Locals EXCEPT !.sk_seed = sk_seed,
                                    !.sigma = seedexpander(first, VEC_K_SIZE_BYTES),
                                    !.pk_seed = seedexpander(second, SEED_BYTES)]
           /\ prng' = after(second, SEED_BYTES)
           /\ expander' = seedexpander_init(sk_seed)
    /\ queue' = <<"x", "y">>
    /\ pc' = "keygen_h"
    /\ UNCHANGED <<sampler, factors, product, buffers, ret, sent, damage>>

KeygenH ==
    /\ Ready("keygen_h")
    /\ LET h == vect_set_random(seedexpander_init(loc.pk_seed))
       IN  loc' = [loc EXCEPT !.h = h] /\ Multiply(loc.y, h)
    /\ pc' = "keygen_s"
    /\ UNCHANGED <<queue, expander, sampler, prng, buffers, ret, sent, damage>>

KeygenS ==
    /\ Ready("keygen_s")
    /\ LET s == vect_add(loc.x, product, VEC_N_SIZE_64)
           public == public_key_to_string(loc.pk_seed, s)
       IN  /\ loc' = [loc EXCEPT !.s = s]
           /\ pk' = Into(pk, public)
           /\ sk' = Into(sk, secret_key_to_string(loc.sk_seed, loc.sigma, public))
    /\ NoProduct
    /\ pc' = "enc"
    /\ UNCHANGED <<queue, expander, sampler, prng, ct, key_enc, key_dec, ret, sent, damage>>

-----------------------------------------------------------------------------
(* hqc_pke_encrypt, of loc.m under loc.theta and a public key, to loc.u2 and *)
(* loc.v2; loc.to is where its caller goes on.                              *)
BeginEncrypt(locals, public, return) ==
    LET key == public_key_from_string(public)
    IN  /\ loc' = [locals EXCEPT !.h = key.h, !.s = key.s, !.to = return]
        /\ expander' = seedexpander_init(From(locals.theta, 0, SEED_BYTES))
        /\ queue' = <<"r1", "r2", "e">>
        /\ pc' = "encrypt_u"

EncryptU ==
    /\ Ready("encrypt_u")
    /\ Multiply(loc.r2, loc.h)
    /\ pc' = "encrypt_mg"
    /\ UNCHANGED <<queue, expander, sampler, loc, prng, buffers, ret, sent, damage>>

EncryptMG ==
    /\ Ready("encrypt_mg")
    /\ loc' = [loc EXCEPT !.u2 = vect_add(loc.r1, product, VEC_N_SIZE_64),
                          !.tmp = vect_resize(Zeros(VEC_N_SIZE_64), PARAM_N,
                                              code_encode(loc.m), PARAM_N1N2)]
    /\ Multiply(loc.r2, loc.s)
    /\ pc' = "encrypt_v"
    /\ UNCHANGED <<queue, expander, sampler, prng, buffers, ret, sent, damage>>

EncryptV ==
    /\ Ready("encrypt_v")
    /\ LET tmp2 == vect_add(vect_add(loc.e, product, VEC_N_SIZE_64), loc.tmp, VEC_N_SIZE_64)
       IN  loc' = [loc EXCEPT !.v2 = vect_resize(code_encode(loc.m), PARAM_N1N2, tmp2, PARAM_N)]
    /\ NoProduct
    /\ pc' = loc.to
    /\ UNCHANGED <<queue, expander, sampler, prng, buffers, ret, sent, damage>>

-----------------------------------------------------------------------------
(* crypto_kem_enc *)
Theta(m, public, salt) == shake256_512_ds(m \o public \o salt, G_FCT_DOMAIN)

SharedSecret(m, u, v) ==
    shake256_512_ds(m \o store8_arr(VEC_N_SIZE_BYTES, u) \o store8_arr(VEC_N1N2_SIZE_BYTES, v),
                    K_FCT_DOMAIN)

EncBegin ==
    /\ Ready("enc")
    /\ LET m == seedexpander(prng, VEC_K_SIZE_BYTES)
           rest == after(prng, VEC_K_SIZE_BYTES)
           salt == seedexpander(rest, SALT_SIZE_BYTES)
           public == From(pk, 0, PUBLIC_KEY_BYTES)
       IN  /\ prng' = after(rest, SALT_SIZE_BYTES)
           /\ BeginEncrypt([loc EXCEPT !.m = m, !.salt = salt, !.theta = Theta(m, public, salt)],
                           public, "enc_end")
    /\ UNCHANGED <<sampler, factors, product, buffers, ret, sent, damage>>

EncEnd ==
    /\ Ready("enc_end")
    /\ key_enc' = Into(key_enc, SharedSecret(loc.m, loc.u2, loc.v2))
    /\ ct' = Into(ct, ciphertext_to_string(loc.u2, loc.v2, loc.salt))
    /\ sent' = loc
    /\ pc' = "dec"
    /\ UNCHANGED <<working, loc, prng, pk, sk, key_dec, ret, damage>>

(* On its way a byte of the ciphertext may change in one bit.               *)
Damage(byte, bit) ==
    /\ Ready("dec") /\ damage = None
    /\ LET old == ct[byte + 1]
           set == (old \div 2^bit) % 2 = 1
       IN  ct' = [ct EXCEPT ![byte + 1] = IF set THEN old - 2^bit ELSE old + 2^bit]
    /\ damage' = <<byte, bit>>
    /\ UNCHANGED <<pc, working, loc, prng, pk, sk, key_enc, key_dec, ret, sent>>

-----------------------------------------------------------------------------
(* crypto_kem_dec, with hqc_pke_decrypt *)
DecBegin ==
    /\ Ready("dec")
    /\ LET c == ciphertext_from_string(From(ct, 0, CIPHERTEXT_BYTES))
           secret == secret_key_from_string(From(sk, 0, SECRET_KEY_BYTES))
       IN  /\ loc' = [Locals EXCEPT !.u = c.u, !.v = c.v, !.salt = c.salt, !.sigma = secret.sigma]
           /\ expander' = secret.ctx
    /\ queue' = <<"x", "y">>
    /\ pc' = "decrypt"
    /\ UNCHANGED <<sampler, factors, product, prng, buffers, ret, sent, damage>>

Decrypt ==
    /\ Ready("decrypt")
    /\ loc' = [loc EXCEPT !.tmp = vect_resize(Zeros(VEC_N_SIZE_64), PARAM_N, loc.v, PARAM_N1N2)]
    /\ Multiply(loc.y, loc.u)
    /\ pc' = "decrypt_m"
    /\ UNCHANGED <<queue, expander, sampler, prng, buffers, ret, sent, damage>>

(* The message decoded is encrypted again with the randomness it gives.     *)
DecryptM ==
    /\ Ready("decrypt_m")
    /\ LET word == vect_add(loc.tmp, product, VEC_N_SIZE_64)
           m == code_decode(word)
           public == secret_key_from_string(From(sk, 0, SECRET_KEY_BYTES)).pk
       IN  BeginEncrypt([loc EXCEPT !.m = m, !.tmp = word, !.theta = Theta(m, public, loc.salt)],
                        public, "dec_end")
    /\ NoProduct
    /\ UNCHANGED <<sampler, prng, buffers, ret, sent, damage>>

\* Mutant: only the first half of the ciphertext is compared.
compareU(l) ==
    vect_compare(store8_arr(VEC_N_SIZE_BYTES, l.u), store8_arr(VEC_N_SIZE_BYTES, l.u2),
                 VEC_N_SIZE_BYTES)

(* 0 if the ciphertext is what the encryption has given, 1 otherwise.       *)
compare(l) ==
    LET u_differs == vect_compare(store8_arr(VEC_N_SIZE_BYTES, l.u),
                                  store8_arr(VEC_N_SIZE_BYTES, l.u2), VEC_N_SIZE_BYTES)
        v_differs == vect_compare(store8_arr(VEC_N1N2_SIZE_BYTES, l.v),
                                  store8_arr(VEC_N1N2_SIZE_BYTES, l.v2), VEC_N1N2_SIZE_BYTES)
    IN  IF u_differs = 1 \/ v_differs = 1 THEN 1 ELSE 0

(* result, in 8 bits, is the mask that selects the message or sigma.        *)
DecEnd ==
    /\ Ready("dec_end")
    /\ LET result == (compare(loc) - 1) % 256
       IN  /\ key_dec' = Into(key_dec, SharedSecret(IF result = 255 THEN loc.m ELSE loc.sigma,
                                                    loc.u, loc.v))
           /\ ret' = (result % 2) - 1
    /\ pc' = "print"
    /\ UNCHANGED <<working, loc, prng, pk, sk, ct, key_enc, sent, damage>>

-----------------------------------------------------------------------------
(* What the noise of the cipher does to a codeword.                         *)
Noise ==
    LET of(a) == Bits(a)
    IN  (CyclicProduct(of(loc.x), of(sent.r2)) (+) CyclicProduct(of(sent.r1), of(loc.y))
             (+) of(sent.e)) \cap (0 .. PARAM_N1N2 - 1)

(* vect_mul, with its recursion over words and one block of scratch memory, *)
(* is the product modulo X^PARAM_N - 1, and keeps to its memory.            *)
ProductsAreCyclic ==
    product # None =>
        /\ Fits(Bits(factors[1]), Bits(factors[2])) =>
               Bits(product) = CyclicProduct(Bits(factors[1]), Bits(factors[2]))
        /\ LET mem == multiplied(factors[1], factors[2])
           IN  \A i \in MemorySize .. 2 * MemorySize - 1 : mem[i] = Behind

(* hqc_pke_decrypt gives the decoder the codeword that was sent plus         *)
(* x r2 + r1 y + e and nothing else: the secret vectors it samples again    *)
(* are those of the key, and h cancels.                                     *)
DecryptionSeesTheNoise ==
    pc = "encrypt_u" /\ loc.to = "dec_end" /\ damage = None /\ queue = <<"r1", "r2", "e">> =>
        Bits(loc.tmp) \cap (0 .. PARAM_N1N2 - 1) = Bits(code_encode(sent.m)) (+) Noise

(* crypto_kem_dec returns 0 and the secret of crypto_kem_enc if the          *)
(* ciphertext is intact and its noise is one the code corrects.             *)
KeysAgree ==
    pc = "print" /\ damage = None =>
        (Cardinality(Noise) <= Radius => ret = 0 /\ key_dec = key_enc)

(* A ciphertext with any bit changed is rejected: crypto_kem_dec returns -1 *)
(* and the secret made of sigma, never of the message.                      *)
DamagedIsRejected ==
    pc = "print" /\ damage # None =>
        /\ ret = -1
        /\ key_dec = Into(key_dec, SharedSecret(sent.sigma, loc.u, loc.v))
==============================================================================
