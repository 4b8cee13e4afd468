--------------------------- MODULE SessionProofs ---------------------------
(***************************************************************************)
(* Proofs about Session: what is proved of Kem holds at the three levels,   *)
(* which share their buffers, in every session.  Each product of           *)
(* polynomials is the cyclic one, nothing secret is left while main waits,  *)
(* decryption is left with the noise alone, both sides share the secret,    *)
(* and a level prints the same every time.                                  *)
(***************************************************************************)
EXTENDS Session, SequenceTheorems, TLAPS

(* Kem with its theorems, at the parameters of each level                   *)
P128 == INSTANCE KemProofs WITH
    PARAM_N <- Parameters["1"].n, PARAM_N1N2 <- Parameters["1"].n1n2,
    PARAM_OMEGA <- Parameters["1"].omega, PARAM_OMEGA_R <- Parameters["1"].omega_r,
    PARAM_OMEGA_E <- Parameters["1"].omega_e
P192 == INSTANCE KemProofs WITH
    PARAM_N <- Parameters["3"].n, PARAM_N1N2 <- Parameters["3"].n1n2,
    PARAM_OMEGA <- Parameters["3"].omega, PARAM_OMEGA_R <- Parameters["3"].omega_r,
    PARAM_OMEGA_E <- Parameters["3"].omega_e
P256 == INSTANCE KemProofs WITH
    PARAM_N <- Parameters["5"].n, PARAM_N1N2 <- Parameters["5"].n1n2,
    PARAM_OMEGA <- Parameters["5"].omega, PARAM_OMEGA_R <- Parameters["5"].omega_r,
    PARAM_OMEGA_E <- Parameters["5"].omega_e

(* SHAKE-256 delivers bytes.                                               *)
ShakeGivesBytes == \A string, k : shake256(string, k) \in 0 .. 2^BYTE - 1

(* None is no pair of factors, and no damage.                              *)
NoneIsNoPair == \A a, b : None # <<a, b>>

-----------------------------------------------------------------------------
(***************************************************************************)
(* The level of HQC-128                                                    *)
(***************************************************************************)

(* The operators of Session's level and those that Kem's theorems are about. *)
LEMMA Operators128 ==
    /\ \A m, o, a, b, n, s : HQC128!karatsuba(m, o, a, b, n, s) = P128!karatsuba(m, o, a, b, n, s)
    /\ \A a, b : HQC128!multiplied(a, b) = P128!multiplied(a, b)
    /\ \A a : HQC128!reduce(a) = P128!reduce(a)
    /\ \A a, b : HQC128!vect_mul(a, b) = P128!vect_mul(a, b)
    /\ \A a, b, n : HQC128!vect_add(a, b, n) = P128!vect_add(a, b, n)
    /\ \A o, n, a, b : HQC128!vect_resize(o, n, a, b) = P128!vect_resize(o, n, a, b)
    /\ \A n, s : HQC128!load8_arr(n, s) = P128!load8_arr(n, s)
    /\ \A n, a : HQC128!store8_arr(n, a) = P128!store8_arr(n, a)
    /\ \A c : HQC128!vect_set_random(c) = P128!vect_set_random(c)
    /\ \A m : HQC128!code_encode(m) = P128!code_encode(m)
    /\ \A a : HQC128!code_decode(a) = P128!code_decode(a)
    /\ \A a, s : HQC128!Into(a, s) = P128!Into(a, s)
    /\ \A u, v, s : HQC128!ciphertext_to_string(u, v, s) = P128!ciphertext_to_string(u, v, s)
    /\ \A m, u, v : HQC128!SharedSecret(m, u, v) = P128!SharedSecret(m, u, v)
    /\ \A l : HQC128!compare(l) = P128!compare(l)
<1>1. ASSUME NEW m, NEW o, NEW a, NEW b, NEW n, NEW s
      PROVE  HQC128!karatsuba(m, o, a, b, n, s) = P128!karatsuba(m, o, a, b, n, s)
    BY DEF
       HQC128!(+), P128!(+), HQC128!Up, P128!Up, HQC128!Down, P128!Down, HQC128!Low, P128!Low,
       HQC128!Shl, P128!Shl, HQC128!Shr, P128!Shr, HQC128!Cardinality, P128!Cardinality,
       HQC128!XorOver, P128!XorOver, HQC128!base_mul, P128!base_mul, HQC128!Words, P128!Words,
       HQC128!VEC_N_SIZE_64, P128!VEC_N_SIZE_64, HQC128!Put, P128!Put, HQC128!karatsuba_add1,
       P128!karatsuba_add1, HQC128!karatsuba_add2, P128!karatsuba_add2, HQC128!Scratch,
       P128!Scratch, HQC128!MemorySize, P128!MemorySize, HQC128!Memories, P128!Memories,
       HQC128!karatsuba, P128!karatsuba
<1>2. ASSUME NEW a, NEW b
      PROVE  HQC128!multiplied(a, b) = P128!multiplied(a, b)
    BY <1>1 DEF
       HQC128!Words, P128!Words, HQC128!VEC_N_SIZE_64, P128!VEC_N_SIZE_64, HQC128!Scratch,
       P128!Scratch, HQC128!MemorySize, P128!MemorySize, HQC128!Behind, P128!Behind,
       HQC128!multiplied, P128!multiplied
<1>3. ASSUME NEW a
      PROVE  HQC128!reduce(a) = P128!reduce(a)
    BY DEF
       HQC128!(+), P128!(+), HQC128!Up, P128!Up, HQC128!Down, P128!Down, HQC128!Low, P128!Low,
       HQC128!Shl, P128!Shl, HQC128!Shr, P128!Shr, HQC128!Words, P128!Words, HQC128!VEC_N_SIZE_64,
       P128!VEC_N_SIZE_64, HQC128!RED_MASK, P128!RED_MASK, HQC128!reduce, P128!reduce
<1>4. ASSUME NEW a, NEW b
      PROVE  HQC128!vect_mul(a, b) = P128!vect_mul(a, b)
    BY <1>2, <1>3 DEF
       HQC128!Words, P128!Words, HQC128!VEC_N_SIZE_64, P128!VEC_N_SIZE_64, HQC128!vect_mul,
       P128!vect_mul
<1>5. ASSUME NEW a, NEW b, NEW n
      PROVE  HQC128!vect_add(a, b, n) = P128!vect_add(a, b, n)
    BY DEF
       HQC128!(+), P128!(+), HQC128!vect_add, P128!vect_add
<1>6. ASSUME NEW o, NEW n, NEW a, NEW b
      PROVE  HQC128!vect_resize(o, n, a, b) = P128!vect_resize(o, n, a, b)
    BY DEF
       HQC128!Words, P128!Words, HQC128!VEC_N1N2_SIZE_64, P128!VEC_N1N2_SIZE_64,
       HQC128!vect_resize, P128!vect_resize
<1>7. ASSUME NEW n, NEW s
      PROVE  HQC128!load8_arr(n, s) = P128!load8_arr(n, s)
    BY DEF
       HQC128!PerWord, P128!PerWord, HQC128!BitsOfByte, P128!BitsOfByte, HQC128!load8, P128!load8,
       HQC128!load8_arr, P128!load8_arr
<1>8. ASSUME NEW n, NEW a
      PROVE  HQC128!store8_arr(n, a) = P128!store8_arr(n, a)
    BY DEF
       HQC128!PerWord, P128!PerWord, HQC128!ByteOf, P128!ByteOf, HQC128!store8_arr,
       P128!store8_arr
<1>9. ASSUME NEW c
      PROVE  HQC128!vect_set_random(c) = P128!vect_set_random(c)
    BY <1>7 DEF
       HQC128!Words, P128!Words, HQC128!VEC_N_SIZE_64, P128!VEC_N_SIZE_64,
       HQC128!VEC_N_SIZE_BYTES, P128!VEC_N_SIZE_BYTES, HQC128!CeilDivide, P128!CeilDivide,
       HQC128!RED_MASK, P128!RED_MASK, HQC128!seedexpander, P128!seedexpander,
       HQC128!vect_set_random, P128!vect_set_random
<1>10. ASSUME NEW m
      PROVE  HQC128!code_encode(m) = P128!code_encode(m)
    BY <1>7 DEF
       HQC128!Words, P128!Words, HQC128!VEC_N1N2_SIZE_64, P128!VEC_N1N2_SIZE_64, HQC128!Bits,
       P128!Bits, HQC128!ToWords, P128!ToWords, HQC128!MessageBits, P128!MessageBits,
       HQC128!code_encode, P128!code_encode
<1>11. ASSUME NEW a
      PROVE  HQC128!code_decode(a) = P128!code_decode(a)
    BY <1>8 DEF
       HQC128!Words, P128!Words, HQC128!Cardinality, P128!Cardinality, HQC128!Bits, P128!Bits,
       HQC128!ToWords, P128!ToWords, HQC128!MessageBits, P128!MessageBits, HQC128!code_decode,
       P128!code_decode
<1>12. ASSUME NEW a, NEW s
      PROVE  HQC128!Into(a, s) = P128!Into(a, s)
    BY DEF
       HQC128!Into, P128!Into
<1>13. ASSUME NEW u, NEW v, NEW s
      PROVE  HQC128!ciphertext_to_string(u, v, s) = P128!ciphertext_to_string(u, v, s)
    BY <1>8 DEF
       HQC128!CeilDivide, P128!CeilDivide, HQC128!VEC_N_SIZE_BYTES, P128!VEC_N_SIZE_BYTES,
       HQC128!VEC_N1N2_SIZE_BYTES, P128!VEC_N1N2_SIZE_BYTES, HQC128!ciphertext_to_string,
       P128!ciphertext_to_string
<1>14. ASSUME NEW m, NEW u, NEW v
      PROVE  HQC128!SharedSecret(m, u, v) = P128!SharedSecret(m, u, v)
    BY DEF
       HQC128!PerWord, P128!PerWord, HQC128!ByteOf, P128!ByteOf, HQC128!store8_arr,
       P128!store8_arr, HQC128!CeilDivide, P128!CeilDivide, HQC128!VEC_N_SIZE_BYTES,
       P128!VEC_N_SIZE_BYTES, HQC128!VEC_N1N2_SIZE_BYTES, P128!VEC_N1N2_SIZE_BYTES,
       HQC128!K_FCT_DOMAIN, P128!K_FCT_DOMAIN, HQC128!shake256_512_ds, P128!shake256_512_ds,
       HQC128!SharedSecret, P128!SharedSecret
<1>15. ASSUME NEW l
      PROVE  HQC128!compare(l) = P128!compare(l)
    BY <1>8 DEF
       HQC128!CeilDivide, P128!CeilDivide, HQC128!VEC_N_SIZE_BYTES, P128!VEC_N_SIZE_BYTES,
       HQC128!VEC_N1N2_SIZE_BYTES, P128!VEC_N1N2_SIZE_BYTES, HQC128!differences, P128!differences,
       HQC128!vect_compare, P128!vect_compare, HQC128!compare, P128!compare
<1> QED
    BY <1>1, <1>2, <1>3, <1>4, <1>5, <1>6, <1>7, <1>8, <1>9, <1>10, <1>11, <1>12, <1>13, <1>14,
    <1>15

(* The parts of the functions of the level are those of Kem.                *)
LEMMA Parts128 ==
    ASSUME \/ HQC128!Draw \/ HQC128!Settle \/ HQC128!Collect \/ HQC128!VectMul
           \/ HQC128!KeygenSeeds \/ HQC128!KeygenH \/ HQC128!KeygenS
           \/ HQC128!EncryptU \/ HQC128!EncryptMG \/ HQC128!EncryptV
           \/ HQC128!EncBegin \/ HQC128!EncEnd
           \/ HQC128!DecBegin \/ HQC128!Decrypt \/ HQC128!DecryptM \/ HQC128!DecEnd
           \/ \E byte, bit : HQC128!Damage(byte, bit)
    PROVE  P128!KemNext
<1>1. ASSUME HQC128!Draw PROVE P128!Draw
    BY <1>1 DEF
       HQC128!FW!m_val, P128!FW!m_val, HQC128!FW!cond_sub, P128!FW!cond_sub, HQC128!FW!reduce,
       P128!FW!reduce, HQC128!FW!Draw, P128!FW!Draw, HQC128!buffers, P128!buffers,
       HQC128!WeightOf, P128!WeightOf, HQC128!Numbers, P128!Numbers, HQC128!seedexpander,
       P128!seedexpander, HQC128!after, P128!after, HQC128!PerWord, P128!PerWord,
       HQC128!CeilDivide, P128!CeilDivide, HQC128!Draw, P128!Draw
<1>2. ASSUME HQC128!Settle PROVE P128!Settle
    BY <1>2 DEF
       HQC128!FW!Repeated, P128!FW!Repeated, HQC128!FW!Settle, P128!FW!Settle, HQC128!buffers,
       P128!buffers, HQC128!Settle, P128!Settle
<1>3. ASSUME HQC128!Collect PROVE P128!Collect
    BY <1>3 DEF
       HQC128!FW!Collect, P128!FW!Collect, HQC128!buffers, P128!buffers, HQC128!Words, P128!Words,
       HQC128!VEC_N_SIZE_64, P128!VEC_N_SIZE_64, HQC128!ToWords, P128!ToWords, HQC128!Collect,
       P128!Collect
<1>4. ASSUME HQC128!VectMul PROVE P128!VectMul
    BY <1>4, Operators128 DEF
       HQC128!sampler, P128!sampler, HQC128!buffers, P128!buffers, HQC128!VectMul, P128!VectMul
<1>5. ASSUME HQC128!KeygenSeeds PROVE P128!KeygenSeeds
    BY <1>5 DEF
       HQC128!sampler, P128!sampler, HQC128!buffers, P128!buffers, HQC128!Ready, P128!Ready,
       HQC128!SEEDEXPANDER_DOMAIN, P128!SEEDEXPANDER_DOMAIN, HQC128!seedexpander_init,
       P128!seedexpander_init, HQC128!PerWord, P128!PerWord, HQC128!CeilDivide, P128!CeilDivide,
       HQC128!seedexpander, P128!seedexpander, HQC128!after, P128!after, HQC128!Locals,
       P128!Locals, HQC128!KeygenSeeds, P128!KeygenSeeds
<1>6. ASSUME HQC128!KeygenH PROVE P128!KeygenH
    BY <1>6, Operators128 DEF
       HQC128!sampler, P128!sampler, HQC128!buffers, P128!buffers, HQC128!Ready, P128!Ready,
       HQC128!Multiply, P128!Multiply, HQC128!SEEDEXPANDER_DOMAIN, P128!SEEDEXPANDER_DOMAIN,
       HQC128!seedexpander_init, P128!seedexpander_init, HQC128!KeygenH, P128!KeygenH
<1>7. ASSUME HQC128!KeygenS PROVE P128!KeygenS
    BY <1>7, Operators128 DEF
       HQC128!sampler, P128!sampler, HQC128!Ready, P128!Ready, HQC128!NoProduct, P128!NoProduct,
       HQC128!public_key_to_string, P128!public_key_to_string, HQC128!secret_key_to_string,
       P128!secret_key_to_string, HQC128!Words, P128!Words, HQC128!VEC_N_SIZE_64,
       P128!VEC_N_SIZE_64, HQC128!CeilDivide, P128!CeilDivide, HQC128!VEC_N_SIZE_BYTES,
       P128!VEC_N_SIZE_BYTES, HQC128!KeygenS, P128!KeygenS
<1>8. ASSUME HQC128!EncryptU PROVE P128!EncryptU
    BY <1>8 DEF
       HQC128!sampler, P128!sampler, HQC128!buffers, P128!buffers, HQC128!Ready, P128!Ready,
       HQC128!Multiply, P128!Multiply, HQC128!EncryptU, P128!EncryptU
<1>9. ASSUME HQC128!EncryptMG PROVE P128!EncryptMG
    BY <1>9, Operators128 DEF
       HQC128!sampler, P128!sampler, HQC128!buffers, P128!buffers, HQC128!Ready, P128!Ready,
       HQC128!Multiply, P128!Multiply, HQC128!Words, P128!Words, HQC128!VEC_N_SIZE_64,
       P128!VEC_N_SIZE_64, HQC128!Zeros, P128!Zeros, HQC128!EncryptMG, P128!EncryptMG
<1>10. ASSUME HQC128!EncryptV PROVE P128!EncryptV
    BY <1>10, Operators128 DEF
       HQC128!sampler, P128!sampler, HQC128!buffers, P128!buffers, HQC128!Ready, P128!Ready,
       HQC128!NoProduct, P128!NoProduct, HQC128!Words, P128!Words, HQC128!VEC_N_SIZE_64,
       P128!VEC_N_SIZE_64, HQC128!EncryptV, P128!EncryptV
<1>11. ASSUME HQC128!EncBegin PROVE P128!EncBegin
    BY <1>11, Operators128 DEF
       HQC128!sampler, P128!sampler, HQC128!buffers, P128!buffers, HQC128!Ready, P128!Ready,
       HQC128!public_key_from_string, P128!public_key_from_string, HQC128!From, P128!From,
       HQC128!SEEDEXPANDER_DOMAIN, P128!SEEDEXPANDER_DOMAIN, HQC128!seedexpander_init,
       P128!seedexpander_init, HQC128!Words, P128!Words, HQC128!VEC_N_SIZE_64, P128!VEC_N_SIZE_64,
       HQC128!CeilDivide, P128!CeilDivide, HQC128!VEC_N_SIZE_BYTES, P128!VEC_N_SIZE_BYTES,
       HQC128!PUBLIC_KEY_BYTES, P128!PUBLIC_KEY_BYTES, HQC128!PerWord, P128!PerWord,
       HQC128!seedexpander, P128!seedexpander, HQC128!after, P128!after, HQC128!G_FCT_DOMAIN,
       P128!G_FCT_DOMAIN, HQC128!shake256_512_ds, P128!shake256_512_ds, HQC128!Theta, P128!Theta,
       HQC128!BeginEncrypt, P128!BeginEncrypt, HQC128!EncBegin, P128!EncBegin
<1>12. ASSUME HQC128!EncEnd PROVE P128!EncEnd
    BY <1>12, Operators128 DEF
       HQC128!sampler, P128!sampler, HQC128!working, P128!working, HQC128!Ready, P128!Ready,
       HQC128!EncEnd, P128!EncEnd
<1>13. ASSUME HQC128!DecBegin PROVE P128!DecBegin
    BY <1>13, Operators128 DEF
       HQC128!sampler, P128!sampler, HQC128!buffers, P128!buffers, HQC128!Ready, P128!Ready,
       HQC128!SEEDEXPANDER_DOMAIN, P128!SEEDEXPANDER_DOMAIN, HQC128!seedexpander_init,
       P128!seedexpander_init, HQC128!CeilDivide, P128!CeilDivide, HQC128!VEC_N_SIZE_BYTES,
       P128!VEC_N_SIZE_BYTES, HQC128!PUBLIC_KEY_BYTES, P128!PUBLIC_KEY_BYTES,
       HQC128!SECRET_KEY_BYTES, P128!SECRET_KEY_BYTES, HQC128!VEC_N1N2_SIZE_BYTES,
       P128!VEC_N1N2_SIZE_BYTES, HQC128!CIPHERTEXT_BYTES, P128!CIPHERTEXT_BYTES, HQC128!Words,
       P128!Words, HQC128!VEC_N_SIZE_64, P128!VEC_N_SIZE_64, HQC128!VEC_N1N2_SIZE_64,
       P128!VEC_N1N2_SIZE_64, HQC128!From, P128!From, HQC128!secret_key_from_string,
       P128!secret_key_from_string, HQC128!ciphertext_from_string, P128!ciphertext_from_string,
       HQC128!Locals, P128!Locals, HQC128!DecBegin, P128!DecBegin
<1>14. ASSUME HQC128!Decrypt PROVE P128!Decrypt
    BY <1>14, Operators128 DEF
       HQC128!sampler, P128!sampler, HQC128!buffers, P128!buffers, HQC128!Ready, P128!Ready,
       HQC128!Multiply, P128!Multiply, HQC128!Words, P128!Words, HQC128!VEC_N_SIZE_64,
       P128!VEC_N_SIZE_64, HQC128!Zeros, P128!Zeros, HQC128!Decrypt, P128!Decrypt
<1>15. ASSUME HQC128!DecryptM PROVE P128!DecryptM
    BY <1>15, Operators128 DEF
       HQC128!sampler, P128!sampler, HQC128!buffers, P128!buffers, HQC128!Ready, P128!Ready,
       HQC128!NoProduct, P128!NoProduct, HQC128!public_key_from_string,
       P128!public_key_from_string, HQC128!From, P128!From, HQC128!SEEDEXPANDER_DOMAIN,
       P128!SEEDEXPANDER_DOMAIN, HQC128!seedexpander_init, P128!seedexpander_init,
       HQC128!CeilDivide, P128!CeilDivide, HQC128!VEC_N_SIZE_BYTES, P128!VEC_N_SIZE_BYTES,
       HQC128!PUBLIC_KEY_BYTES, P128!PUBLIC_KEY_BYTES, HQC128!SECRET_KEY_BYTES,
       P128!SECRET_KEY_BYTES, HQC128!Words, P128!Words, HQC128!VEC_N_SIZE_64, P128!VEC_N_SIZE_64,
       HQC128!G_FCT_DOMAIN, P128!G_FCT_DOMAIN, HQC128!shake256_512_ds, P128!shake256_512_ds,
       HQC128!Theta, P128!Theta, HQC128!secret_key_from_string, P128!secret_key_from_string,
       HQC128!BeginEncrypt, P128!BeginEncrypt, HQC128!DecryptM, P128!DecryptM
<1>16. ASSUME HQC128!DecEnd PROVE P128!DecEnd
    BY <1>16, Operators128 DEF
       HQC128!sampler, P128!sampler, HQC128!working, P128!working, HQC128!Ready, P128!Ready,
       HQC128!DecEnd, P128!DecEnd
<1>17. ASSUME NEW byte, NEW bit, HQC128!Damage(byte, bit) PROVE P128!Damage(byte, bit)
    BY <1>17 DEF
       HQC128!sampler, P128!sampler, HQC128!working, P128!working, HQC128!Ready, P128!Ready,
       HQC128!Damage, P128!Damage
<1> QED
    BY <1>1, <1>2, <1>3, <1>4, <1>5, <1>6, <1>7, <1>8, <1>9, <1>10, <1>11, <1>12, <1>13, <1>14,
    <1>15, <1>16, <1>17 DEF P128!KemNext

(* The level's parameters, the lengths of its strings, and its promises.     *)
LEMMA Promises128 ==
    /\ HQC128!ParametersFit => P128!ParametersFit
    /\ HQC128!PUBLIC_KEY_BYTES = P128!PUBLIC_KEY_BYTES
    /\ HQC128!SECRET_KEY_BYTES = P128!SECRET_KEY_BYTES
    /\ HQC128!CIPHERTEXT_BYTES = P128!CIPHERTEXT_BYTES
    /\ P128!ProductsAreCyclic => HQC128!ProductsAreCyclic
    /\ P128!DecryptionSeesTheNoise => HQC128!DecryptionSeesTheNoise
    /\ P128!KeysAgree => HQC128!KeysAgree
<1>1. HQC128!ParametersFit => P128!ParametersFit
    BY DEF HQC128!ParametersFit, P128!ParametersFit
<1>2. /\ HQC128!PUBLIC_KEY_BYTES = P128!PUBLIC_KEY_BYTES
      /\ HQC128!SECRET_KEY_BYTES = P128!SECRET_KEY_BYTES
      /\ HQC128!CIPHERTEXT_BYTES = P128!CIPHERTEXT_BYTES
    BY DEF
       HQC128!CeilDivide, P128!CeilDivide, HQC128!VEC_N_SIZE_BYTES, P128!VEC_N_SIZE_BYTES,
       HQC128!PUBLIC_KEY_BYTES, P128!PUBLIC_KEY_BYTES, HQC128!SECRET_KEY_BYTES,
       P128!SECRET_KEY_BYTES, HQC128!VEC_N1N2_SIZE_BYTES, P128!VEC_N1N2_SIZE_BYTES,
       HQC128!CIPHERTEXT_BYTES, P128!CIPHERTEXT_BYTES
<1>3. P128!ProductsAreCyclic => HQC128!ProductsAreCyclic
    BY Operators128 DEF
       HQC128!Words, P128!Words, HQC128!VEC_N_SIZE_64, P128!VEC_N_SIZE_64, HQC128!MemorySize,
       P128!MemorySize, HQC128!Behind, P128!Behind, HQC128!Bits, P128!Bits, HQC128!Cardinality,
       P128!Cardinality, HQC128!Fits, P128!Fits, HQC128!CyclicProduct, P128!CyclicProduct,
       HQC128!ProductsAreCyclic, P128!ProductsAreCyclic
<1>4. HQC128!Noise = P128!Noise
    BY DEF
       HQC128!(+), P128!(+), HQC128!Bits, P128!Bits, HQC128!Cardinality, P128!Cardinality,
       HQC128!CyclicProduct, P128!CyclicProduct, HQC128!Noise, P128!Noise
<1>5. P128!DecryptionSeesTheNoise => HQC128!DecryptionSeesTheNoise
    BY <1>4, Operators128 DEF
       HQC128!(+), P128!(+), HQC128!Bits, P128!Bits, HQC128!DecryptionSeesTheNoise,
       P128!DecryptionSeesTheNoise
<1>6. P128!KeysAgree => HQC128!KeysAgree
    BY <1>4 DEF
       HQC128!Cardinality, P128!Cardinality, HQC128!MessageBits, P128!MessageBits, HQC128!Radius,
       P128!Radius, HQC128!KeysAgree, P128!KeysAgree
<1> QED
    BY <1>1, <1>2, <1>3, <1>4, <1>5, <1>6
-----------------------------------------------------------------------------
(***************************************************************************)
(* The level of HQC-192                                                    *)
(***************************************************************************)

(* The operators of Session's level and those that Kem's theorems are about. *)
LEMMA Operators192 ==
    /\ \A m, o, a, b, n, s : HQC192!karatsuba(m, o, a, b, n, s) = P192!karatsuba(m, o, a, b, n, s)
    /\ \A a, b : HQC192!multiplied(a, b) = P192!multiplied(a, b)
    /\ \A a : HQC192!reduce(a) = P192!reduce(a)
    /\ \A a, b : HQC192!vect_mul(a, b) = P192!vect_mul(a, b)
    /\ \A a, b, n : HQC192!vect_add(a, b, n) = P192!vect_add(a, b, n)
    /\ \A o, n, a, b : HQC192!vect_resize(o, n, a, b) = P192!vect_resize(o, n, a, b)
    /\ \A n, s : HQC192!load8_arr(n, s) = P192!load8_arr(n, s)
    /\ \A n, a : HQC192!store8_arr(n, a) = P192!store8_arr(n, a)
    /\ \A c : HQC192!vect_set_random(c) = P192!vect_set_random(c)
    /\ \A m : HQC192!code_encode(m) = P192!code_encode(m)
    /\ \A a : HQC192!code_decode(a) = P192!code_decode(a)
    /\ \A a, s : HQC192!Into(a, s) = P192!Into(a, s)
    /\ \A u, v, s : HQC192!ciphertext_to_string(u, v, s) = P192!ciphertext_to_string(u, v, s)
    /\ \A m, u, v : HQC192!SharedSecret(m, u, v) = P192!SharedSecret(m, u, v)
    /\ \A l : HQC192!compare(l) = P192!compare(l)
<1>1. ASSUME NEW m, NEW o, NEW a, NEW b, NEW n, NEW s
      PROVE  HQC192!karatsuba(m, o, a, b, n, s) = P192!karatsuba(m, o, a, b, n, s)
    BY DEF
       HQC192!(+), P192!(+), HQC192!Up, P192!Up, HQC192!Down, P192!Down, HQC192!Low, P192!Low,
       HQC192!Shl, P192!Shl, HQC192!Shr, P192!Shr, HQC192!Cardinality, P192!Cardinality,
       HQC192!XorOver, P192!XorOver, HQC192!base_mul, P192!base_mul, HQC192!Words, P192!Words,
       HQC192!VEC_N_SIZE_64, P192!VEC_N_SIZE_64, HQC192!Put, P192!Put, HQC192!karatsuba_add1,
       P192!karatsuba_add1, HQC192!karatsuba_add2, P192!karatsuba_add2, HQC192!Scratch,
       P192!Scratch, HQC192!MemorySize, P192!MemorySize, HQC192!Memories, P192!Memories,
       HQC192!karatsuba, P192!karatsuba
<1>2. ASSUME NEW a, NEW b
      PROVE  HQC192!multiplied(a, b) = P192!multiplied(a, b)
    BY <1>1 DEF
       HQC192!Words, P192!Words, HQC192!VEC_N_SIZE_64, P192!VEC_N_SIZE_64, HQC192!Scratch,
       P192!Scratch, HQC192!MemorySize, P192!MemorySize, HQC192!Behind, P192!Behind,
       HQC192!multiplied, P192!multiplied
<1>3. ASSUME NEW a
      PROVE  HQC192!reduce(a) = P192!reduce(a)
    BY DEF
       HQC192!(+), P192!(+), HQC192!Up, P192!Up, HQC192!Down, P192!Down, HQC192!Low, P192!Low,
       HQC192!Shl, P192!Shl, HQC192!Shr, P192!Shr, HQC192!Words, P192!Words, HQC192!VEC_N_SIZE_64,
       P192!VEC_N_SIZE_64, HQC192!RED_MASK, P192!RED_MASK, HQC192!reduce, P192!reduce
<1>4. ASSUME NEW a, NEW b
      PROVE  HQC192!vect_mul(a, b) = P192!vect_mul(a, b)
    BY <1>2, <1>3 DEF
       HQC192!Words, P192!Words, HQC192!VEC_N_SIZE_64, P192!VEC_N_SIZE_64, HQC192!vect_mul,
       P192!vect_mul
<1>5. ASSUME NEW a, NEW b, NEW n
      PROVE  HQC192!vect_add(a, b, n) = P192!vect_add(a, b, n)
    BY DEF
       HQC192!(+), P192!(+), HQC192!vect_add, P192!vect_add
<1>6. ASSUME NEW o, NEW n, NEW a, NEW b
      PROVE  HQC192!vect_resize(o, n, a, b) = P192!vect_resize(o, n, a, b)
    BY DEF
       HQC192!Words, P192!Words, HQC192!VEC_N1N2_SIZE_64, P192!VEC_N1N2_SIZE_64,
       HQC192!vect_resize, P192!vect_resize
<1>7. ASSUME NEW n, NEW s
      PROVE  HQC192!load8_arr(n, s) = P192!load8_arr(n, s)
    BY DEF
       HQC192!PerWord, P192!PerWord, HQC192!BitsOfByte, P192!BitsOfByte, HQC192!load8, P192!load8,
       HQC192!load8_arr, P192!load8_arr
<1>8. ASSUME NEW n, NEW a
      PROVE  HQC192!store8_arr(n, a) = P192!store8_arr(n, a)
    BY DEF
       HQC192!PerWord, P192!PerWord, HQC192!ByteOf, P192!ByteOf, HQC192!store8_arr,
       P192!store8_arr
<1>9. ASSUME NEW c
      PROVE  HQC192!vect_set_random(c) = P192!vect_set_random(c)
    BY <1>7 DEF
       HQC192!Words, P192!Words, HQC192!VEC_N_SIZE_64, P192!VEC_N_SIZE_64,
       HQC192!VEC_N_SIZE_BYTES, P192!VEC_N_SIZE_BYTES, HQC192!CeilDivide, P192!CeilDivide,
       HQC192!RED_MASK, P192!RED_MASK, HQC192!seedexpander, P192!seedexpander,
       HQC192!vect_set_random, P192!vect_set_random
<1>10. ASSUME NEW m
      PROVE  HQC192!code_encode(m) = P192!code_encode(m)
    BY <1>7 DEF
       HQC192!Words, P192!Words, HQC192!VEC_N1N2_SIZE_64, P192!VEC_N1N2_SIZE_64, HQC192!Bits,
       P192!Bits, HQC192!ToWords, P192!ToWords, HQC192!MessageBits, P192!MessageBits,
       HQC192!code_encode, P192!code_encode
<1>11. ASSUME NEW a
      PROVE  HQC192!code_decode(a) = P192!code_decode(a)
    BY <1>8 DEF
       HQC192!Words, P192!Words, HQC192!Cardinality, P192!Cardinality, HQC192!Bits, P192!Bits,
       HQC192!ToWords, P192!ToWords, HQC192!MessageBits, P192!MessageBits, HQC192!code_decode,
       P192!code_decode
<1>12. ASSUME NEW a, NEW s
      PROVE  HQC192!Into(a, s) = P192!Into(a, s)
    BY DEF
       HQC192!Into, P192!Into
<1>13. ASSUME NEW u, NEW v, NEW s
      PROVE  HQC192!ciphertext_to_string(u, v, s) = P192!ciphertext_to_string(u, v, s)
    BY <1>8 DEF
       HQC192!CeilDivide, P192!CeilDivide, HQC192!VEC_N_SIZE_BYTES, P192!VEC_N_SIZE_BYTES,
       HQC192!VEC_N1N2_SIZE_BYTES, P192!VEC_N1N2_SIZE_BYTES, HQC192!ciphertext_to_string,
       P192!ciphertext_to_string
<1>14. ASSUME NEW m, NEW u, NEW v
      PROVE  HQC192!SharedSecret(m, u, v) = P192!SharedSecret(m, u, v)
    BY DEF
       HQC192!PerWord, P192!PerWord, HQC192!ByteOf, P192!ByteOf, HQC192!store8_arr,
       P192!store8_arr, HQC192!CeilDivide, P192!CeilDivide, HQC192!VEC_N_SIZE_BYTES,
       P192!VEC_N_SIZE_BYTES, HQC192!VEC_N1N2_SIZE_BYTES, P192!VEC_N1N2_SIZE_BYTES,
       HQC192!K_FCT_DOMAIN, P192!K_FCT_DOMAIN, HQC192!shake256_512_ds, P192!shake256_512_ds,
       HQC192!SharedSecret, P192!SharedSecret
<1>15. ASSUME NEW l
      PROVE  HQC192!compare(l) = P192!compare(l)
    BY <1>8 DEF
       HQC192!CeilDivide, P192!CeilDivide, HQC192!VEC_N_SIZE_BYTES, P192!VEC_N_SIZE_BYTES,
       HQC192!VEC_N1N2_SIZE_BYTES, P192!VEC_N1N2_SIZE_BYTES, HQC192!differences, P192!differences,
       HQC192!vect_compare, P192!vect_compare, HQC192!compare, P192!compare
<1> QED
    BY <1>1, <1>2, <1>3, <1>4, <1>5, <1>6, <1>7, <1>8, <1>9, <1>10, <1>11, <1>12, <1>13, <1>14,
    <1>15

(* The parts of the functions of the level are those of Kem.                *)
LEMMA Parts192 ==
    ASSUME \/ HQC192!Draw \/ HQC192!Settle \/ HQC192!Collect \/ HQC192!VectMul
           \/ HQC192!KeygenSeeds \/ HQC192!KeygenH \/ HQC192!KeygenS
           \/ HQC192!EncryptU \/ HQC192!EncryptMG \/ HQC192!EncryptV
           \/ HQC192!EncBegin \/ HQC192!EncEnd
           \/ HQC192!DecBegin \/ HQC192!Decrypt \/ HQC192!DecryptM \/ HQC192!DecEnd
           \/ \E byte, bit : HQC192!Damage(byte, bit)
    PROVE  P192!KemNext
<1>1. ASSUME HQC192!Draw PROVE P192!Draw
    BY <1>1 DEF
       HQC192!FW!m_val, P192!FW!m_val, HQC192!FW!cond_sub, P192!FW!cond_sub, HQC192!FW!reduce,
       P192!FW!reduce, HQC192!FW!Draw, P192!FW!Draw, HQC192!buffers, P192!buffers,
       HQC192!WeightOf, P192!WeightOf, HQC192!Numbers, P192!Numbers, HQC192!seedexpander,
       P192!seedexpander, HQC192!after, P192!after, HQC192!PerWord, P192!PerWord,
       HQC192!CeilDivide, P192!CeilDivide, HQC192!Draw, P192!Draw
<1>2. ASSUME HQC192!Settle PROVE P192!Settle
    BY <1>2 DEF
       HQC192!FW!Repeated, P192!FW!Repeated, HQC192!FW!Settle, P192!FW!Settle, HQC192!buffers,
       P192!buffers, HQC192!Settle, P192!Settle
<1>3. ASSUME HQC192!Collect PROVE P192!Collect
    BY <1>3 DEF
       HQC192!FW!Collect, P192!FW!Collect, HQC192!buffers, P192!buffers, HQC192!Words, P192!Words,
       HQC192!VEC_N_SIZE_64, P192!VEC_N_SIZE_64, HQC192!ToWords, P192!ToWords, HQC192!Collect,
       P192!Collect
<1>4. ASSUME HQC192!VectMul PROVE P192!VectMul
    BY <1>4, Operators192 DEF
       HQC192!sampler, P192!sampler, HQC192!buffers, P192!buffers, HQC192!VectMul, P192!VectMul
<1>5. ASSUME HQC192!KeygenSeeds PROVE P192!KeygenSeeds
    BY <1>5 DEF
       HQC192!sampler, P192!sampler, HQC192!buffers, P192!buffers, HQC192!Ready, P192!Ready,
       HQC192!SEEDEXPANDER_DOMAIN, P192!SEEDEXPANDER_DOMAIN, HQC192!seedexpander_init,
       P192!seedexpander_init, HQC192!PerWord, P192!PerWord, HQC192!CeilDivide, P192!CeilDivide,
       HQC192!seedexpander, P192!seedexpander, HQC192!after, P192!after, HQC192!Locals,
       P192!Locals, HQC192!KeygenSeeds, P192!KeygenSeeds
<1>6. ASSUME HQC192!KeygenH PROVE P192!KeygenH
    BY <1>6, Operators192 DEF
       HQC192!sampler, P192!sampler, HQC192!buffers, P192!buffers, HQC192!Ready, P192!Ready,
       HQC192!Multiply, P192!Multiply, HQC192!SEEDEXPANDER_DOMAIN, P192!SEEDEXPANDER_DOMAIN,
       HQC192!seedexpander_init, P192!seedexpander_init, HQC192!KeygenH, P192!KeygenH
<1>7. ASSUME HQC192!KeygenS PROVE P192!KeygenS
    BY <1>7, Operators192 DEF
       HQC192!sampler, P192!sampler, HQC192!Ready, P192!Ready, HQC192!NoProduct, P192!NoProduct,
       HQC192!public_key_to_string, P192!public_key_to_string, HQC192!secret_key_to_string,
       P192!secret_key_to_string, HQC192!Words, P192!Words, HQC192!VEC_N_SIZE_64,
       P192!VEC_N_SIZE_64, HQC192!CeilDivide, P192!CeilDivide, HQC192!VEC_N_SIZE_BYTES,
       P192!VEC_N_SIZE_BYTES, HQC192!KeygenS, P192!KeygenS
<1>8. ASSUME HQC192!EncryptU PROVE P192!EncryptU
    BY <1>8 DEF
       HQC192!sampler, P192!sampler, HQC192!buffers, P192!buffers, HQC192!Ready, P192!Ready,
       HQC192!Multiply, P192!Multiply, HQC192!EncryptU, P192!EncryptU
<1>9. ASSUME HQC192!EncryptMG PROVE P192!EncryptMG
    BY <1>9, Operators192 DEF
       HQC192!sampler, P192!sampler, HQC192!buffers, P192!buffers, HQC192!Ready, P192!Ready,
       HQC192!Multiply, P192!Multiply, HQC192!Words, P192!Words, HQC192!VEC_N_SIZE_64,
       P192!VEC_N_SIZE_64, HQC192!Zeros, P192!Zeros, HQC192!EncryptMG, P192!EncryptMG
<1>10. ASSUME HQC192!EncryptV PROVE P192!EncryptV
    BY <1>10, Operators192 DEF
       HQC192!sampler, P192!sampler, HQC192!buffers, P192!buffers, HQC192!Ready, P192!Ready,
       HQC192!NoProduct, P192!NoProduct, HQC192!Words, P192!Words, HQC192!VEC_N_SIZE_64,
       P192!VEC_N_SIZE_64, HQC192!EncryptV, P192!EncryptV
<1>11. ASSUME HQC192!EncBegin PROVE P192!EncBegin
    BY <1>11, Operators192 DEF
       HQC192!sampler, P192!sampler, HQC192!buffers, P192!buffers, HQC192!Ready, P192!Ready,
       HQC192!public_key_from_string, P192!public_key_from_string, HQC192!From, P192!From,
       HQC192!SEEDEXPANDER_DOMAIN, P192!SEEDEXPANDER_DOMAIN, HQC192!seedexpander_init,
       P192!seedexpander_init, HQC192!Words, P192!Words, HQC192!VEC_N_SIZE_64, P192!VEC_N_SIZE_64,
       HQC192!CeilDivide, P192!CeilDivide, HQC192!VEC_N_SIZE_BYTES, P192!VEC_N_SIZE_BYTES,
       HQC192!PUBLIC_KEY_BYTES, P192!PUBLIC_KEY_BYTES, HQC192!PerWord, P192!PerWord,
       HQC192!seedexpander, P192!seedexpander, HQC192!after, P192!after, HQC192!G_FCT_DOMAIN,
       P192!G_FCT_DOMAIN, HQC192!shake256_512_ds, P192!shake256_512_ds, HQC192!Theta, P192!Theta,
       HQC192!BeginEncrypt, P192!BeginEncrypt, HQC192!EncBegin, P192!EncBegin
<1>12. ASSUME HQC192!EncEnd PROVE P192!EncEnd
    BY <1>12, Operators192 DEF
       HQC192!sampler, P192!sampler, HQC192!working, P192!working, HQC192!Ready, P192!Ready,
       HQC192!EncEnd, P192!EncEnd
<1>13. ASSUME HQC192!DecBegin PROVE P192!DecBegin
    BY <1>13, Operators192 DEF
       HQC192!sampler, P192!sampler, HQC192!buffers, P192!buffers, HQC192!Ready, P192!Ready,
       HQC192!SEEDEXPANDER_DOMAIN, P192!SEEDEXPANDER_DOMAIN, HQC192!seedexpander_init,
       P192!seedexpander_init, HQC192!CeilDivide, P192!CeilDivide, HQC192!VEC_N_SIZE_BYTES,
       P192!VEC_N_SIZE_BYTES, HQC192!PUBLIC_KEY_BYTES, P192!PUBLIC_KEY_BYTES,
       HQC192!SECRET_KEY_BYTES, P192!SECRET_KEY_BYTES, HQC192!VEC_N1N2_SIZE_BYTES,
       P192!VEC_N1N2_SIZE_BYTES, HQC192!CIPHERTEXT_BYTES, P192!CIPHERTEXT_BYTES, HQC192!Words,
       P192!Words, HQC192!VEC_N_SIZE_64, P192!VEC_N_SIZE_64, HQC192!VEC_N1N2_SIZE_64,
       P192!VEC_N1N2_SIZE_64, HQC192!From, P192!From, HQC192!secret_key_from_string,
       P192!secret_key_from_string, HQC192!ciphertext_from_string, P192!ciphertext_from_string,
       HQC192!Locals, P192!Locals, HQC192!DecBegin, P192!DecBegin
<1>14. ASSUME HQC192!Decrypt PROVE P192!Decrypt
    BY <1>14, Operators192 DEF
       HQC192!sampler, P192!sampler, HQC192!buffers, P192!buffers, HQC192!Ready, P192!Ready,
       HQC192!Multiply, P192!Multiply, HQC192!Words, P192!Words, HQC192!VEC_N_SIZE_64,
       P192!VEC_N_SIZE_64, HQC192!Zeros, P192!Zeros, HQC192!Decrypt, P192!Decrypt
<1>15. ASSUME HQC192!DecryptM PROVE P192!DecryptM
    BY <1>15, Operators192 DEF
       HQC192!sampler, P192!sampler, HQC192!buffers, P192!buffers, HQC192!Ready, P192!Ready,
       HQC192!NoProduct, P192!NoProduct, HQC192!public_key_from_string,
       P192!public_key_from_string, HQC192!From, P192!From, HQC192!SEEDEXPANDER_DOMAIN,
       P192!SEEDEXPANDER_DOMAIN, HQC192!seedexpander_init, P192!seedexpander_init,
       HQC192!CeilDivide, P192!CeilDivide, HQC192!VEC_N_SIZE_BYTES, P192!VEC_N_SIZE_BYTES,
       HQC192!PUBLIC_KEY_BYTES, P192!PUBLIC_KEY_BYTES, HQC192!SECRET_KEY_BYTES,
       P192!SECRET_KEY_BYTES, HQC192!Words, P192!Words, HQC192!VEC_N_SIZE_64, P192!VEC_N_SIZE_64,
       HQC192!G_FCT_DOMAIN, P192!G_FCT_DOMAIN, HQC192!shake256_512_ds, P192!shake256_512_ds,
       HQC192!Theta, P192!Theta, HQC192!secret_key_from_string, P192!secret_key_from_string,
       HQC192!BeginEncrypt, P192!BeginEncrypt, HQC192!DecryptM, P192!DecryptM
<1>16. ASSUME HQC192!DecEnd PROVE P192!DecEnd
    BY <1>16, Operators192 DEF
       HQC192!sampler, P192!sampler, HQC192!working, P192!working, HQC192!Ready, P192!Ready,
       HQC192!DecEnd, P192!DecEnd
<1>17. ASSUME NEW byte, NEW bit, HQC192!Damage(byte, bit) PROVE P192!Damage(byte, bit)
    BY <1>17 DEF
       HQC192!sampler, P192!sampler, HQC192!working, P192!working, HQC192!Ready, P192!Ready,
       HQC192!Damage, P192!Damage
<1> QED
    BY <1>1, <1>2, <1>3, <1>4, <1>5, <1>6, <1>7, <1>8, <1>9, <1>10, <1>11, <1>12, <1>13, <1>14,
    <1>15, <1>16, <1>17 DEF P192!KemNext

(* The level's parameters, the lengths of its strings, and its promises.     *)
LEMMA Promises192 ==
    /\ HQC192!ParametersFit => P192!ParametersFit
    /\ HQC192!PUBLIC_KEY_BYTES = P192!PUBLIC_KEY_BYTES
    /\ HQC192!SECRET_KEY_BYTES = P192!SECRET_KEY_BYTES
    /\ HQC192!CIPHERTEXT_BYTES = P192!CIPHERTEXT_BYTES
    /\ P192!ProductsAreCyclic => HQC192!ProductsAreCyclic
    /\ P192!DecryptionSeesTheNoise => HQC192!DecryptionSeesTheNoise
    /\ P192!KeysAgree => HQC192!KeysAgree
<1>1. HQC192!ParametersFit => P192!ParametersFit
    BY DEF HQC192!ParametersFit, P192!ParametersFit
<1>2. /\ HQC192!PUBLIC_KEY_BYTES = P192!PUBLIC_KEY_BYTES
      /\ HQC192!SECRET_KEY_BYTES = P192!SECRET_KEY_BYTES
      /\ HQC192!CIPHERTEXT_BYTES = P192!CIPHERTEXT_BYTES
    BY DEF
       HQC192!CeilDivide, P192!CeilDivide, HQC192!VEC_N_SIZE_BYTES, P192!VEC_N_SIZE_BYTES,
       HQC192!PUBLIC_KEY_BYTES, P192!PUBLIC_KEY_BYTES, HQC192!SECRET_KEY_BYTES,
       P192!SECRET_KEY_BYTES, HQC192!VEC_N1N2_SIZE_BYTES, P192!VEC_N1N2_SIZE_BYTES,
       HQC192!CIPHERTEXT_BYTES, P192!CIPHERTEXT_BYTES
<1>3. P192!ProductsAreCyclic => HQC192!ProductsAreCyclic
    BY Operators192 DEF
       HQC192!Words, P192!Words, HQC192!VEC_N_SIZE_64, P192!VEC_N_SIZE_64, HQC192!MemorySize,
       P192!MemorySize, HQC192!Behind, P192!Behind, HQC192!Bits, P192!Bits, HQC192!Cardinality,
       P192!Cardinality, HQC192!Fits, P192!Fits, HQC192!CyclicProduct, P192!CyclicProduct,
       HQC192!ProductsAreCyclic, P192!ProductsAreCyclic
<1>4. HQC192!Noise = P192!Noise
    BY DEF
       HQC192!(+), P192!(+), HQC192!Bits, P192!Bits, HQC192!Cardinality, P192!Cardinality,
       HQC192!CyclicProduct, P192!CyclicProduct, HQC192!Noise, P192!Noise
<1>5. P192!DecryptionSeesTheNoise => HQC192!DecryptionSeesTheNoise
    BY <1>4, Operators192 DEF
       HQC192!(+), P192!(+), HQC192!Bits, P192!Bits, HQC192!DecryptionSeesTheNoise,
       P192!DecryptionSeesTheNoise
<1>6. P192!KeysAgree => HQC192!KeysAgree
    BY <1>4 DEF
       HQC192!Cardinality, P192!Cardinality, HQC192!MessageBits, P192!MessageBits, HQC192!Radius,
       P192!Radius, HQC192!KeysAgree, P192!KeysAgree
<1> QED
    BY <1>1, <1>2, <1>3, <1>4, <1>5, <1>6
-----------------------------------------------------------------------------
(***************************************************************************)
(* The level of HQC-256                                                    *)
(***************************************************************************)

(* The operators of Session's level and those that Kem's theorems are about. *)
LEMMA Operators256 ==
    /\ \A m, o, a, b, n, s : HQC256!karatsuba(m, o, a, b, n, s) = P256!karatsuba(m, o, a, b, n, s)
    /\ \A a, b : HQC256!multiplied(a, b) = P256!multiplied(a, b)
    /\ \A a : HQC256!reduce(a) = P256!reduce(a)
    /\ \A a, b : HQC256!vect_mul(a, b) = P256!vect_mul(a, b)
    /\ \A a, b, n : HQC256!vect_add(a, b, n) = P256!vect_add(a, b, n)
    /\ \A o, n, a, b : HQC256!vect_resize(o, n, a, b) = P256!vect_resize(o, n, a, b)
    /\ \A n, s : HQC256!load8_arr(n, s) = P256!load8_arr(n, s)
    /\ \A n, a : HQC256!store8_arr(n, a) = P256!store8_arr(n, a)
    /\ \A c : HQC256!vect_set_random(c) = P256!vect_set_random(c)
    /\ \A m : HQC256!code_encode(m) = P256!code_encode(m)
    /\ \A a : HQC256!code_decode(a) = P256!code_decode(a)
    /\ \A a, s : HQC256!Into(a, s) = P256!Into(a, s)
    /\ \A u, v, s : HQC256!ciphertext_to_string(u, v, s) = P256!ciphertext_to_string(u, v, s)
    /\ \A m, u, v : HQC256!SharedSecret(m, u, v) = P256!SharedSecret(m, u, v)
    /\ \A l : HQC256!compare(l) = P256!compare(l)
<1>1. ASSUME NEW m, NEW o, NEW a, NEW b, NEW n, NEW s
      PROVE  HQC256!karatsuba(m, o, a, b, n, s) = P256!karatsuba(m, o, a, b, n, s)
    BY DEF
       HQC256!(+), P256!(+), HQC256!Up, P256!Up, HQC256!Down, P256!Down, HQC256!Low, P256!Low,
       HQC256!Shl, P256!Shl, HQC256!Shr, P256!Shr, HQC256!Cardinality, P256!Cardinality,
       HQC256!XorOver, P256!XorOver, HQC256!base_mul, P256!base_mul, HQC256!Words, P256!Words,
       HQC256!VEC_N_SIZE_64, P256!VEC_N_SIZE_64, HQC256!Put, P256!Put, HQC256!karatsuba_add1,
       P256!karatsuba_add1, HQC256!karatsuba_add2, P256!karatsuba_add2, HQC256!Scratch,
       P256!Scratch, HQC256!MemorySize, P256!MemorySize, HQC256!Memories, P256!Memories,
       HQC256!karatsuba, P256!karatsuba
<1>2. ASSUME NEW a, NEW b
      PROVE  HQC256!multiplied(a, b) = P256!multiplied(a, b)
    BY <1>1 DEF
       HQC256!Words, P256!Words, HQC256!VEC_N_SIZE_64, P256!VEC_N_SIZE_64, HQC256!Scratch,
       P256!Scratch, HQC256!MemorySize, P256!MemorySize, HQC256!Behind, P256!Behind,
       HQC256!multiplied, P256!multiplied
<1>3. ASSUME NEW a
      PROVE  HQC256!reduce(a) = P256!reduce(a)
    BY DEF
       HQC256!(+), P256!(+), HQC256!Up, P256!Up, HQC256!Down, P256!Down, HQC256!Low, P256!Low,
       HQC256!Shl, P256!Shl, HQC256!Shr, P256!Shr, HQC256!Words, P256!Words, HQC256!VEC_N_SIZE_64,
       P256!VEC_N_SIZE_64, HQC256!RED_MASK, P256!RED_MASK, HQC256!reduce, P256!reduce
<1>4. ASSUME NEW a, NEW b
      PROVE  HQC256!vect_mul(a, b) = P256!vect_mul(a, b)
    BY <1>2, <1>3 DEF
       HQC256!Words, P256!Words, HQC256!VEC_N_SIZE_64, P256!VEC_N_SIZE_64, HQC256!vect_mul,
       P256!vect_mul
<1>5. ASSUME NEW a, NEW b, NEW n
      PROVE  HQC256!vect_add(a, b, n) = P256!vect_add(a, b, n)
    BY DEF
       HQC256!(+), P256!(+), HQC256!vect_add, P256!vect_add
<1>6. ASSUME NEW o, NEW n, NEW a, NEW b
      PROVE  HQC256!vect_resize(o, n, a, b) = P256!vect_resize(o, n, a, b)
    BY DEF
       HQC256!Words, P256!Words, HQC256!VEC_N1N2_SIZE_64, P256!VEC_N1N2_SIZE_64,
       HQC256!vect_resize, P256!vect_resize
<1>7. ASSUME NEW n, NEW s
      PROVE  HQC256!load8_arr(n, s) = P256!load8_arr(n, s)
    BY DEF
       HQC256!PerWord, P256!PerWord, HQC256!BitsOfByte, P256!BitsOfByte, HQC256!load8, P256!load8,
       HQC256!load8_arr, P256!load8_arr
<1>8. ASSUME NEW n, NEW a
      PROVE  HQC256!store8_arr(n, a) = P256!store8_arr(n, a)
    BY DEF
       HQC256!PerWord, P256!PerWord, HQC256!ByteOf, P256!ByteOf, HQC256!store8_arr,
       P256!store8_arr
<1>9. ASSUME NEW c
      PROVE  HQC256!vect_set_random(c) = P256!vect_set_random(c)
    BY <1>7 DEF
       HQC256!Words, P256!Words, HQC256!VEC_N_SIZE_64, P256!VEC_N_SIZE_64,
       HQC256!VEC_N_SIZE_BYTES, P256!VEC_N_SIZE_BYTES, HQC256!CeilDivide, P256!CeilDivide,
       HQC256!RED_MASK, P256!RED_MASK, HQC256!seedexpander, P256!seedexpander,
       HQC256!vect_set_random, P256!vect_set_random
<1>10. ASSUME NEW m
      PROVE  HQC256!code_encode(m) = P256!code_encode(m)
    BY <1>7 DEF
       HQC256!Words, P256!Words, HQC256!VEC_N1N2_SIZE_64, P256!VEC_N1N2_SIZE_64, HQC256!Bits,
       P256!Bits, HQC256!ToWords, P256!ToWords, HQC256!MessageBits, P256!MessageBits,
       HQC256!code_encode, P256!code_encode
<1>11. ASSUME NEW a
      PROVE  HQC256!code_decode(a) = P256!code_decode(a)
    BY <1>8 DEF
       HQC256!Words, P256!Words, HQC256!Cardinality, P256!Cardinality, HQC256!Bits, P256!Bits,
       HQC256!ToWords, P256!ToWords, HQC256!MessageBits, P256!MessageBits, HQC256!code_decode,
       P256!code_decode
<1>12. ASSUME NEW a, NEW s
      PROVE  HQC256!Into(a, s) = P256!Into(a, s)
    BY DEF
       HQC256!Into, P256!Into
<1>13. ASSUME NEW u, NEW v, NEW s
      PROVE  HQC256!ciphertext_to_string(u, v, s) = P256!ciphertext_to_string(u, v, s)
    BY <1>8 DEF
       HQC256!CeilDivide, P256!CeilDivide, HQC256!VEC_N_SIZE_BYTES, P256!VEC_N_SIZE_BYTES,
       HQC256!VEC_N1N2_SIZE_BYTES, P256!VEC_N1N2_SIZE_BYTES, HQC256!ciphertext_to_string,
       P256!ciphertext_to_string
<1>14. ASSUME NEW m, NEW u, NEW v
      PROVE  HQC256!SharedSecret(m, u, v) = P256!SharedSecret(m, u, v)
    BY DEF
       HQC256!PerWord, P256!PerWord, HQC256!ByteOf, P256!ByteOf, HQC256!store8_arr,
       P256!store8_arr, HQC256!CeilDivide, P256!CeilDivide, HQC256!VEC_N_SIZE_BYTES,
       P256!VEC_N_SIZE_BYTES, HQC256!VEC_N1N2_SIZE_BYTES, P256!VEC_N1N2_SIZE_BYTES,
       HQC256!K_FCT_DOMAIN, P256!K_FCT_DOMAIN, HQC256!shake256_512_ds, P256!shake256_512_ds,
       HQC256!SharedSecret, P256!SharedSecret
<1>15. ASSUME NEW l
      PROVE  HQC256!compare(l) = P256!compare(l)
    BY <1>8 DEF
       HQC256!CeilDivide, P256!CeilDivide, HQC256!VEC_N_SIZE_BYTES, P256!VEC_N_SIZE_BYTES,
       HQC256!VEC_N1N2_SIZE_BYTES, P256!VEC_N1N2_SIZE_BYTES, HQC256!differences, P256!differences,
       HQC256!vect_compare, P256!vect_compare, HQC256!compare, P256!compare
<1> QED
    BY <1>1, <1>2, <1>3, <1>4, <1>5, <1>6, <1>7, <1>8, <1>9, <1>10, <1>11, <1>12, <1>13, <1>14,
    <1>15

(* The parts of the functions of the level are those of Kem.                *)
LEMMA Parts256 ==
    ASSUME \/ HQC256!Draw \/ HQC256!Settle \/ HQC256!Collect \/ HQC256!VectMul
           \/ HQC256!KeygenSeeds \/ HQC256!KeygenH \/ HQC256!KeygenS
           \/ HQC256!EncryptU \/ HQC256!EncryptMG \/ HQC256!EncryptV
           \/ HQC256!EncBegin \/ HQC256!EncEnd
           \/ HQC256!DecBegin \/ HQC256!Decrypt \/ HQC256!DecryptM \/ HQC256!DecEnd
           \/ \E byte, bit : HQC256!Damage(byte, bit)
    PROVE  P256!KemNext
<1>1. ASSUME HQC256!Draw PROVE P256!Draw
    BY <1>1 DEF
       HQC256!FW!m_val, P256!FW!m_val, HQC256!FW!cond_sub, P256!FW!cond_sub, HQC256!FW!reduce,
       P256!FW!reduce, HQC256!FW!Draw, P256!FW!Draw, HQC256!buffers, P256!buffers,
       HQC256!WeightOf, P256!WeightOf, HQC256!Numbers, P256!Numbers, HQC256!seedexpander,
       P256!seedexpander, HQC256!after, P256!after, HQC256!PerWord, P256!PerWord,
       HQC256!CeilDivide, P256!CeilDivide, HQC256!Draw, P256!Draw
<1>2. ASSUME HQC256!Settle PROVE P256!Settle
    BY <1>2 DEF
       HQC256!FW!Repeated, P256!FW!Repeated, HQC256!FW!Settle, P256!FW!Settle, HQC256!buffers,
       P256!buffers, HQC256!Settle, P256!Settle
<1>3. ASSUME HQC256!Collect PROVE P256!Collect
    BY <1>3 DEF
       HQC256!FW!Collect, P256!FW!Collect, HQC256!buffers, P256!buffers, HQC256!Words, P256!Words,
       HQC256!VEC_N_SIZE_64, P256!VEC_N_SIZE_64, HQC256!ToWords, P256!ToWords, HQC256!Collect,
       P256!Collect
<1>4. ASSUME HQC256!VectMul PROVE P256!VectMul
    BY <1>4, Operators256 DEF
       HQC256!sampler, P256!sampler, HQC256!buffers, P256!buffers, HQC256!VectMul, P256!VectMul
<1>5. ASSUME HQC256!KeygenSeeds PROVE P256!KeygenSeeds
    BY <1>5 DEF
       HQC256!sampler, P256!sampler, HQC256!buffers, P256!buffers, HQC256!Ready, P256!Ready,
       HQC256!SEEDEXPANDER_DOMAIN, P256!SEEDEXPANDER_DOMAIN, HQC256!seedexpander_init,
       P256!seedexpander_init, HQC256!PerWord, P256!PerWord, HQC256!CeilDivide, P256!CeilDivide,
       HQC256!seedexpander, P256!seedexpander, HQC256!after, P256!after, HQC256!Locals,
       P256!Locals, HQC256!KeygenSeeds, P256!KeygenSeeds
<1>6. ASSUME HQC256!KeygenH PROVE P256!KeygenH
    BY <1>6, Operators256 DEF
       HQC256!sampler, P256!sampler, HQC256!buffers, P256!buffers, HQC256!Ready, P256!Ready,
       HQC256!Multiply, P256!Multiply, HQC256!SEEDEXPANDER_DOMAIN, P256!SEEDEXPANDER_DOMAIN,
       HQC256!seedexpander_init, P256!seedexpander_init, HQC256!KeygenH, P256!KeygenH
<1>7. ASSUME HQC256!KeygenS PROVE P256!KeygenS
    BY <1>7, Operators256 DEF
       HQC256!sampler, P256!sampler, HQC256!Ready, P256!Ready, HQC256!NoProduct, P256!NoProduct,
       HQC256!public_key_to_string, P256!public_key_to_string, HQC256!secret_key_to_string,
       P256!secret_key_to_string, HQC256!Words, P256!Words, HQC256!VEC_N_SIZE_64,
       P256!VEC_N_SIZE_64, HQC256!CeilDivide, P256!CeilDivide, HQC256!VEC_N_SIZE_BYTES,
       P256!VEC_N_SIZE_BYTES, HQC256!KeygenS, P256!KeygenS
<1>8. ASSUME HQC256!EncryptU PROVE P256!EncryptU
    BY <1>8 DEF
       HQC256!sampler, P256!sampler, HQC256!buffers, P256!buffers, HQC256!Ready, P256!Ready,
       HQC256!Multiply, P256!Multiply, HQC256!EncryptU, P256!EncryptU
<1>9. ASSUME HQC256!EncryptMG PROVE P256!EncryptMG
    BY <1>9, Operators256 DEF
       HQC256!sampler, P256!sampler, HQC256!buffers, P256!buffers, HQC256!Ready, P256!Ready,
       HQC256!Multiply, P256!Multiply, HQC256!Words, P256!Words, HQC256!VEC_N_SIZE_64,
       P256!VEC_N_SIZE_64, HQC256!Zeros, P256!Zeros, HQC256!EncryptMG, P256!EncryptMG
<1>10. ASSUME HQC256!EncryptV PROVE P256!EncryptV
    BY <1>10, Operators256 DEF
       HQC256!sampler, P256!sampler, HQC256!buffers, P256!buffers, HQC256!Ready, P256!Ready,
       HQC256!NoProduct, P256!NoProduct, HQC256!Words, P256!Words, HQC256!VEC_N_SIZE_64,
       P256!VEC_N_SIZE_64, HQC256!EncryptV, P256!EncryptV
<1>11. ASSUME HQC256!EncBegin PROVE P256!EncBegin
    BY <1>11, Operators256 DEF
       HQC256!sampler, P256!sampler, HQC256!buffers, P256!buffers, HQC256!Ready, P256!Ready,
       HQC256!public_key_from_string, P256!public_key_from_string, HQC256!From, P256!From,
       HQC256!SEEDEXPANDER_DOMAIN, P256!SEEDEXPANDER_DOMAIN, HQC256!seedexpander_init,
       P256!seedexpander_init, HQC256!Words, P256!Words, HQC256!VEC_N_SIZE_64, P256!VEC_N_SIZE_64,
       HQC256!CeilDivide, P256!CeilDivide, HQC256!VEC_N_SIZE_BYTES, P256!VEC_N_SIZE_BYTES,
       HQC256!PUBLIC_KEY_BYTES, P256!PUBLIC_KEY_BYTES, HQC256!PerWord, P256!PerWord,
       HQC256!seedexpander, P256!seedexpander, HQC256!after, P256!after, HQC256!G_FCT_DOMAIN,
       P256!G_FCT_DOMAIN, HQC256!shake256_512_ds, P256!shake256_512_ds, HQC256!Theta, P256!Theta,
       HQC256!BeginEncrypt, P256!BeginEncrypt, HQC256!EncBegin, P256!EncBegin
<1>12. ASSUME HQC256!EncEnd PROVE P256!EncEnd
    BY <1>12, Operators256 DEF
       HQC256!sampler, P256!sampler, HQC256!working, P256!working, HQC256!Ready, P256!Ready,
       HQC256!EncEnd, P256!EncEnd
<1>13. ASSUME HQC256!DecBegin PROVE P256!DecBegin
    BY <1>13, Operators256 DEF
       HQC256!sampler, P256!sampler, HQC256!buffers, P256!buffers, HQC256!Ready, P256!Ready,
       HQC256!SEEDEXPANDER_DOMAIN, P256!SEEDEXPANDER_DOMAIN, HQC256!seedexpander_init,
       P256!seedexpander_init, HQC256!CeilDivide, P256!CeilDivide, HQC256!VEC_N_SIZE_BYTES,
       P256!VEC_N_SIZE_BYTES, HQC256!PUBLIC_KEY_BYTES, P256!PUBLIC_KEY_BYTES,
       HQC256!SECRET_KEY_BYTES, P256!SECRET_KEY_BYTES, HQC256!VEC_N1N2_SIZE_BYTES,
       P256!VEC_N1N2_SIZE_BYTES, HQC256!CIPHERTEXT_BYTES, P256!CIPHERTEXT_BYTES, HQC256!Words,
       P256!Words, HQC256!VEC_N_SIZE_64, P256!VEC_N_SIZE_64, HQC256!VEC_N1N2_SIZE_64,
       P256!VEC_N1N2_SIZE_64, HQC256!From, P256!From, HQC256!secret_key_from_string,
       P256!secret_key_from_string, HQC256!ciphertext_from_string, P256!ciphertext_from_string,
       HQC256!Locals, P256!Locals, HQC256!DecBegin, P256!DecBegin
<1>14. ASSUME HQC256!Decrypt PROVE P256!Decrypt
    BY <1>14, Operators256 DEF
       HQC256!sampler, P256!sampler, HQC256!buffers, P256!buffers, HQC256!Ready, P256!Ready,
       HQC256!Multiply, P256!Multiply, HQC256!Words, P256!Words, HQC256!VEC_N_SIZE_64,
       P256!VEC_N_SIZE_64, HQC256!Zeros, P256!Zeros, HQC256!Decrypt, P256!Decrypt
<1>15. ASSUME HQC256!DecryptM PROVE P256!DecryptM
    BY <1>15, Operators256 DEF
       HQC256!sampler, P256!sampler, HQC256!buffers, P256!buffers, HQC256!Ready, P256!Ready,
       HQC256!NoProduct, P256!NoProduct, HQC256!public_key_from_string,
       P256!public_key_from_string, HQC256!From, P256!From, HQC256!SEEDEXPANDER_DOMAIN,
       P256!SEEDEXPANDER_DOMAIN, HQC256!seedexpander_init, P256!seedexpander_init,
       HQC256!CeilDivide, P256!CeilDivide, HQC256!VEC_N_SIZE_BYTES, P256!VEC_N_SIZE_BYTES,
       HQC256!PUBLIC_KEY_BYTES, P256!PUBLIC_KEY_BYTES, HQC256!SECRET_KEY_BYTES,
       P256!SECRET_KEY_BYTES, HQC256!Words, P256!Words, HQC256!VEC_N_SIZE_64, P256!VEC_N_SIZE_64,
       HQC256!G_FCT_DOMAIN, P256!G_FCT_DOMAIN, HQC256!shake256_512_ds, P256!shake256_512_ds,
       HQC256!Theta, P256!Theta, HQC256!secret_key_from_string, P256!secret_key_from_string,
       HQC256!BeginEncrypt, P256!BeginEncrypt, HQC256!DecryptM, P256!DecryptM
<1>16. ASSUME HQC256!DecEnd PROVE P256!DecEnd
    BY <1>16, Operators256 DEF
       HQC256!sampler, P256!sampler, HQC256!working, P256!working, HQC256!Ready, P256!Ready,
       HQC256!DecEnd, P256!DecEnd
<1>17. ASSUME NEW byte, NEW bit, HQC256!Damage(byte, bit) PROVE P256!Damage(byte, bit)
    BY <1>17 DEF
       HQC256!sampler, P256!sampler, HQC256!working, P256!working, HQC256!Ready, P256!Ready,
       HQC256!Damage, P256!Damage
<1> QED
    BY <1>1, <1>2, <1>3, <1>4, <1>5, <1>6, <1>7, <1>8, <1>9, <1>10, <1>11, <1>12, <1>13, <1>14,
    <1>15, <1>16, <1>17 DEF P256!KemNext

(* The level's parameters, the lengths of its strings, and its promises.     *)
LEMMA Promises256 ==
    /\ HQC256!ParametersFit => P256!ParametersFit
    /\ HQC256!PUBLIC_KEY_BYTES = P256!PUBLIC_KEY_BYTES
    /\ HQC256!SECRET_KEY_BYTES = P256!SECRET_KEY_BYTES
    /\ HQC256!CIPHERTEXT_BYTES = P256!CIPHERTEXT_BYTES
    /\ P256!ProductsAreCyclic => HQC256!ProductsAreCyclic
    /\ P256!DecryptionSeesTheNoise => HQC256!DecryptionSeesTheNoise
    /\ P256!KeysAgree => HQC256!KeysAgree
<1>1. HQC256!ParametersFit => P256!ParametersFit
    BY DEF HQC256!ParametersFit, P256!ParametersFit
<1>2. /\ HQC256!PUBLIC_KEY_BYTES = P256!PUBLIC_KEY_BYTES
      /\ HQC256!SECRET_KEY_BYTES = P256!SECRET_KEY_BYTES
      /\ HQC256!CIPHERTEXT_BYTES = P256!CIPHERTEXT_BYTES
    BY DEF
       HQC256!CeilDivide, P256!CeilDivide, HQC256!VEC_N_SIZE_BYTES, P256!VEC_N_SIZE_BYTES,
       HQC256!PUBLIC_KEY_BYTES, P256!PUBLIC_KEY_BYTES, HQC256!SECRET_KEY_BYTES,
       P256!SECRET_KEY_BYTES, HQC256!VEC_N1N2_SIZE_BYTES, P256!VEC_N1N2_SIZE_BYTES,
       HQC256!CIPHERTEXT_BYTES, P256!CIPHERTEXT_BYTES
<1>3. P256!ProductsAreCyclic => HQC256!ProductsAreCyclic
    BY Operators256 DEF
       HQC256!Words, P256!Words, HQC256!VEC_N_SIZE_64, P256!VEC_N_SIZE_64, HQC256!MemorySize,
       P256!MemorySize, HQC256!Behind, P256!Behind, HQC256!Bits, P256!Bits, HQC256!Cardinality,
       P256!Cardinality, HQC256!Fits, P256!Fits, HQC256!CyclicProduct, P256!CyclicProduct,
       HQC256!ProductsAreCyclic, P256!ProductsAreCyclic
<1>4. HQC256!Noise = P256!Noise
    BY DEF
       HQC256!(+), P256!(+), HQC256!Bits, P256!Bits, HQC256!Cardinality, P256!Cardinality,
       HQC256!CyclicProduct, P256!CyclicProduct, HQC256!Noise, P256!Noise
<1>5. P256!DecryptionSeesTheNoise => HQC256!DecryptionSeesTheNoise
    BY <1>4, Operators256 DEF
       HQC256!(+), P256!(+), HQC256!Bits, P256!Bits, HQC256!DecryptionSeesTheNoise,
       P256!DecryptionSeesTheNoise
<1>6. P256!KeysAgree => HQC256!KeysAgree
    BY <1>4 DEF
       HQC256!Cardinality, P256!Cardinality, HQC256!MessageBits, P256!MessageBits, HQC256!Radius,
       P256!Radius, HQC256!KeysAgree, P256!KeysAgree
<1> QED
    BY <1>1, <1>2, <1>3, <1>4, <1>5, <1>6
-----------------------------------------------------------------------------
(***************************************************************************)
(* The sessions                                                            *)
(***************************************************************************)

(* The buffers of secrets                                                  *)
NoSecrets ==
    /\ \A k \in DOMAIN key_enc : key_enc[k] = 0
    /\ \A k \in DOMAIN key_dec : key_dec[k] = 0
    /\ \A k \in DOMAIN seed : seed[k] = 0

(* The level that was chosen keeps Kem's invariant.                        *)
InSession ==
    /\ choice = "1" => P128!KemInv
    /\ choice = "3" => P192!KemInv
    /\ choice = "5" => P256!KemInv

SessionInv ==
    /\ stage \in {"menu", "seed", "run", "zeroize"}
    /\ stage # "menu" => choice \in Levels
    /\ DOMAIN seed = 1..SEED_LEN /\ DOMAIN device = 1..SEED_LEN
    /\ stage = "menu" => NoSecrets
    /\ stage \in {"menu", "seed"} => P128!Cleared
    /\ stage \in {"run", "zeroize"} => InSession
    /\ stage = "zeroize" => pc = "print"

(* Between sessions the levels say the same of what they share.            *)
LEMMA ClearedForAll ==
    /\ P192!Cleared = P128!Cleared
    /\ P256!Cleared = P128!Cleared
BY DEF P128!Cleared, P192!Cleared, P256!Cleared

LEMMA LevelsFit ==
    /\ P128!ParametersFit /\ P192!ParametersFit /\ P256!ParametersFit
    /\ ShakeGivesBytes => P128!ShakeGivesBytes /\ P192!ShakeGivesBytes /\ P256!ShakeGivesBytes
<1>1. P128!ParametersFit /\ P192!ParametersFit /\ P256!ParametersFit
    BY SessionAssumption, Promises128, Promises192, Promises256
<1>2. ShakeGivesBytes => P128!ShakeGivesBytes /\ P192!ShakeGivesBytes /\ P256!ShakeGivesBytes
    BY DEF ShakeGivesBytes, P128!ShakeGivesBytes, P192!ShakeGivesBytes, P256!ShakeGivesBytes,
           P128!ByteValues, P192!ByteValues, P256!ByteValues
<1> QED
    BY <1>1, <1>2

LEMMA Starts ==
    ASSUME Init
    PROVE  SessionInv
<1>1. device \in [1..SEED_LEN -> 0 .. 2^BYTE - 1]
    BY SessionAssumption DEF Init
<1>2. /\ queue = << >> /\ factors = None /\ product = None
      /\ weight = 0 /\ support = << >> /\ at = -1 /\ drawn = {}
    BY DEF Init, HQC128!KemInit, HQC128!FW!SamplerInit
<1>3. support \in [0 .. weight - 1 -> Int]
    <2>1. 0 .. weight - 1 = {}
        BY <1>2
    <2>2. DOMAIN support = {} /\ support = [i \in {} |-> support[i]]
        BY <1>2
    <2> QED
        BY <2>1, <2>2
<1>4. /\ DOMAIN key_enc = 1..SHAKE256_512_BYTES /\ DOMAIN key_dec = 1..SHAKE256_512_BYTES
      /\ DOMAIN seed = 1..SEED_LEN
      /\ (\A k \in DOMAIN sk : sk[k] = 0) /\ NoSecrets
    BY DEF Init, Bytes, NoSecrets
<1>5. P128!Cleared
    BY <1>2, <1>3, <1>4 DEF P128!Cleared
<1> QED
    BY <1>1, <1>4, <1>5 DEF Init, SessionInv

LEMMA ChooseStep ==
    ASSUME SessionInv, NEW c, Choose(c)
    PROVE  SessionInv'
<1>1. stage = "menu" /\ choice' = c /\ UNCHANGED device /\ P128!Cleared
    BY DEF Choose, SessionInv
<1>2. P128!Cleared'
    BY <1>1 DEF Choose, kem, P128!Cleared
<1>3. CASE c \in Levels
    <2>1. stage' = "seed" /\ DOMAIN seed' = 1..SEED_LEN
        BY <1>3 DEF Choose, Bytes
    <2> QED
        BY <1>1, <1>2, <1>3, <2>1 DEF SessionInv
<1>4. CASE c \notin Levels
    <2>1. stage' = "menu" /\ UNCHANGED <<seed, key_enc, key_dec>>
        BY <1>1, <1>4 DEF Choose, kem
    <2>2. NoSecrets'
        BY <1>1, <2>1 DEF SessionInv, NoSecrets
    <2> QED
        BY <1>1, <1>2, <2>1, <2>2 DEF SessionInv
<1> QED
    BY <1>3, <1>4

LEMMA InitRandomStep ==
    ASSUME SessionInv, InitRandom
    PROVE  SessionInv'
<1>1. /\ stage = "seed" /\ stage' = "run" /\ seed' = device /\ UNCHANGED <<choice, device>>
      /\ pc' = "keypair"
      /\ UNCHANGED <<queue, weight, support, at, drawn, factors, product, sk, key_enc, key_dec>>
    BY DEF InitRandom
<1>2. P128!Cleared /\ P192!Cleared /\ P256!Cleared
    BY <1>1, ClearedForAll DEF SessionInv
<1>3. P128!KemInv' /\ P192!KemInv' /\ P256!KemInv'
    BY <1>1, <1>2, P128!KemStarts, P192!KemStarts, P256!KemStarts
<1> QED
    BY <1>1, <1>3 DEF SessionInv, InSession

(* A step of the functions of the level that was chosen                    *)
LevelNext ==
    /\ stage = "run" /\ UNCHANGED main
    /\ \/ choice = "1" /\ P128!KemNext
       \/ choice = "3" /\ P192!KemNext
       \/ choice = "5" /\ P256!KemNext

LEMMA VectorsAndCalls ==
    ASSUME Vectors \/ Calls
    PROVE  LevelNext
<1>1. CASE Draw128 \/ Settle128 \/ Collect128 \/ VectMul128 \/ Keygen128
             \/ Encrypt128 \/ Encapsulate128 \/ ReadStrings128 \/ Decrypt128 \/ Decapsulate128
    BY <1>1, Parts128
    DEF LevelNext, At,
        Draw128, Settle128, Collect128, VectMul128, Keygen128, Encrypt128, Encapsulate128,
        ReadStrings128, Decrypt128, Decapsulate128
<1>2. CASE Draw192 \/ Settle192 \/ Collect192 \/ VectMul192 \/ Keygen192
             \/ Encrypt192 \/ Encapsulate192 \/ ReadStrings192 \/ Decrypt192 \/ Decapsulate192
    BY <1>2, Parts192
    DEF LevelNext, At,
        Draw192, Settle192, Collect192, VectMul192, Keygen192, Encrypt192, Encapsulate192,
        ReadStrings192, Decrypt192, Decapsulate192
<1>3. CASE Draw256 \/ Settle256 \/ Collect256 \/ VectMul256 \/ Keygen256
             \/ Encrypt256 \/ Encapsulate256 \/ ReadStrings256 \/ Decrypt256 \/ Decapsulate256
    BY <1>3, Parts256
    DEF LevelNext, At,
        Draw256, Settle256, Collect256, VectMul256, Keygen256, Encrypt256, Encapsulate256,
        ReadStrings256, Decrypt256, Decapsulate256
<1> QED
    BY <1>1, <1>2, <1>3 DEF Vectors, Calls

LEMMA Damages ==
    ASSUME Damage
    PROVE  LevelNext
<1>1. PICK d \in DamagedBits :
          \/ choice = "1" /\ HQC128!Damage(d[1] % HQC128!CIPHERTEXT_BYTES, d[2])
          \/ choice = "3" /\ HQC192!Damage(d[1] % HQC192!CIPHERTEXT_BYTES, d[2])
          \/ choice = "5" /\ HQC256!Damage(d[1] % HQC256!CIPHERTEXT_BYTES, d[2])
    BY DEF Damage
<1>2. stage = "run" /\ UNCHANGED main
    BY DEF Damage
<1>3. CASE choice = "1" /\ HQC128!Damage(d[1] % HQC128!CIPHERTEXT_BYTES, d[2])
    BY <1>2, <1>3, Parts128 DEF LevelNext
<1>4. CASE choice = "3" /\ HQC192!Damage(d[1] % HQC192!CIPHERTEXT_BYTES, d[2])
    BY <1>2, <1>4, Parts192 DEF LevelNext
<1>5. CASE choice = "5" /\ HQC256!Damage(d[1] % HQC256!CIPHERTEXT_BYTES, d[2])
    BY <1>2, <1>5, Parts256 DEF LevelNext
<1> QED
    BY <1>1, <1>3, <1>4, <1>5

LEMMA LevelStep ==
    ASSUME ShakeGivesBytes, SessionInv, LevelNext
    PROVE  SessionInv'
<1>1. stage = "run" /\ UNCHANGED <<stage, choice, seed, device>> /\ InSession
    BY DEF LevelNext, main, SessionInv
<1>2. CASE choice = "1" /\ P128!KemNext
    <2>1. P128!KemInv'
        BY <1>1, <1>2, LevelsFit, P128!KemStep DEF InSession
    <2> QED
        BY <1>1, <1>2, <2>1 DEF SessionInv, InSession
<1>3. CASE choice = "3" /\ P192!KemNext
    <2>1. P192!KemInv'
        BY <1>1, <1>3, LevelsFit, P192!KemStep DEF InSession
    <2> QED
        BY <1>1, <1>3, <2>1 DEF SessionInv, InSession
<1>4. CASE choice = "5" /\ P256!KemNext
    <2>1. P256!KemInv'
        BY <1>1, <1>4, LevelsFit, P256!KemStep DEF InSession
    <2> QED
        BY <1>1, <1>4, <2>1 DEF SessionInv, InSession
<1> QED
    BY <1>2, <1>3, <1>4 DEF LevelNext

(* A step that leaves the level's variables alone                          *)
LEMMA InSessionWaits ==
    ASSUME InSession, UNCHANGED <<choice, kem>>
    PROVE  InSession'
<1>1. UNCHANGED <<pc, queue, weight, support, at, drawn, factors, product, loc,
                  sk, key_enc, key_dec>>
    BY DEF kem
<1>2. choice' = choice
    OBVIOUS
<1>3. choice = "1" => P128!KemInv'
    BY <1>1, P128!KemWaits DEF InSession
<1>4. choice = "3" => P192!KemInv'
    BY <1>1, P192!KemWaits DEF InSession
<1>5. choice = "5" => P256!KemInv'
    BY <1>1, P256!KemWaits DEF InSession
<1> QED
    BY <1>2, <1>3, <1>4, <1>5 DEF InSession

LEMMA PrintOutputsStep ==
    ASSUME SessionInv, PrintOutputs
    PROVE  SessionInv'
<1>1. /\ stage = "run" /\ stage' = "zeroize" /\ pc = "print" /\ pc' = pc
      /\ UNCHANGED <<choice, seed, device>> /\ UNCHANGED <<choice, kem>>
    BY DEF PrintOutputs, kem
<1>2. InSession'
    BY <1>1, InSessionWaits DEF SessionInv
<1> QED
    BY <1>1, <1>2 DEF SessionInv

(* The level's part of sk is all of it that was written, and what main       *)
(* clears is all of the other buffers.                                      *)
LEMMA ZeroizeStep ==
    ASSUME SessionInv, Zeroize
    PROVE  SessionInv'
<1>1. /\ stage = "zeroize" /\ stage' = "menu" /\ pc = "print" /\ UNCHANGED <<choice, device>>
      /\ choice \in Levels /\ InSession /\ DOMAIN seed = 1..SEED_LEN
    BY DEF Zeroize, SessionInv
<1>2. /\ sk' = [k \in DOMAIN sk |-> IF k <= sk_size THEN 0 ELSE sk[k]]
      /\ key_enc' = [k \in DOMAIN key_enc |-> IF k <= key_size THEN 0 ELSE key_enc[k]]
      /\ key_dec' = [k \in DOMAIN key_dec |-> IF k <= key_size THEN 0 ELSE key_dec[k]]
      /\ seed' = [k \in DOMAIN seed |-> IF k <= SEED_LEN THEN 0 ELSE seed[k]]
    BY DEF Zeroize, memset_zero
<1>3. UNCHANGED <<queue, weight, support, at, drawn, factors, product>>
    BY DEF Zeroize
<1>4. DOMAIN key_enc' = DOMAIN key_enc /\ DOMAIN key_dec' = DOMAIN key_dec
      /\ DOMAIN seed' = DOMAIN seed
    BY <1>2
<1>5. P128!Cleared'
    <2>1. CASE choice = "1"
        <3>1. sk_size = P128!SECRET_KEY_BYTES
            BY <2>1, Promises128 DEF sk_size
        <3> QED
            BY <1>1, <1>2, <1>3, <1>4, <2>1, <3>1, P128!KemEnds DEF InSession
    <2>2. CASE choice = "3"
        <3>1. sk_size = P192!SECRET_KEY_BYTES
            BY <2>2, Promises192 DEF sk_size
        <3>2. P192!Cleared'
            BY <1>1, <1>2, <1>3, <1>4, <2>2, <3>1, P192!KemEnds DEF InSession
        <3> QED
            BY <3>2 DEF P128!Cleared, P192!Cleared
    <2>3. CASE choice = "5"
        <3>1. sk_size = P256!SECRET_KEY_BYTES
            BY <2>3, Promises256 DEF sk_size
        <3>2. P256!Cleared'
            BY <1>1, <1>2, <1>3, <1>4, <2>3, <3>1, P256!KemEnds DEF InSession
        <3> QED
            BY <3>2 DEF P128!Cleared, P256!Cleared
    <2> QED
        BY <1>1, <2>1, <2>2, <2>3 DEF Levels
<1>6. NoSecrets'
    <2>1. DOMAIN key_enc' = 1..key_size /\ DOMAIN key_dec' = 1..key_size
        BY <1>5 DEF P128!Cleared, key_size
    <2> QED
        BY <1>1, <1>2, <1>4, <2>1 DEF NoSecrets
<1> QED
    BY <1>1, <1>4, <1>5, <1>6 DEF SessionInv

LEMMA Stutters ==
    ASSUME SessionInv, UNCHANGED vars
    PROVE  SessionInv'
<1>1. UNCHANGED <<stage, choice, seed, device>> /\ UNCHANGED <<choice, kem>>
    BY DEF vars
<1>2. UNCHANGED <<pc, queue, weight, support, at, drawn, factors, product, sk, key_enc, key_dec>>
    BY <1>1 DEF kem
<1>3. stage \in {"run", "zeroize"} => InSession'
    BY <1>1, InSessionWaits DEF SessionInv
<1>4. stage \in {"menu", "seed"} => P128!Cleared'
    BY <1>2 DEF SessionInv, P128!Cleared
<1>5. stage = "menu" => NoSecrets'
    BY <1>1, <1>2 DEF SessionInv, NoSecrets
<1> QED
    BY <1>1, <1>2, <1>3, <1>4, <1>5 DEF SessionInv

-----------------------------------------------------------------------------
(* In every session of every level Kem's invariant holds, and between them   *)
(* the buffers are cleared.                                                 *)
THEOREM SessionInvariance ==
    ASSUME ShakeGivesBytes
    PROVE  Spec => []SessionInv
<1>1. Init => SessionInv
    BY Starts
<1>2. SessionInv /\ [Next]_vars => SessionInv'
    BY ChooseStep, InitRandomStep, VectorsAndCalls, Damages, LevelStep, PrintOutputsStep,
       ZeroizeStep, Stutters DEF Next
<1> QED
    BY <1>1, <1>2, PTL DEF Spec

(* vect_mul of every level multiplies polynomials modulo X^PARAM_N - 1       *)
(* whatever is multiplied, and its recursion over one block of scratch       *)
(* memory never writes behind it.                                          *)
THEOREM EveryProductIsCyclic ==
    ASSUME ShakeGivesBytes
    PROVE  Spec => []ProductsAreCyclic
<1>1. SessionInv => ProductsAreCyclic
    <2> SUFFICES ASSUME SessionInv, stage = "run" PROVE ProductsAreCyclic
        BY DEF ProductsAreCyclic, AtLevel
    <2>1. choice = "1" => HQC128!ProductsAreCyclic
        BY LevelsFit, Promises128, P128!VectMulIsRight DEF SessionInv, InSession
    <2>2. choice = "3" => HQC192!ProductsAreCyclic
        BY LevelsFit, Promises192, P192!VectMulIsRight DEF SessionInv, InSession
    <2>3. choice = "5" => HQC256!ProductsAreCyclic
        BY LevelsFit, Promises256, P256!VectMulIsRight DEF SessionInv, InSession
    <2> QED
        BY <2>1, <2>2, <2>3 DEF ProductsAreCyclic, AtLevel
<1> QED
    BY <1>1, SessionInvariance, PTL

(* While main waits for a choice, the secret key, the shared secrets and the *)
(* seed are cleared to the last byte, whatever levels ran before: a level    *)
(* never writes further into the shared buffers than main clears.           *)
THEOREM SecretsAreCleared ==
    ASSUME ShakeGivesBytes
    PROVE  Spec => []NothingSecretRemains
<1>1. SessionInv => NothingSecretRemains
    BY DEF SessionInv, NoSecrets, P128!Cleared, NothingSecretRemains
<1> QED
    BY <1>1, SessionInvariance, PTL

-----------------------------------------------------------------------------
(***************************************************************************)
(* The story of the sessions                                               *)
(***************************************************************************)

(* The generator of every session                                          *)
Generator == P128!seedexpander_init(device)

(* The static buffers are as long as HQC-256 needs.                        *)
Rooms ==
    /\ DOMAIN pk = 1..P256!PUBLIC_KEY_BYTES
    /\ DOMAIN sk = 1..P256!SECRET_KEY_BYTES
    /\ DOMAIN ct = 1..P256!CIPHERTEXT_BYTES

(* The session is one of the generator p, at the level that was chosen.     *)
InStory(p) ==
    /\ choice = "1" => \E d : P128!Story(p, d)
    /\ choice = "3" => \E d : P192!Story(p, d)
    /\ choice = "5" => \E d : P256!Story(p, d)

(* What a level prints depends on the generator and the damage alone.       *)
IsPrinted(record, p) ==
    /\ record.level \in Levels
    /\ record.level = "1" => record.output = P128!Output(p, record.damage)
    /\ record.level = "3" => record.output = P192!Output(p, record.damage)
    /\ record.level = "5" => record.output = P256!Output(p, record.damage)

AllPrinted(p) ==
    /\ \E S : printed \in Seq(S)
    /\ \A i \in DOMAIN printed : IsPrinted(printed[i], p)

StoryInv ==
    /\ Rooms
    /\ \E p : /\ p = Generator
              /\ stage = "run" => InStory(p)
              /\ AllPrinted(p)

(* No level needs longer strings.                                          *)
LEMMA LargestLevel ==
    \E x, y, z \in Nat :
        /\ x = P256!PUBLIC_KEY_BYTES /\ y = P256!SECRET_KEY_BYTES /\ z = P256!CIPHERTEXT_BYTES
        /\ P128!PUBLIC_KEY_BYTES <= x /\ P128!SECRET_KEY_BYTES <= y /\ P128!CIPHERTEXT_BYTES <= z
        /\ P192!PUBLIC_KEY_BYTES <= x /\ P192!SECRET_KEY_BYTES <= y /\ P192!CIPHERTEXT_BYTES <= z
<1>1. P128!ParametersFit /\ P192!ParametersFit /\ P256!ParametersFit
    BY LevelsFit
<1>2. PICK b \in Nat \ {0}, n1 \in Nat \ {0}, n3 \in Nat \ {0}, n5 \in Nat \ {0},
           m1 \in Nat \ {0}, m3 \in Nat \ {0}, m5 \in Nat \ {0} :
          /\ b = BYTE /\ n1 = Parameters["1"].n /\ n3 = Parameters["3"].n /\ n5 = Parameters["5"].n
          /\ m1 = Parameters["1"].n1n2 /\ m3 = Parameters["3"].n1n2 /\ m5 = Parameters["5"].n1n2
    BY <1>1 DEF P128!ParametersFit, P192!ParametersFit, P256!ParametersFit
<1>3. n1 <= n5 /\ n3 <= n5 /\ m1 <= m5 /\ m3 <= m5
    BY <1>2, SessionAssumption
<1>4. PICK cn1 \in Nat, cn3 \in Nat, cn5 \in Nat, cm1 \in Nat, cm3 \in Nat, cm5 \in Nat :
          /\ cn1 = (n1 + b - 1) \div b /\ cn3 = (n3 + b - 1) \div b /\ cn5 = (n5 + b - 1) \div b
          /\ cm1 = (m1 + b - 1) \div b /\ cm3 = (m3 + b - 1) \div b /\ cm5 = (m5 + b - 1) \div b
          /\ cn1 <= cn5 /\ cn3 <= cn5 /\ cm1 <= cm5 /\ cm3 <= cm5
    <2>1. (n1 + b - 1) \div b <= (n5 + b - 1) \div b /\ (n1 + b - 1) \div b \in Nat
          /\ (n5 + b - 1) \div b \in Nat
        BY <1>3, P128!PartsGrow
    <2>2. (n3 + b - 1) \div b <= (n5 + b - 1) \div b /\ (n3 + b - 1) \div b \in Nat
        BY <1>3, P128!PartsGrow
    <2>3. (m1 + b - 1) \div b <= (m5 + b - 1) \div b /\ (m1 + b - 1) \div b \in Nat
          /\ (m5 + b - 1) \div b \in Nat
        BY <1>3, P128!PartsGrow
    <2>4. (m3 + b - 1) \div b <= (m5 + b - 1) \div b /\ (m3 + b - 1) \div b \in Nat
        BY <1>3, P128!PartsGrow
    <2> QED
        BY <2>1, <2>2, <2>3, <2>4
<1>5. PICK s \in Nat, k \in Nat, t \in Nat :
          s = SEED_BYTES /\ k = VEC_K_SIZE_BYTES /\ t = SALT_SIZE_BYTES
    BY <1>1 DEF P128!ParametersFit
<1>6. /\ P128!PUBLIC_KEY_BYTES = s + cn1 /\ P128!SECRET_KEY_BYTES = s + k + (s + cn1)
      /\ P128!CIPHERTEXT_BYTES = cn1 + cm1 + t
    BY <1>2, <1>4, <1>5
    DEF P128!PUBLIC_KEY_BYTES, P128!SECRET_KEY_BYTES, P128!CIPHERTEXT_BYTES, P128!VEC_N_SIZE_BYTES,
        P128!VEC_N1N2_SIZE_BYTES, P128!CeilDivide
<1>7. /\ P192!PUBLIC_KEY_BYTES = s + cn3 /\ P192!SECRET_KEY_BYTES = s + k + (s + cn3)
      /\ P192!CIPHERTEXT_BYTES = cn3 + cm3 + t
    BY <1>2, <1>4, <1>5
    DEF P192!PUBLIC_KEY_BYTES, P192!SECRET_KEY_BYTES, P192!CIPHERTEXT_BYTES, P192!VEC_N_SIZE_BYTES,
        P192!VEC_N1N2_SIZE_BYTES, P192!CeilDivide
<1>8. /\ P256!PUBLIC_KEY_BYTES = s + cn5 /\ P256!SECRET_KEY_BYTES = s + k + (s + cn5)
      /\ P256!CIPHERTEXT_BYTES = cn5 + cm5 + t
    BY <1>2, <1>4, <1>5
    DEF P256!PUBLIC_KEY_BYTES, P256!SECRET_KEY_BYTES, P256!CIPHERTEXT_BYTES, P256!VEC_N_SIZE_BYTES,
        P256!VEC_N1N2_SIZE_BYTES, P256!CeilDivide
<1>9. PICK x \in Nat, y \in Nat, z \in Nat :
          x = s + cn5 /\ y = s + k + (s + cn5) /\ z = cn5 + cm5 + t
    OBVIOUS
<1>10. /\ s + cn1 <= x /\ s + k + (s + cn1) <= y /\ cn1 + cm1 + t <= z
       /\ s + cn3 <= x /\ s + k + (s + cn3) <= y /\ cn3 + cm3 + t <= z
    BY <1>4, <1>9
<1> QED
    BY <1>6, <1>7, <1>8, <1>9, <1>10

LEMMA RoomsAtLevels ==
    /\ Rooms => P128!Room /\ P192!Room /\ P256!Room
    /\ Rooms' => P128!Room' /\ P192!Room' /\ P256!Room'
<1>1. PICK x \in Nat, y \in Nat, z \in Nat :
          /\ x = P256!PUBLIC_KEY_BYTES /\ y = P256!SECRET_KEY_BYTES /\ z = P256!CIPHERTEXT_BYTES
          /\ P128!PUBLIC_KEY_BYTES <= x /\ P128!SECRET_KEY_BYTES <= y /\ P128!CIPHERTEXT_BYTES <= z
          /\ P192!PUBLIC_KEY_BYTES <= x /\ P192!SECRET_KEY_BYTES <= y /\ P192!CIPHERTEXT_BYTES <= z
    BY LargestLevel
<1>2. x <= x /\ y <= y /\ z <= z
    OBVIOUS
<1>3. Rooms => P128!Room /\ P192!Room /\ P256!Room
    BY <1>1, <1>2 DEF Rooms, P128!Room, P192!Room, P256!Room
<1>4. Rooms' => P128!Room' /\ P192!Room' /\ P256!Room'
    BY <1>1, <1>2 DEF Rooms, P128!Room, P192!Room, P256!Room
<1> QED
    BY <1>3, <1>4

LEMMA RoomsStay ==
    ASSUME Rooms, DOMAIN pk' = DOMAIN pk, DOMAIN sk' = DOMAIN sk, DOMAIN ct' = DOMAIN ct
    PROVE  Rooms'
BY DEF Rooms

LEMMA StoriesStart ==
    ASSUME Init
    PROVE  StoryInv
<1>1. Rooms
    BY Promises256 DEF Init, Bytes, Rooms
<1>2. ASSUME NEW p PROVE AllPrinted(p)
    <2>1. printed = << >> /\ << >> \in Seq({}) /\ DOMAIN << >> = {}
        BY DEF Init
    <2> QED
        BY <2>1 DEF AllPrinted
<1>3. stage = "menu"
    BY DEF Init
<1> QED
    BY <1>1, <1>2, <1>3 DEF StoryInv

(* Where device and printed stay and no session runs                       *)
LEMMA NoStory ==
    ASSUME StoryInv, Rooms', UNCHANGED <<device, printed>>, stage' # "run"
    PROVE  StoryInv'
<1>1. PICK p : p = Generator /\ AllPrinted(p)
    BY DEF StoryInv
<1>2. p = Generator'
    BY <1>1 DEF Generator, P128!seedexpander_init, P128!SEEDEXPANDER_DOMAIN
<1>3. AllPrinted(p)'
    BY <1>1 DEF AllPrinted
<1> QED
    BY <1>2, <1>3 DEF StoryInv

LEMMA InitRandomTells ==
    ASSUME StoryInv, InitRandom
    PROVE  StoryInv'
<1>1. /\ prng' = HQC128!seedexpander_init(device) /\ pc' = "keypair" /\ damage' = None
      /\ UNCHANGED <<device, printed, pk, sk, ct>>
    BY DEF InitRandom, init_randombytes
<1>2. Rooms'
    BY <1>1, RoomsStay DEF StoryInv
<1>3. P128!Room' /\ P192!Room' /\ P256!Room'
    BY <1>2, RoomsAtLevels
<1>4. PICK p : p = Generator /\ AllPrinted(p)
    BY DEF StoryInv
<1>5. prng' = p /\ p = Generator'
    BY <1>1, <1>4
    DEF Generator, HQC128!seedexpander_init, P128!seedexpander_init,
        HQC128!SEEDEXPANDER_DOMAIN, P128!SEEDEXPANDER_DOMAIN
<1>6. P128!Story(p, None)' /\ P192!Story(p, None)' /\ P256!Story(p, None)'
    BY <1>1, <1>3, <1>5, P128!StoryBegins, P192!StoryBegins, P256!StoryBegins
<1>7. InStory(p)'
    BY <1>6 DEF InStory
<1>8. AllPrinted(p)'
    BY <1>1, <1>4 DEF AllPrinted
<1> QED
    BY <1>2, <1>5, <1>7, <1>8 DEF StoryInv

(* A step of the level that was chosen                                     *)
LEMMA LevelTells ==
    ASSUME ShakeGivesBytes, NoneIsNoPair, SessionInv, StoryInv, LevelNext
    PROVE  StoryInv'
<1>1. /\ stage = "run" /\ stage' = stage /\ choice' = choice /\ device' = device
      /\ printed' = printed /\ InSession
    BY DEF LevelNext, main, SessionInv
<1>2. PICK p : p = Generator /\ InStory(p) /\ AllPrinted(p)
    BY <1>1 DEF StoryInv
<1>3. p = Generator' /\ AllPrinted(p)'
    BY <1>1, <1>2 DEF Generator, P128!seedexpander_init, P128!SEEDEXPANDER_DOMAIN, AllPrinted
<1>4. P128!NoneIsNoPair /\ P192!NoneIsNoPair /\ P256!NoneIsNoPair
    BY DEF NoneIsNoPair, P128!NoneIsNoPair, P192!NoneIsNoPair, P256!NoneIsNoPair
<1>5. CASE choice = "1" /\ P128!KemNext
    <2>1. PICK d : P128!Story(p, d)
        BY <1>2, <1>5 DEF InStory
    <2>2. \E d2 : P128!Story(p, d2)'
        BY <1>1, <1>4, <1>5, <2>1, LevelsFit, P128!StoryStep DEF InSession
    <2>3. InStory(p)'
        BY <1>1, <1>5, <2>2 DEF InStory
    <2>4. Rooms'
        BY <1>5, P128!LengthsStay, RoomsStay DEF StoryInv
    <2> QED
        BY <1>3, <2>3, <2>4 DEF StoryInv
<1>6. CASE choice = "3" /\ P192!KemNext
    <2>1. PICK d : P192!Story(p, d)
        BY <1>2, <1>6 DEF InStory
    <2>2. \E d2 : P192!Story(p, d2)'
        BY <1>1, <1>4, <1>6, <2>1, LevelsFit, P192!StoryStep DEF InSession
    <2>3. InStory(p)'
        BY <1>1, <1>6, <2>2 DEF InStory
    <2>4. Rooms'
        BY <1>6, P192!LengthsStay, RoomsStay DEF StoryInv
    <2> QED
        BY <1>3, <2>3, <2>4 DEF StoryInv
<1>7. CASE choice = "5" /\ P256!KemNext
    <2>1. PICK d : P256!Story(p, d)
        BY <1>2, <1>7 DEF InStory
    <2>2. \E d2 : P256!Story(p, d2)'
        BY <1>1, <1>4, <1>7, <2>1, LevelsFit, P256!StoryStep DEF InSession
    <2>3. InStory(p)'
        BY <1>1, <1>7, <2>2 DEF InStory
    <2>4. Rooms'
        BY <1>7, P256!LengthsStay, RoomsStay DEF StoryInv
    <2> QED
        BY <1>3, <2>3, <2>4 DEF StoryInv
<1> QED
    BY <1>5, <1>6, <1>7 DEF LevelNext

(* What is printed is the output of the level.                             *)
LEMMA PrintOutputsTells ==
    ASSUME ShakeGivesBytes, SessionInv, StoryInv, PrintOutputs
    PROVE  StoryInv'
<1>1. PICK output, record :
          /\ output = << SubSeq(pk, 1, pk_size), SubSeq(sk, 1, sk_size), SubSeq(ct, 1, ct_size),
                         SubSeq(key_enc, 1, key_size), SubSeq(key_dec, 1, key_size) >>
          /\ record = [level |-> choice, damage |-> damage, output |-> output]
    OBVIOUS
<1>2. /\ stage = "run" /\ stage' = "zeroize" /\ pc = "print" /\ printed' = Append(printed, record)
      /\ UNCHANGED <<device, pk, sk, ct>> /\ choice \in Levels
    BY <1>1 DEF PrintOutputs, kem, SessionInv
<1>3. Rooms'
    BY <1>2, RoomsStay DEF StoryInv
<1>4. PICK p : p = Generator /\ InStory(p) /\ AllPrinted(p)
    BY <1>2 DEF StoryInv
<1>5. record.level = choice /\ record.damage = damage /\ record.output = output
    BY <1>1
<1>6. choice = "1" => output = P128!Output(p, damage)
    <2> SUFFICES ASSUME choice = "1" PROVE output = P128!Output(p, damage)
        OBVIOUS
    <2>1. PICK d : P128!Story(p, d)
        BY <1>4 DEF InStory
    <2>2. /\ pk_size = P128!PUBLIC_KEY_BYTES /\ sk_size = P128!SECRET_KEY_BYTES
          /\ ct_size = P128!CIPHERTEXT_BYTES /\ key_size = SHAKE256_512_BYTES
        BY Promises128 DEF pk_size, sk_size, ct_size, key_size
    <2> QED
        BY <1>1, <1>2, <2>1, <2>2, LevelsFit, P128!StoryEnds
<1>7. choice = "3" => output = P192!Output(p, damage)
    <2> SUFFICES ASSUME choice = "3" PROVE output = P192!Output(p, damage)
        OBVIOUS
    <2>1. PICK d : P192!Story(p, d)
        BY <1>4 DEF InStory
    <2>2. /\ pk_size = P192!PUBLIC_KEY_BYTES /\ sk_size = P192!SECRET_KEY_BYTES
          /\ ct_size = P192!CIPHERTEXT_BYTES /\ key_size = SHAKE256_512_BYTES
        BY Promises192 DEF pk_size, sk_size, ct_size, key_size
    <2> QED
        BY <1>1, <1>2, <2>1, <2>2, LevelsFit, P192!StoryEnds
<1>8. choice = "5" => output = P256!Output(p, damage)
    <2> SUFFICES ASSUME choice = "5" PROVE output = P256!Output(p, damage)
        OBVIOUS
    <2>1. PICK d : P256!Story(p, d)
        BY <1>4 DEF InStory
    <2>2. /\ pk_size = P256!PUBLIC_KEY_BYTES /\ sk_size = P256!SECRET_KEY_BYTES
          /\ ct_size = P256!CIPHERTEXT_BYTES /\ key_size = SHAKE256_512_BYTES
        BY Promises256 DEF pk_size, sk_size, ct_size, key_size
    <2> QED
        BY <1>1, <1>2, <2>1, <2>2, LevelsFit, P256!StoryEnds
<1>9. IsPrinted(record, p)
    BY <1>2, <1>5, <1>6, <1>7, <1>8 DEF IsPrinted
<1>10. AllPrinted(p)'
    <2>1. PICK S : printed \in Seq(S)
        BY <1>4 DEF AllPrinted
    <2>2. PICK T : T = S \cup {record}
        OBVIOUS
    <2>3. printed \in Seq(T) /\ record \in T
        BY <2>1, <2>2
    <2>4. /\ printed' \in Seq(T) /\ Len(printed') = Len(printed) + 1 /\ Len(printed) \in Nat
          /\ \A i \in 1 .. Len(printed) : printed'[i] = printed[i]
          /\ printed'[Len(printed) + 1] = record
        BY <1>2, <2>3, AppendProperties
    <2>5. DOMAIN printed = 1 .. Len(printed) /\ DOMAIN printed' = 1 .. Len(printed')
        BY <2>3, <2>4
    <2>6. ASSUME NEW i \in DOMAIN printed' PROVE IsPrinted(printed'[i], p)
        <3>1. CASE i \in 1 .. Len(printed)
            BY <1>4, <2>4, <2>5, <3>1 DEF AllPrinted
        <3>2. CASE i = Len(printed) + 1
            BY <1>9, <2>4, <3>2
        <3> QED
            BY <2>4, <2>5, <3>1, <3>2
    <2> QED
        BY <2>4, <2>6 DEF AllPrinted
<1>11. p = Generator'
    BY <1>2, <1>4 DEF Generator, P128!seedexpander_init, P128!SEEDEXPANDER_DOMAIN
<1> QED
    BY <1>2, <1>3, <1>10, <1>11 DEF StoryInv

LEMMA ZeroizeTells ==
    ASSUME StoryInv, Zeroize
    PROVE  StoryInv'
<1>1. UNCHANGED <<device, printed, pk, ct>> /\ DOMAIN sk' = DOMAIN sk /\ stage' # "run"
    BY DEF Zeroize, memset_zero
<1>2. Rooms'
    BY <1>1, RoomsStay DEF StoryInv
<1> QED
    BY <1>1, <1>2, NoStory

LEMMA ChooseTells ==
    ASSUME StoryInv, NEW c, Choose(c)
    PROVE  StoryInv'
<1>1. UNCHANGED <<device, printed, pk, sk, ct>> /\ stage' # "run"
    BY DEF Choose, kem
<1>2. Rooms'
    BY <1>1, RoomsStay DEF StoryInv
<1> QED
    BY <1>1, <1>2, NoStory

LEMMA StutterTells ==
    ASSUME StoryInv, UNCHANGED vars
    PROVE  StoryInv'
<1>1. /\ UNCHANGED <<stage, choice, device, printed>>
      /\ UNCHANGED <<pc, queue, expander, weight, support, at, factors, loc, prng, pk, sk, ct,
                     key_enc, key_dec, ret, sent, damage>>
    BY DEF vars, kem
<1>2. Rooms'
    BY <1>1, RoomsStay DEF StoryInv
<1>3. CASE stage = "run"
    <2>1. PICK p : p = Generator /\ InStory(p) /\ AllPrinted(p)
        BY <1>3 DEF StoryInv
    <2>2. choice = "1" => \E d : P128!Story(p, d)'
        BY <1>1, <2>1, P128!NothingElse DEF InStory
    <2>3. choice = "3" => \E d : P192!Story(p, d)'
        BY <1>1, <2>1, P192!NothingElse DEF InStory
    <2>4. choice = "5" => \E d : P256!Story(p, d)'
        BY <1>1, <2>1, P256!NothingElse DEF InStory
    <2>5. InStory(p)'
        BY <1>1, <2>2, <2>3, <2>4 DEF InStory
    <2>6. p = Generator' /\ AllPrinted(p)'
        BY <1>1, <2>1 DEF Generator, P128!seedexpander_init, P128!SEEDEXPANDER_DOMAIN, AllPrinted
    <2> QED
        BY <1>2, <2>5, <2>6 DEF StoryInv
<1>4. CASE stage # "run"
    BY <1>1, <1>2, <1>4, NoStory
<1> QED
    BY <1>3, <1>4

(* In every session every variable of the key encapsulation is the function  *)
(* of the seed that its place in the program calls for, and so was all that   *)
(* has been printed.                                                       *)
THEOREM SessionsTellOneStory ==
    ASSUME ShakeGivesBytes, NoneIsNoPair
    PROVE  Spec => []StoryInv
<1>1. Init => StoryInv
    BY StoriesStart
<1>2. SessionInv /\ StoryInv /\ [Next]_vars => StoryInv'
    BY ChooseTells, InitRandomTells, VectorsAndCalls, Damages, LevelTells, PrintOutputsTells,
       ZeroizeTells, StutterTells DEF Next
<1> QED
    BY <1>1, <1>2, SessionInvariance, PTL DEF Spec

(* hqc_pke_decrypt gives the decoder, for every choice of parameters and      *)
(* every seed, the codeword that was sent and the noise x r2 + r1 y + e: the  *)
(* secret vectors drawn again from the seed in the key are the old ones, and  *)
(* the products with h cancel.                                             *)
THEOREM NoiseIsAllThatIsLeft ==
    ASSUME ShakeGivesBytes, NoneIsNoPair
    PROVE  Spec => []DecryptionSeesTheNoise
<1>1. StoryInv => DecryptionSeesTheNoise
    <2> SUFFICES ASSUME StoryInv, stage = "run" PROVE DecryptionSeesTheNoise
        BY DEF DecryptionSeesTheNoise, AtLevel
    <2>1. PICK p : InStory(p)
        BY DEF StoryInv
    <2>2. choice = "1" => HQC128!DecryptionSeesTheNoise
        BY <2>1, LevelsFit, Promises128, P128!StoryHasNoise DEF InStory
    <2>3. choice = "3" => HQC192!DecryptionSeesTheNoise
        BY <2>1, LevelsFit, Promises192, P192!StoryHasNoise DEF InStory
    <2>4. choice = "5" => HQC256!DecryptionSeesTheNoise
        BY <2>1, LevelsFit, Promises256, P256!StoryHasNoise DEF InStory
    <2> QED
        BY <2>2, <2>3, <2>4 DEF DecryptionSeesTheNoise, AtLevel
<1> QED
    BY <1>1, SessionsTellOneStory, PTL

(* crypto_kem_dec of an intact ciphertext returns 0 and the secret of         *)
(* crypto_kem_enc whenever the noise is within the radius of the code.       *)
THEOREM BothSidesShareTheSecret ==
    ASSUME ShakeGivesBytes, NoneIsNoPair
    PROVE  Spec => []KeysAgree
<1>1. StoryInv => KeysAgree
    <2> SUFFICES ASSUME StoryInv, stage = "run" PROVE KeysAgree
        BY DEF KeysAgree, AtLevel
    <2>1. PICK p : InStory(p)
        BY DEF StoryInv
    <2>2. choice = "1" => HQC128!KeysAgree
        BY <2>1, LevelsFit, Promises128, P128!StoryAgrees DEF InStory
    <2>3. choice = "3" => HQC192!KeysAgree
        BY <2>1, LevelsFit, Promises192, P192!StoryAgrees DEF InStory
    <2>4. choice = "5" => HQC256!KeysAgree
        BY <2>1, LevelsFit, Promises256, P256!StoryAgrees DEF InStory
    <2> QED
        BY <2>2, <2>3, <2>4 DEF KeysAgree, AtLevel
<1> QED
    BY <1>1, SessionsTellOneStory, PTL

(* main prints the same for the same level and damage in every session: no    *)
(* byte that another level has left in the shared buffers, and no state of    *)
(* the generator, gets into it.                                             *)
THEOREM OutputsRepeat ==
    ASSUME ShakeGivesBytes, NoneIsNoPair
    PROVE  Spec => []SessionsRepeat
<1>1. StoryInv => SessionsRepeat
    <2> SUFFICES ASSUME StoryInv, NEW i \in DOMAIN printed, NEW j \in DOMAIN printed,
                        printed[i].level = printed[j].level, printed[i].damage = printed[j].damage
                 PROVE  printed[i].output = printed[j].output
        BY DEF SessionsRepeat
    <2>1. PICK p : AllPrinted(p)
        BY DEF StoryInv
    <2>2. IsPrinted(printed[i], p) /\ IsPrinted(printed[j], p)
        BY <2>1 DEF AllPrinted
    <2> QED
        BY <2>2 DEF IsPrinted, Levels
<1> QED
    BY <1>1, SessionsTellOneStory, PTL
=============================================================================
