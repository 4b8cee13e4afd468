------------------------------- MODULE Session -------------------------------
(***************************************************************************)
(* firmware.c: the user chooses a level, a key pair is made, a secret is    *)
(* encapsulated and decapsulated, the results are printed and the secrets   *)
(* cleared.  The buffers are static, as long as the largest level needs,    *)
(* and shared by the levels.  The three levels run the same code with other *)
(* sizes.                                                                  *)
(***************************************************************************)
EXTENDS Integers, Sequences

CONSTANTS Parameters,      \* of each level: PARAM_N, PARAM_N1N2 and the weights
          WORD, WINDOW, BYTE,
          SEED_BYTES, VEC_K_SIZE_BYTES, SALT_SIZE_BYTES, SHAKE256_512_BYTES,
          SEED_LEN,        \* bytes of seed, 32 in the program
          shake256(_, _),
          Seeds,           \* what init_seed may fill seed with
          Characters,      \* what uart_getc may return
          DamagedBits,     \* how a ciphertext may be damaged
          MaxSessions,     \* bound of a behaviour
          None

VARIABLES stage,       \* "menu", "seed", "run" or "zeroize"
          choice,      \* the level chosen last
          seed,
          device,      \* what init_seed fills seed with on this device
          sessions,    \* sessions completed
          printed,     \* history: what was printed by level and damage
          pc, queue, expander, weight, support, at, drawn, factors, product, loc, prng,
          pk, sk, ct, key_enc, key_dec, ret, sent, damage

kem == <<pc, queue, expander, weight, support, at, drawn, factors, product, loc, prng,
         pk, sk, ct, key_enc, key_dec, ret, sent, damage>>
main == <<stage, choice, seed, device, sessions, printed>>
vars == <<stage, choice, seed, device, sessions, printed, kem>>

HQC128 == INSTANCE Kem WITH
    PARAM_N <- Parameters["1"].n, PARAM_N1N2 <- Parameters["1"].n1n2,
    PARAM_OMEGA <- Parameters["1"].omega, PARAM_OMEGA_R <- Parameters["1"].omega_r,
    PARAM_OMEGA_E <- Parameters["1"].omega_e
HQC192 == INSTANCE Kem WITH
    PARAM_N <- Parameters["3"].n, PARAM_N1N2 <- Parameters["3"].n1n2,
    PARAM_OMEGA <- Parameters["3"].omega, PARAM_OMEGA_R <- Parameters["3"].omega_r,
    PARAM_OMEGA_E <- Parameters["3"].omega_e
HQC256 == INSTANCE Kem WITH
    PARAM_N <- Parameters["5"].n, PARAM_N1N2 <- Parameters["5"].n1n2,
    PARAM_OMEGA <- Parameters["5"].omega, PARAM_OMEGA_R <- Parameters["5"].omega_r,
    PARAM_OMEGA_E <- Parameters["5"].omega_e

(* The parameters of parameters.h, the largest those of HQC-256, which the    *)
(* static buffers are made for, and a seed of bytes.                        *)
ASSUME SessionAssumption ==
    /\ HQC128!ParametersFit /\ HQC192!ParametersFit /\ HQC256!ParametersFit
    /\ \A l \in {"1", "3"} : /\ Parameters[l].n <= Parameters["5"].n
                            /\ Parameters[l].n1n2 <= Parameters["5"].n1n2
    /\ SEED_LEN \in Nat /\ Seeds \subseteq [1..SEED_LEN -> 0 .. 2^BYTE - 1]

Bytes(n, b) == [k \in 1..n |-> b]

Init ==
    /\ stage = "menu" /\ choice = None /\ sessions = 0 /\ printed = << >>
    /\ device \in Seeds
    /\ seed = Bytes(SEED_LEN, 0)
    /\ pc = "idle"
    /\ HQC128!KemInit
    /\ pk = Bytes(HQC256!PUBLIC_KEY_BYTES, 0)
    /\ sk = Bytes(HQC256!SECRET_KEY_BYTES, 0)
    /\ ct = Bytes(HQC256!CIPHERTEXT_BYTES, 0)
    /\ key_enc = Bytes(SHAKE256_512_BYTES, 0)
    /\ key_dec = Bytes(SHAKE256_512_BYTES, 0)

-----------------------------------------------------------------------------
Levels == {"1", "3", "5"}

(* The menu: a character that is no level is refused or ignored.  A level    *)
(* has the stack painted, and the seed is on the stack.                     *)
Choose(c) ==
    /\ stage = "menu" /\ sessions < MaxSessions
    /\ choice' = c
    /\ IF c \in Levels
       THEN stage' = "seed" /\ seed' = Bytes(SEED_LEN, 2^BYTE - 1)
       ELSE UNCHANGED <<stage, seed>>
    /\ UNCHANGED <<device, sessions, printed, kem>>

\* Mutant: the generator goes on where the session before has left it.
initOnce(bytes) == IF prng = None THEN HQC128!seedexpander_init(bytes) ELSE prng

init_randombytes(bytes) == HQC128!seedexpander_init(bytes)

(* init_seed, deterministic, and init_randombytes                           *)
InitRandom ==
    /\ stage = "seed"
    /\ seed' = device
    /\ prng' = init_randombytes(device)
    /\ pc' = "keypair"
    /\ damage' = None
    /\ stage' = "run"
    /\ UNCHANGED <<choice, device, sessions, printed, queue, expander, weight, support, at, drawn,
                   factors, product, loc, pk, sk, ct, key_enc, key_dec, ret, sent>>

(* The functions of a level                                                 *)
At(c) == stage = "run" /\ choice = c /\ UNCHANGED main

Draw128 == At("1") /\ HQC128!Draw
Settle128 == At("1") /\ HQC128!Settle
Collect128 == At("1") /\ HQC128!Collect
VectMul128 == At("1") /\ HQC128!VectMul
Keygen128 == At("1") /\ (HQC128!KeygenSeeds \/ HQC128!KeygenH \/ HQC128!KeygenS)
Encrypt128 == At("1") /\ (HQC128!EncryptU \/ HQC128!EncryptMG \/ HQC128!EncryptV)
Encapsulate128 == At("1") /\ (HQC128!EncBegin \/ HQC128!EncEnd)
ReadStrings128 == At("1") /\ HQC128!DecBegin
Decrypt128 == At("1") /\ (HQC128!Decrypt \/ HQC128!DecryptM)
Decapsulate128 == At("1") /\ HQC128!DecEnd

Draw192 == At("3") /\ HQC192!Draw
Settle192 == At("3") /\ HQC192!Settle
Collect192 == At("3") /\ HQC192!Collect
VectMul192 == At("3") /\ HQC192!VectMul
Keygen192 == At("3") /\ (HQC192!KeygenSeeds \/ HQC192!KeygenH \/ HQC192!KeygenS)
Encrypt192 == At("3") /\ (HQC192!EncryptU \/ HQC192!EncryptMG \/ HQC192!EncryptV)
Encapsulate192 == At("3") /\ (HQC192!EncBegin \/ HQC192!EncEnd)
ReadStrings192 == At("3") /\ HQC192!DecBegin
Decrypt192 == At("3") /\ (HQC192!Decrypt \/ HQC192!DecryptM)
Decapsulate192 == At("3") /\ HQC192!DecEnd

Draw256 == At("5") /\ HQC256!Draw
Settle256 == At("5") /\ HQC256!Settle
Collect256 == At("5") /\ HQC256!Collect
VectMul256 == At("5") /\ HQC256!VectMul
Keygen256 == At("5") /\ (HQC256!KeygenSeeds \/ HQC256!KeygenH \/ HQC256!KeygenS)
Encrypt256 == At("5") /\ (HQC256!EncryptU \/ HQC256!EncryptMG \/ HQC256!EncryptV)
Encapsulate256 == At("5") /\ (HQC256!EncBegin \/ HQC256!EncEnd)
ReadStrings256 == At("5") /\ HQC256!DecBegin
Decrypt256 == At("5") /\ (HQC256!Decrypt \/ HQC256!DecryptM)
Decapsulate256 == At("5") /\ HQC256!DecEnd

(* A bit of the ciphertext changes between crypto_kem_enc and               *)
(* crypto_kem_dec.                                                         *)
Damage ==
    /\ stage = "run" /\ UNCHANGED main
    /\ \E d \in DamagedBits :
          \/ choice = "1" /\ HQC128!Damage(d[1] % HQC128!CIPHERTEXT_BYTES, d[2])
          \/ choice = "3" /\ HQC192!Damage(d[1] % HQC192!CIPHERTEXT_BYTES, d[2])
          \/ choice = "5" /\ HQC256!Damage(d[1] % HQC256!CIPHERTEXT_BYTES, d[2])

-----------------------------------------------------------------------------
pk_size == CASE choice = "1" -> HQC128!PUBLIC_KEY_BYTES
             [] choice = "3" -> HQC192!PUBLIC_KEY_BYTES
             [] choice = "5" -> HQC256!PUBLIC_KEY_BYTES
sk_size == CASE choice = "1" -> HQC128!SECRET_KEY_BYTES
             [] choice = "3" -> HQC192!SECRET_KEY_BYTES
             [] choice = "5" -> HQC256!SECRET_KEY_BYTES
ct_size == CASE choice = "1" -> HQC128!CIPHERTEXT_BYTES
             [] choice = "3" -> HQC192!CIPHERTEXT_BYTES
             [] choice = "5" -> HQC256!CIPHERTEXT_BYTES
key_size == SHAKE256_512_BYTES

PrintOutputs ==
    /\ stage = "run" /\ pc = "print"
    /\ LET output == << SubSeq(pk, 1, pk_size), SubSeq(sk, 1, sk_size), SubSeq(ct, 1, ct_size),
                        SubSeq(key_enc, 1, key_size), SubSeq(key_dec, 1, key_size) >>
       IN  printed' = Append(printed, [level |-> choice, damage |-> damage, output |-> output])
    /\ stage' = "zeroize"
    /\ UNCHANGED <<choice, seed, device, sessions, kem>>

\* Mutant: the last byte stays.
memsetShort(buffer, len) == [k \in DOMAIN buffer |-> IF k < len THEN 0 ELSE buffer[k]]

memset_zero(buffer, len) == [k \in DOMAIN buffer |-> IF k <= len THEN 0 ELSE buffer[k]]

Zeroize ==
    /\ stage = "zeroize"
    /\ sk' = memset_zero(sk, sk_size)
    /\ key_enc' = memset_zero(key_enc, key_size)
    /\ key_dec' = memset_zero(key_dec, key_size)
    /\ seed' = memset_zero(seed, SEED_LEN)
    /\ pc' = "idle"
    /\ sessions' = sessions + 1
    /\ stage' = "menu"
    /\ UNCHANGED <<choice, device, printed, queue, expander, weight, support, at, drawn, factors,
                   product, loc, prng, pk, ct, ret, sent, damage>>

-----------------------------------------------------------------------------
Vectors == \/ Draw128 \/ Draw192 \/ Draw256
           \/ Settle128 \/ Settle192 \/ Settle256
           \/ Collect128 \/ Collect192 \/ Collect256
           \/ VectMul128 \/ VectMul192 \/ VectMul256

Calls == \/ Keygen128 \/ Keygen192 \/ Keygen256
         \/ Encrypt128 \/ Encrypt192 \/ Encrypt256
         \/ Encapsulate128 \/ Encapsulate192 \/ Encapsulate256
         \/ ReadStrings128 \/ ReadStrings192 \/ ReadStrings256
         \/ Decrypt128 \/ Decrypt192 \/ Decrypt256
         \/ Decapsulate128 \/ Decapsulate192 \/ Decapsulate256

Next == \/ \E c \in Characters : Choose(c)
        \/ InitRandom \/ Vectors \/ Calls \/ Damage \/ PrintOutputs \/ Zeroize

Spec == Init /\ [][Next]_vars

-----------------------------------------------------------------------------
(* The promises of Kem.tla at every level                                   *)
AtLevel(p128, p192, p256) ==
    stage = "run" => /\ choice = "1" => p128
                     /\ choice = "3" => p192
                     /\ choice = "5" => p256

(* vect_mul of every level multiplies modulo X^PARAM_N - 1 within its memory. *)
ProductsAreCyclic ==
    AtLevel(HQC128!ProductsAreCyclic, HQC192!ProductsAreCyclic, HQC256!ProductsAreCyclic)

(* hqc_pke_decrypt hands the decoder the codeword and the noise alone.       *)
DecryptionSeesTheNoise ==
    AtLevel(HQC128!DecryptionSeesTheNoise, HQC192!DecryptionSeesTheNoise,
            HQC256!DecryptionSeesTheNoise)

(* An intact ciphertext with little noise gives both sides the same secret.  *)
KeysAgree == AtLevel(HQC128!KeysAgree, HQC192!KeysAgree, HQC256!KeysAgree)

(* A damaged ciphertext gives the rejection secret.                         *)
DamagedIsRejected ==
    AtLevel(HQC128!DamagedIsRejected, HQC192!DamagedIsRejected, HQC256!DamagedIsRejected)

(* While main waits for a choice, no byte of a secret key, a shared secret or *)
(* the seed is left in its buffers, whatever levels ran before.             *)
NothingSecretRemains ==
    stage = "menu" =>
        \A buffer \in {sk, key_enc, key_dec, seed} : \A k \in DOMAIN buffer : buffer[k] = 0

(* With the deterministic seed a level prints the same in every session: what *)
(* other levels left in the shared buffers and in the generator does not    *)
(* matter.                                                                 *)
SessionsRepeat ==
    \A i, j \in DOMAIN printed :
        printed[i].level = printed[j].level /\ printed[i].damage = printed[j].damage =>
            printed[i].output = printed[j].output
==============================================================================
