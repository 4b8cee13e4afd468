-------------------------------- MODULE Sponge --------------------------------
(***************************************************************************)
(* The sponge functions of fips202.c over an abstract permutation, and the *)
(* expander of shake_prng.c on top of them.  A state is the sequence of    *)
(* its bytes: byte i of the program is bits 8 (i % 8) and up of lane       *)
(* i / 8, in every function.  Messages and outputs are sequences of bytes. *)
(***************************************************************************)
EXTENDS GF, Sequences

CONSTANTS LaneBytes,       \* 8 in the program
          Permute(_)       \* KeccakF1600_StatePermute

ASSUME LaneAssumption == LaneBytes \in Nat \ {0}

StateBytes == 25 * LaneBytes

(* The functions built on the sponge: the rate in bytes, the domain byte of  *)
(* the padding, and the length of the digest, 0 for one of any length.      *)
shake128 == [rate |-> 21 * LaneBytes, p |-> 31, digest |-> 0]
shake256 == [rate |-> 17 * LaneBytes, p |-> 31, digest |-> 0]
sha3_256 == [rate |-> 17 * LaneBytes, p |-> 6, digest |-> 4 * LaneBytes]
sha3_384 == [rate |-> 13 * LaneBytes, p |-> 6, digest |-> 6 * LaneBytes]
sha3_512 == [rate |-> 9 * LaneBytes, p |-> 6, digest |-> 8 * LaneBytes]

(* The state with the bytes of m XORed in from byte start. *)
XorInto(s, start, m) ==
    << >> \o [i \in DOMAIN s |-> IF i - start \in DOMAIN m THEN s[i] ++ m[i - start] ELSE s[i]]

Zero == [i \in 1..StateBytes |-> 0]

-----------------------------------------------------------------------------
(* One-shot: absorb, pad, squeeze whole blocks. *)

keccak_absorb(r, m, p) ==
    LET blocks == Len(m) \div r
        absorbed[k \in 0..blocks] ==
            IF k = 0 THEN Zero
            ELSE Permute(XorInto(absorbed[k - 1], 0, SubSeq(m, r * (k - 1) + 1, r * k)))
        rest == SubSeq(m, r * blocks + 1, Len(m))
        t == [i \in 1..r |-> IF i <= Len(rest) THEN rest[i] ELSE IF i = Len(rest) + 1 THEN p ELSE 0]
    IN  XorInto(absorbed[blocks], 0, [t EXCEPT ![r] = IF @ >= 128 THEN @ ELSE @ + 128])

(* <<the blocks, the state they leave>> *)
keccak_squeezeblocks(nblocks, s, r) ==
    LET squeezed[k \in 0..nblocks] ==
            IF k = 0 THEN <<<< >>, s>>
            ELSE LET before == squeezed[k - 1]
                     after == Permute(before[2])
                 IN  <<before[1] \o SubSeq(after, 1, r), after>>
    IN  squeezed[nblocks]

\* Mutant: the last bytes come from the block before.
shakeLeftOver(f, outlen, m) ==
    LET nblocks == outlen \div f.rate
        whole == keccak_squeezeblocks(nblocks, keccak_absorb(f.rate, m, f.p), f.rate)
    IN  whole[1] \o SubSeq(whole[2], 1, outlen % f.rate)

(* shake128, shake256: a last block is squeezed for what is left over. *)
shake(f, outlen, m) ==
    LET nblocks == outlen \div f.rate
        left == outlen % f.rate
        whole == keccak_squeezeblocks(nblocks, keccak_absorb(f.rate, m, f.p), f.rate)
    IN  IF left = 0 THEN whole[1]
        ELSE whole[1] \o SubSeq(keccak_squeezeblocks(1, whole[2], f.rate)[1], 1, left)

(* sha3_256, sha3_384, sha3_512 *)
sha3(f, m) ==
    SubSeq(keccak_squeezeblocks(1, keccak_absorb(f.rate, m, f.p), f.rate)[1], 1, f.digest)

-----------------------------------------------------------------------------
(* Incremental: a context is the state and the 26th word, which counts the  *)
(* bytes absorbed since the last permutation, later the bytes not squeezed  *)
(* yet.                                                                     *)

keccak_inc_init == [s |-> Zero, n |-> 0]

(* The state after the permutations that the bytes fill, of which the first *)
(* completes the block that was begun, and the rest of the bytes in it.      *)
absorb_blocks(ctx, r, m, blocks) ==
    LET start(k) == IF k = 0 THEN ctx.n ELSE 0
        gone(k) == IF k = 0 THEN 0 ELSE r * k - ctx.n
        absorbed[k \in 0..blocks] ==
            IF k = 0 THEN ctx.s
            ELSE Permute(XorInto(absorbed[k - 1], start(k - 1), SubSeq(m, gone(k - 1) + 1, gone(k))))
    IN  [s |-> XorInto(absorbed[blocks], start(blocks), SubSeq(m, gone(blocks) + 1, Len(m))),
         n |-> start(blocks) + Len(m) - gone(blocks)]

\* Mutant: the state is permuted only when the next byte comes.
absorbLate(ctx, r, m) ==
    absorb_blocks(ctx, r, m, IF ctx.n + Len(m) = 0 THEN 0 ELSE (ctx.n + Len(m) - 1) \div r)

keccak_inc_absorb(ctx, r, m) == absorb_blocks(ctx, r, m, (ctx.n + Len(m)) \div r)

keccak_inc_finalize(ctx, r, p) ==
    [s |-> XorInto(XorInto(ctx.s, ctx.n, <<p>>), r - 1, <<128>>), n |-> 0]

(* <<the output, the context it leaves>>: first what is left of a block,    *)
(* then as many blocks as it takes.                                         *)
keccak_inc_squeeze(outlen, ctx, r) ==
    LET kept == IF outlen < ctx.n THEN outlen ELSE ctx.n
        needed == outlen - kept
        nblocks == (needed + r - 1) \div r
        squeezed == keccak_squeezeblocks(nblocks, ctx.s, r)
    IN  <<SubSeq(ctx.s, r - ctx.n + 1, r - ctx.n + kept) \o SubSeq(squeezed[1], 1, needed),
          [s |-> squeezed[2],
           n |-> IF nblocks = 0 THEN ctx.n - kept ELSE r * nblocks - needed]>>

(* sha3_256_inc_finalize and its like: one block, of which the digest is the *)
(* beginning.                                                               *)
sha3_inc_finalize(f, ctx) ==
    SubSeq(keccak_squeezeblocks(1, keccak_inc_finalize(ctx, f.rate, f.p).s, f.rate)[1], 1, f.digest)

-----------------------------------------------------------------------------
SEEDEXPANDER_DOMAIN == 2
G_FCT_DOMAIN == 3
K_FCT_DOMAIN == 4

(* A context that has absorbed input and a domain byte. *)
seedexpander_init(seed) ==
    LET r == shake256.rate
    IN  keccak_inc_finalize(
            keccak_inc_absorb(keccak_inc_absorb(keccak_inc_init, r, seed), r, <<SEEDEXPANDER_DOMAIN>>),
            r, shake256.p)

\* Mutant: no more than is asked for is squeezed.
expandExactly(ctx, outlen) == keccak_inc_squeeze(outlen, ctx, shake256.rate)

(* <<the output, the context it leaves>>: whole words of the stream; of the  *)
(* last one what is not asked for is thrown away.                           *)
seedexpander(ctx, outlen) ==
    LET remainder == outlen % LaneBytes
        whole == keccak_inc_squeeze(outlen - remainder, ctx, shake256.rate)
        tmp == keccak_inc_squeeze(LaneBytes, whole[2], shake256.rate)
    IN  IF remainder = 0 THEN whole
        ELSE <<whole[1] \o SubSeq(tmp[1], 1, remainder), tmp[2]>>

(* shake256_512_ds: 64 bytes for an input in a domain. *)
shake256_512_ds(input, domain) ==
    LET r == shake256.rate
        absorbed == keccak_inc_absorb(keccak_inc_absorb(keccak_inc_init, r, input), r, <<domain>>)
    IN  keccak_inc_squeeze(8 * LaneBytes, keccak_inc_finalize(absorbed, r, shake256.p), r)[1]
===============================================================================
