-------------------------------- MODULE Hashing --------------------------------
(***************************************************************************)
(* Hashing in steps.  A behaviour does one job: it permutes a state of     *)
(* Keccak round by round, or hashes a message that comes in pieces, with   *)
(* an output that is asked for in pieces, by one of the functions of       *)
(* fips202.c or by the seed expander.                                      *)
(***************************************************************************)
EXTENDS Sponge, KeccakF

CONSTANTS None,
          Starts,            \* states to permute
          Text(_),           \* byte k = 1, 2, ... of what is hashed
          Lengths(_),        \* for a rate, how many bytes may come or be asked for at once
          MaxAbsorbs, MaxSqueezes    \* bounds of a behaviour

VARIABLES job,
          A, E, round,            \* the permutation: lanes, and rounds done
          phase, m, ctx, out,     \* the sponge: what it has read and written
          calls,                  \* absorbs or squeezes of this phase
          piece                   \* what the expander gave last, and from where in its stream

vars == <<job, A, E, round, phase, m, ctx, out, calls, piece>>

permutation == <<A, E, round>>

Functions == [shake128 |-> shake128, shake256 |-> shake256, sha3_256 |-> sha3_256,
              sha3_384 |-> sha3_384, sha3_512 |-> sha3_512,
              expander |-> shake256, ds |-> shake256]

f == Functions[job]

Pieces == IF job = "permute" THEN {} ELSE Lengths(f.rate)

(* The n bytes of the message that follow its first k. *)
Bytes(k, n) == [i \in 1..n |-> Text(k + i)]

(* A lane has 64 bits, a piece a length, and what the expander gave is not   *)
(* the mark that it gave nothing yet.                                       *)
ASSUME HashingAssumption ==
    /\ Starts \subseteq [Lanes -> SUBSET (0..63)]
    /\ \A j \in DOMAIN Functions : Lengths(Functions[j].rate) \subseteq Nat
    /\ None \notin [from : Nat, bytes : Seq(0..255)]

Init ==
    /\ job \in DOMAIN Functions \cup {"permute"}
    /\ A \in IF job = "permute" THEN Starts ELSE {None}
    /\ E = None
    /\ round = 0
    /\ phase = IF job \in {"expander", "ds", "permute"} THEN "idle" ELSE "absorbing"
    /\ ctx = keccak_inc_init
    /\ m = << >> /\ out = << >> /\ calls = 0 /\ piece = None

FirstHalf ==
    /\ job = "permute" /\ round < NROUNDS /\ round % 2 = 0
    /\ E' = thetaRhoPiChiIota(A, prepareTheta(A), KeccakF_RoundConstants[round + 1])
    /\ round' = round + 1
    /\ UNCHANGED <<job, A, phase, m, ctx, out, calls, piece>>

SecondHalf ==
    /\ job = "permute" /\ round % 2 = 1
    /\ A' = thetaRhoPiChiIota(E, prepareTheta(E), KeccakF_RoundConstants[round + 1])
    /\ round' = round + 1
    /\ UNCHANGED <<job, E, phase, m, ctx, out, calls, piece>>

Absorb(n) ==
    /\ phase = "absorbing" /\ calls < MaxAbsorbs
    /\ ctx' = keccak_inc_absorb(ctx, f.rate, Bytes(Len(m), n))
    /\ m' = m \o Bytes(Len(m), n)
    /\ calls' = calls + 1
    /\ UNCHANGED <<job, permutation, phase, out, piece>>

Finalize ==
    /\ phase = "absorbing" /\ f.digest = 0
    /\ ctx' = keccak_inc_finalize(ctx, f.rate, f.p)
    /\ phase' = "squeezing"
    /\ calls' = 0
    /\ UNCHANGED <<job, permutation, m, out, piece>>

Digest ==
    /\ phase = "absorbing" /\ f.digest # 0
    /\ out' = sha3_inc_finalize(f, ctx)
    /\ phase' = "done"
    /\ UNCHANGED <<job, permutation, m, ctx, calls, piece>>

Squeeze(n) ==
    /\ phase = "squeezing" /\ job # "expander" /\ calls < MaxSqueezes
    /\ LET squeezed == keccak_inc_squeeze(n, ctx, f.rate)
       IN  /\ out' = out \o squeezed[1]
           /\ ctx' = squeezed[2]
    /\ calls' = calls + 1
    /\ UNCHANGED <<job, permutation, phase, m, piece>>

(* shake256_512_ds *)
HashInDomain(n, domain) ==
    /\ job = "ds" /\ phase = "idle"
    /\ m' = Bytes(0, n) \o <<domain>>
    /\ out' = shake256_512_ds(Bytes(0, n), domain)
    /\ phase' = "done"
    /\ UNCHANGED <<job, permutation, ctx, calls, piece>>

ExpanderInit(n) ==
    /\ job = "expander" /\ phase = "idle"
    /\ ctx' = seedexpander_init(Bytes(0, n))
    /\ m' = Bytes(0, n) \o <<SEEDEXPANDER_DOMAIN>>
    /\ phase' = "squeezing"
    /\ UNCHANGED <<job, permutation, out, calls, piece>>

WordsFor(n) == ((n + LaneBytes - 1) \div LaneBytes) * LaneBytes

Expand(n) ==
    /\ phase = "squeezing" /\ job = "expander" /\ calls < MaxSqueezes
    /\ LET expanded == seedexpander(ctx, n)
           from == IF piece = None THEN 0 ELSE piece.from + WordsFor(Len(piece.bytes))
       IN  /\ piece' = [from |-> from, bytes |-> expanded[1]]
           /\ ctx' = expanded[2]
    /\ calls' = calls + 1
    /\ UNCHANGED <<job, permutation, phase, m, out>>

Next ==
    \/ FirstHalf
    \/ SecondHalf
    \/ \E n \in Pieces : Absorb(n)
    \/ Finalize
    \/ Digest
    \/ \E n \in Pieces : Squeeze(n)
    \/ \E n \in Pieces, domain \in {G_FCT_DOMAIN, K_FCT_DOMAIN} : HashInDomain(n, domain)
    \/ \E n \in Pieces : ExpanderInit(n)
    \/ \E n \in Pieces : Expand(n)

Spec == Init /\ [][Next]_vars

-----------------------------------------------------------------------------
(* The sponge construction of FIPS 202, section 4: pad, absorb, squeeze.   *)
Stream(fn, message, length) ==
    LET r == fn.rate
        padding == r - (Len(message) % r)
        padded == [i \in 1 .. Len(message) + padding |->
                      IF i <= Len(message) THEN message[i]
                      ELSE (IF i = Len(message) + 1 THEN fn.p ELSE 0)
                           ++ (IF i = Len(message) + padding THEN 128 ELSE 0)]
        absorbed[k \in 0 .. Len(padded) \div r] ==
            IF k = 0 THEN Zero
            ELSE Permute(XorInto(absorbed[k - 1], 0, SubSeq(padded, r * (k - 1) + 1, r * k)))
        squeezed[k \in 0 .. length \div r] ==
            IF k = 0 THEN absorbed[Len(padded) \div r] ELSE Permute(squeezed[k - 1])
        blocks == << >> \o [k \in 1 .. (length \div r) + 1 |-> squeezed[k - 1]]
    IN  [i \in 1..length |-> blocks[((i - 1) \div r) + 1][((i - 1) % r) + 1]]

(* Every round of the unrolled KeccakF1600_StatePermute is that of FIPS 202.  *)
RoundsFollowFIPS202 ==
    [][round' # round =>
        IF round % 2 = 0 THEN Grid(E') = Rnd(Grid(A), round) ELSE Grid(A') = Rnd(Grid(E), round)]_vars

(* However the message and the output are cut, the incremental functions    *)
(* give the output of the sponge for the whole message.                     *)
OutputIsSponge ==
    phase \in {"squeezing", "done"} => out = Stream(f, m, Len(out))

(* The one-shot functions give what the incremental ones give. *)
OneShotAgrees ==
    phase \in {"squeezing", "done"} =>
        out = IF f.digest = 0 THEN shake(f, Len(out), m) ELSE sha3(f, m)

(* The expander gives the bytes of one stream in order, each piece from the  *)
(* beginning of a word, whatever was asked for before.                      *)
ExpanderCutsAtWords ==
    piece # None =>
        piece.bytes = LET end == piece.from + Len(piece.bytes)
                      IN  SubSeq(Stream(shake256, m, end), piece.from + 1, end)
===============================================================================
