--------------------------------- MODULE Code ---------------------------------
(***************************************************************************)
(* code.c: the concatenated code of HQC, Reed-Solomon outside and          *)
(* duplicated Reed-Muller inside, and its decoder as a state machine with  *)
(* one action for each function that reed_solomon_decode calls, over the   *)
(* array that function fills.                                              *)
(***************************************************************************)
EXTENDS ReedSolomon, ReedMuller

CONSTANT None    \* an array not filled yet

VARIABLES stage,       \* what has been computed last
          msg,         \* the message sent
          block,       \* the bits on the channel, by block of PARAM_N2
          cdw,         \* the word of symbols: sent, then received, then corrected
          noise,       \* what the channel added
          syndromes, elp, w, error, z, error_values

vars == <<stage, msg, block, cdw, noise, syndromes, elp, w, error, z, error_values>>

decoding == <<syndromes, elp, w, error, z, error_values>>

CodeInit ==
    /\ stage = "idle"
    /\ msg = None /\ block = None /\ cdw = None /\ noise = None
    /\ syndromes = None /\ elp = None /\ w = None /\ error = None /\ z = None /\ error_values = None

RsEncode(m) ==
    /\ stage = "idle"
    /\ msg' = m
    /\ cdw' = reed_solomon_encode(m)
    /\ stage' = "symbols"
    /\ UNCHANGED <<block, noise, decoding>>

RmEncode ==
    /\ stage = "symbols"
    /\ block' = reed_muller_encode(cdw)
    /\ stage' = "blocks"
    /\ UNCHANGED <<msg, cdw, noise, decoding>>

(* The channel flips bits; without the inner code it changes symbols.      *)
FlipBits(flips) ==
    /\ stage = "blocks"
    /\ noise' = flips
    /\ block' = [i \in DOMAIN block |-> IF i \in DOMAIN flips THEN SymDiff(block[i], flips[i])
                                        ELSE block[i]]
    /\ stage' = "noisy"
    /\ UNCHANGED <<msg, cdw, decoding>>

ChangeSymbols(changes) ==
    /\ stage = "symbols"
    /\ noise' = changes
    /\ cdw' = [i \in DOMAIN cdw |-> IF i \in DOMAIN changes THEN cdw[i] ++ changes[i]
                                    ELSE cdw[i]]
    /\ stage' = "received"
    /\ UNCHANGED <<msg, block, decoding>>

RmDecode ==
    /\ stage = "noisy"
    /\ cdw' = reed_muller_decode(block)
    /\ stage' = "received"
    /\ UNCHANGED <<msg, block, noise, decoding>>

(* The stages of reed_solomon_decode, each over what the ones before left.  *)
Syndromes ==
    /\ stage = "received"
    /\ syndromes' = compute_syndromes(cdw)
    /\ stage' = "syndromes"
    /\ UNCHANGED <<msg, block, cdw, noise, elp, w, error, z, error_values>>

Locator ==
    /\ stage = "syndromes"
    /\ elp' = compute_elp(syndromes)
    /\ stage' = "locator"
    /\ UNCHANGED <<msg, block, cdw, noise, syndromes, w, error, z, error_values>>

Transform ==
    /\ stage = "locator"
    /\ w' = locator_values(elp[1])
    /\ stage' = "transform"
    /\ UNCHANGED <<msg, block, cdw, noise, syndromes, elp, error, z, error_values>>

Roots ==
    /\ stage = "transform"
    /\ error' = compute_roots(w)
    /\ stage' = "roots"
    /\ UNCHANGED <<msg, block, cdw, noise, syndromes, elp, w, z, error_values>>

ZPoly ==
    /\ stage = "roots"
    /\ z' = compute_z_poly(elp[1], elp[2], syndromes)
    /\ stage' = "z"
    /\ UNCHANGED <<msg, block, cdw, noise, syndromes, elp, w, error, error_values>>

Values ==
    /\ stage = "z"
    /\ error_values' = compute_error_values(z, error)
    /\ stage' = "values"
    /\ UNCHANGED <<msg, block, cdw, noise, syndromes, elp, w, error, z>>

Correct ==
    /\ stage = "values"
    /\ cdw' = correct_errors(cdw, error_values)
    /\ stage' = "corrected"
    /\ UNCHANGED <<msg, block, noise, syndromes, elp, w, error, z, error_values>>

-----------------------------------------------------------------------------
(* What the stages promise, for a noise that spoils at most DELTA symbols.  *)

(* The symbols the noise spoils: a changed symbol, or a block with at least *)
(* half of the code's distance of its bits flipped.                         *)
SpoiledSymbols ==
    IF block = None THEN DOMAIN noise
    ELSE {i \in DOMAIN noise : Cardinality(noise[i]) >= 32 * MULTIPLICITY}

ErrorWord == LET sent == reed_solomon_encode(msg) IN [i \in DOMAIN sent |-> cdw[i] ++ sent[i]]

(* f evaluated at x term by term. *)
ValueAt(f, degree, x) ==
    LET horner[i \in 0..degree] ==
            IF i = 0 THEN f[degree] ELSE f[degree - i] ++ x ** horner[i - 1]
    IN  horner[degree]

(* reed_muller_decode returns the symbol that was sent in every block in     *)
(* which the noise flips fewer bits than half the distance of the code.      *)
BlocksSurvive ==
    stage = "received" /\ block # None =>
        \A i \in DOMAIN cdw : i \notin SpoiledSymbols => ErrorWord[i] = 0

(* compute_syndromes sees the errors alone: what reed_solomon_encode made of *)
(* the message cancels.                                                     *)
SyndromesOfTheErrors ==
    stage = "syndromes" => syndromes = compute_syndromes(ErrorWord)

(* compute_roots, by the additive transform, marks a position exactly if the *)
(* inverse of its power of alpha is a root of the locator evaluated term by  *)
(* term, also for more than DELTA errors.                                   *)
MarksAreRoots ==
    stage = "roots" =>
        \A p \in 0 .. PARAM_GF_MUL_ORDER - 1 :
            (error[p] = 1) = (ValueAt(elp[1], PARAM_DELTA, Inv(gf_exp[p])) = 0)

(* Up to DELTA errors the locator of compute_elp is right: the marks are the *)
(* errors, and its degree counts them.                                      *)
MarksAreTheErrors ==
    stage = "roots" /\ Cardinality(SpoiledSymbols) <= PARAM_DELTA =>
        LET errors == {i \in DOMAIN cdw : ErrorWord[i] # 0}
        IN  {p \in Field : error[p] # 0} = errors /\ elp[2] = Cardinality(errors)

(* Up to DELTA errors reed_solomon_decode returns the message, and corrects  *)
(* the word to the codeword.                                                *)
MessageIsRecovered ==
    stage = "corrected" /\ Cardinality(SpoiledSymbols) <= PARAM_DELTA =>
        cdw = reed_solomon_encode(msg) /\ MessageOf(cdw) = msg
===============================================================================
