------------------------------- MODULE HqcCodes -------------------------------
(***************************************************************************)
(* The code of HQC at its three levels, hqc_1_128, hqc_3_192 and           *)
(* hqc_5_256, whose sources are copies of one another with other           *)
(* parameters, and at a small size that can be explored exhaustively.  A   *)
(* behaviour sends one message over one noisy channel at one level.        *)
(***************************************************************************)
EXTENDS GF, Sequences, FiniteSets

CONSTANTS None,
          SmallMessages, SmallChanges,    \* messages and symbol errors of the small code
          Fillings,                       \* message symbols at a level, as numbers
          Channels                        \* kinds of noise

VARIABLES level, stage, msg, block, cdw, noise, syndromes, elp, w, error, z, error_values

vars == <<level, stage, msg, block, cdw, noise, syndromes, elp, w, error, z, error_values>>

Small == INSTANCE Code WITH
    PARAM_FFT <- 2,
    PARAM_N1 <- 6, PARAM_K <- 2, PARAM_DELTA <- 2, MULTIPLICITY <- 1,
    RS_POLY_COEFS <- <<116, 231, 216, 30, 1>>

L128 == INSTANCE Code WITH
    PARAM_FFT <- 4,
    PARAM_N1 <- 46, PARAM_K <- 16, PARAM_DELTA <- 15, MULTIPLICITY <- 3,
    RS_POLY_COEFS <- <<89, 69, 153, 116, 176, 117, 111, 75, 73, 233, 242, 233, 65, 210, 21, 139,
        103, 173, 67, 118, 105, 210, 174, 110, 74, 69, 228, 82, 255, 181, 1>>

L192 == INSTANCE Code WITH
    PARAM_FFT <- 5,
    PARAM_N1 <- 56, PARAM_K <- 24, PARAM_DELTA <- 16, MULTIPLICITY <- 5,
    RS_POLY_COEFS <- <<45, 216, 239, 24, 253, 104, 27, 40, 107, 50, 163, 210, 227, 134, 224, 158,
        119, 13, 158, 1, 238, 164, 82, 43, 15, 232, 246, 142, 50, 189, 29, 232, 1>>

L256 == INSTANCE Code WITH
    PARAM_FFT <- 5,
    PARAM_N1 <- 90, PARAM_K <- 32, PARAM_DELTA <- 29, MULTIPLICITY <- 5,
    RS_POLY_COEFS <- <<49, 167, 49, 39, 200, 121, 124, 91, 240, 63, 148, 71, 150, 123, 87, 101,
        32, 215, 159, 71, 201, 115, 97, 210, 186, 183, 141, 217, 123, 12, 31, 243, 180, 219, 152,
        239, 99, 141, 4, 246, 191, 144, 8, 232, 47, 27, 141, 178, 130, 64, 124, 47, 39, 188, 216,
        48, 199, 187, 1>>

(* The code has as many redundant symbols as it corrects errors twice, is    *)
(* shorter than the field, and its locator fits the transform.               *)
ASSUME SizesAssumption ==
    Small!SizesFit /\ L128!SizesFit /\ L192!SizesFit /\ L256!SizesFit

Size(l) == CASE l = 128 -> [n1 |-> 46, k |-> 16, delta |-> 15, copies |-> 3]
             [] l = 192 -> [n1 |-> 56, k |-> 24, delta |-> 16, copies |-> 5]
             [] l = 256 -> [n1 |-> 90, k |-> 32, delta |-> 29, copies |-> 5]

(* A message whose symbols follow from the number a. *)
Message(l, a) == [i \in 0 .. Size(l).k - 1 |-> (a * (2*i + 1)) % 256]

(* Bits that turn every copy of a word into that of another symbol, and one *)
(* bit less than half of them: as far as a block may go towards it.         *)
Positions(l) == 0 .. 128 * Size(l).copies - 1

Away(l, symbol) == LET ones == L128!encode(symbol) IN {p \in Positions(l) : p % 128 \in ones}

Nearly(l, symbol) ==
    LET ones == L128!encode(symbol)
        half == {p \in ones : Cardinality({q \in ones : q <= p}) < 32}
        middle == Size(l).copies \div 2
    IN  {p \in Positions(l) : \/ p \div 128 < middle /\ p % 128 \in ones
                              \/ p \div 128 = middle /\ p % 128 \in half}

(* The noise of a channel: which blocks it spoils, and what it does to the   *)
(* others.                                                                  *)
Noise(l, c) ==
    LET s == Size(l)
        spoiled == CASE c = "clean" -> {}
                     [] c = "one" -> {0}
                     [] c = "first" -> 0 .. s.delta - 1
                     [] c = "last" -> s.n1 - s.delta .. s.n1 - 1
                     [] c = "spread" -> {3*i : i \in 0 .. s.delta - 1}
        symbol(i) == 1 + ((37 * i) % 127)
    IN  [i \in (IF c = "clean" THEN {} ELSE 0 .. s.n1 - 1) |->
            IF i \in spoiled THEN Away(l, symbol(i)) ELSE Nearly(l, symbol(i))]

-----------------------------------------------------------------------------
At(l) == level = l /\ level' = l

Init == level \in {3, 128, 192, 256} /\ Small!CodeInit

(* reed_solomon_encode and reed_muller_encode *)
RsEncode3 == At(3) /\ \E m \in SmallMessages : Small!RsEncode(m)
RsEncode128 == At(128) /\ \E a \in Fillings : L128!RsEncode(Message(128, a))
RsEncode192 == At(192) /\ \E a \in Fillings : L192!RsEncode(Message(192, a))
RsEncode256 == At(256) /\ \E a \in Fillings : L256!RsEncode(Message(256, a))
RmEncode128 == At(128) /\ L128!RmEncode
RmEncode192 == At(192) /\ L192!RmEncode
RmEncode256 == At(256) /\ L256!RmEncode

(* The channel *)
ChangeSymbols3 == At(3) /\ \E changes \in SmallChanges : Small!ChangeSymbols(changes)
FlipBits == /\ UNCHANGED level
            /\ \E c \in Channels : L128!FlipBits(Noise(level, c))

(* reed_muller_decode *)
RmDecode128 == At(128) /\ L128!RmDecode
RmDecode192 == At(192) /\ L192!RmDecode
RmDecode256 == At(256) /\ L256!RmDecode

(* The stages of reed_solomon_decode *)
Syndromes128 == At(128) /\ L128!Syndromes
Syndromes192 == At(192) /\ L192!Syndromes
Syndromes256 == At(256) /\ L256!Syndromes
Locator128 == At(128) /\ L128!Locator
Locator192 == At(192) /\ L192!Locator
Locator256 == At(256) /\ L256!Locator
Transform128 == At(128) /\ L128!Transform
Transform192 == At(192) /\ L192!Transform
Transform256 == At(256) /\ L256!Transform
Roots128 == At(128) /\ L128!Roots
Roots192 == At(192) /\ L192!Roots
Roots256 == At(256) /\ L256!Roots
ZPoly128 == At(128) /\ L128!ZPoly
ZPoly192 == At(192) /\ L192!ZPoly
ZPoly256 == At(256) /\ L256!ZPoly
Values128 == At(128) /\ L128!Values
Values192 == At(192) /\ L192!Values
Values256 == At(256) /\ L256!Values
Correct128 == At(128) /\ L128!Correct
Correct192 == At(192) /\ L192!Correct
Correct256 == At(256) /\ L256!Correct
Decode3 == At(3) /\ (\/ Small!Syndromes \/ Small!Locator \/ Small!Transform \/ Small!Roots
                     \/ Small!ZPoly \/ Small!Values \/ Small!Correct)

Encode == \/ RsEncode3 \/ RsEncode128 \/ RsEncode192 \/ RsEncode256
          \/ RmEncode128 \/ RmEncode192 \/ RmEncode256

Decode == \/ RmDecode128 \/ RmDecode192 \/ RmDecode256
          \/ Syndromes128 \/ Syndromes192 \/ Syndromes256
          \/ Locator128 \/ Locator192 \/ Locator256
          \/ Transform128 \/ Transform192 \/ Transform256
          \/ Roots128 \/ Roots192 \/ Roots256
          \/ ZPoly128 \/ ZPoly192 \/ ZPoly256
          \/ Values128 \/ Values192 \/ Values256
          \/ Correct128 \/ Correct192 \/ Correct256
          \/ Decode3

Next == Encode \/ ChangeSymbols3 \/ FlipBits \/ Decode

Spec == Init /\ [][Next]_vars

-----------------------------------------------------------------------------
(* The promises of Code.tla at every level.                                *)

(* The inner decoder, reed_muller_decode, returns every symbol whose block   *)
(* is not spoiled.                                                          *)
BlocksSurvive ==
    /\ level = 128 => L128!BlocksSurvive
    /\ level = 192 => L192!BlocksSurvive
    /\ level = 256 => L256!BlocksSurvive

(* compute_syndromes depends on the errors alone.                           *)
SyndromesOfTheErrors ==
    /\ level = 3 => Small!SyndromesOfTheErrors
    /\ level = 128 => L128!SyndromesOfTheErrors
    /\ level = 192 => L192!SyndromesOfTheErrors
    /\ level = 256 => L256!SyndromesOfTheErrors

(* The fast transform of compute_roots finds exactly the roots.             *)
MarksAreRoots ==
    /\ level = 3 => Small!MarksAreRoots
    /\ level = 128 => L128!MarksAreRoots
    /\ level = 192 => L192!MarksAreRoots
    /\ level = 256 => L256!MarksAreRoots

(* compute_elp finds up to DELTA errors.                                    *)
MarksAreTheErrors ==
    /\ level = 3 => Small!MarksAreTheErrors
    /\ level = 128 => L128!MarksAreTheErrors
    /\ level = 192 => L192!MarksAreTheErrors
    /\ level = 256 => L256!MarksAreTheErrors

(* reed_solomon_decode corrects up to DELTA errors.                         *)
MessageIsRecovered ==
    /\ level = 3 => Small!MessageIsRecovered
    /\ level = 128 => L128!MessageIsRecovered
    /\ level = 192 => L192!MessageIsRecovered
    /\ level = 256 => L256!MessageIsRecovered
===============================================================================
