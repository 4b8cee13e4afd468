--------------------------- MODULE MCAccelerators ---------------------------
(* Calls of the peripherals, among them those that use every bit.            *)
EXTENDS Accelerators

Calls(xs, ys) ==
    LET bits(ns) == {BitsOf(n) : n \in ns}
    IN  {<<"mul", x, y>> : x \in bits(xs), y \in bits(ys)}
            \cup {<<f, x>> : f \in {"square", "inverse"}, x \in bits(xs)}

Remainders == {<<"reduce", x>> : x \in {0..63, {63, 7}, {14, 13, 8, 0}, {31, 32, 40}}}

MCFieldCalls == Calls({0, 1, 29, 142, 255}, {1, 128, 203}) \cup Remainders

MCFactors == {0..63, {0, 31, 32, 63}, {p \in 0..63 : p % 3 = 0}, {60, 61, 62} \cup 0..5}

(* The hypothesis of a theorem of AcceleratorsProofs                         *)
ASSUME UnitsAssumption == UnitsAgree
==============================================================================
