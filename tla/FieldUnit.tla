------------------------------ MODULE FieldUnit ------------------------------
(***************************************************************************)
(* Multiplying in GF(2^8) the two ways the program does: gf.c, when it is   *)
(* built without the accelerator, and gf_accel_peripheral.vhd with its      *)
(* combinational units and the state machine for the inverse.  A byte or a  *)
(* word is the set of its ones.  ClockField(access) is one rising edge.     *)
(***************************************************************************)
EXTENDS GF, Bus, BitSets

VARIABLES state,             \* 0 for IDLE, 1..11 for S1..S11
          aLow, aHigh, b,    \* a_reg_lo, a_reg_hi, b_reg
          mode, ctrl,        \* mode_reg, ctrl_reg
          fsm                \* reg_a_orig, reg_inv, reg_tmp1, reg_tmp2, latched_result

fieldVars == <<state, aLow, aHigh, b, mode, ctrl, fsm>>

BitsOf(n) == {p \in 0..7 : (n \div 2^p) % 2 = 1}

(* What an element is, by the definition of the field: the sum of the powers *)
(* of alpha at its ones.                                                    *)
ElementOf(x) ==
    LET sum[p \in Nat] ==
            IF p = 0 THEN 0
            ELSE sum[p - 1] ++ (IF p - 1 \in x THEN gf_exp[(p - 1) % PARAM_GF_MUL_ORDER] ELSE 0)
    IN  sum[64]

-----------------------------------------------------------------------------
PARAM_GF_POLY_M2 == 4

(* The ones of PARAM_GF_POLY ^ 1 that the loops over PARAM_GF_POLY_WT visit. *)
Middle == {2, 3, 4}

CEIL_DIVIDE(m, n) == (m + n - 1) \div n

(* steps times: what is above bit 7 is taken off and added where            *)
(* PARAM_GF_POLY puts it.                                                   *)
Reduced(x, steps) ==
    LET mod(y) == Down(y, PARAM_M)
        after[k \in Nat] ==
            IF k = 0 THEN x
            ELSE LET y == after[k - 1]
                 IN  Low(y, PARAM_M) (+) mod(y) (+) XorOver(Middle, LAMBDA z : Up(mod(y), z))
    IN  after[steps]

gf_reduce(x, deg_x) == Reduced(x, CEIL_DIVIDE(deg_x - (PARAM_M - 1), PARAM_GF_POLY_M2))

(* The table u of multiples of y has no place for bit 7, which is put in at  *)
(* the end; two bits of x at a time.                                        *)
gf_carryless_mul(x, y) ==
    LET u(n) == XorOver(n, LAMBDA j : Up(Low(y, 7), j))
        g(i) == u({j \in {0, 1} : i + j \in x})
        top(z) == IF 7 \in y THEN z ELSE {}
        l == XorOver({0, 2, 4, 6}, LAMBDA i : Up(g(i), i)) (+) top(Up(x, 7))
        h == XorOver({2, 4, 6}, LAMBDA i : Down(g(i), 8 - i)) (+) top(Down(x, 1))
    IN  Low(l, 8) \cup Up(Low(h, 8), 8)

gf_mul(x, y) == gf_reduce(gf_carryless_mul(x, y), 2 * (PARAM_M - 1))

gf_square(x) == gf_reduce({2 * p : p \in x}, 2 * (PARAM_M - 1))

(* By the addition chain 1 2 3 4 7 11 15 30 60 120 127 254                  *)
gf_inverse(a1) ==
    LET a2 == gf_square(a1)
        a3 == gf_mul(a2, a1)
        a4 == gf_square(a2)
        a7 == gf_mul(a4, a3)
        a11 == gf_mul(a4, a7)
        a15 == gf_mul(a11, a4)
        a120 == gf_square(gf_square(gf_square(a15)))
    IN  gf_square(gf_mul(a120, a7))

-----------------------------------------------------------------------------
(* The units of the accelerator                                             *)
addshift(multiplier, multiplicand) == XorOver(multiplier, LAMBDA i : Up(multiplicand, i))

square(x) == {2 * p : p \in x}

gf_reduce_core(x) ==
    LET deg_x == CHOOSE d \in x : \A p \in x : p <= d
    IN  IF x \subseteq 0 .. PARAM_M - 1 THEN x
        ELSE gf_reduce(x, deg_x)

Multiplied(x, y) == gf_reduce_core(addshift(Low(x, 8), Low(y, 8)))
Squared(x) == gf_reduce_core(square(Low(x, 8)))

(* Registers, by bits 4..2 of the address, and modes                        *)
A_LOW == 0
A_HIGH == 1
B == 2
MODE == 3
CTRL == 4
RESULT == 5

MUL_REDUCE == 0
SQUARE_REDUCE == 1
REDUCE_ONLY == 2
INVERSE == 3

(* comb_final_res while the machine is idle                                 *)
Combinational ==
    CASE mode = MUL_REDUCE    -> Multiplied(aLow, b)
      [] mode = SQUARE_REDUCE -> Squared(aLow)
      [] mode = REDUCE_ONLY   -> gf_reduce_core(Up(aHigh, 32) \cup aLow)

(* The states S1 to S11: the register that takes the square of one register, *)
(* or the product of two.                                                   *)
Chain == << [to |-> "inv", of |-> <<"a", "a">>],
            [to |-> "tmp1", of |-> <<"inv", "a">>],
            [to |-> "inv", of |-> <<"inv", "inv">>],
            [to |-> "tmp2", of |-> <<"inv", "tmp1">>],
            [to |-> "tmp1", of |-> <<"inv", "tmp2">>],
            [to |-> "inv", of |-> <<"tmp1", "inv">>],
            [to |-> "inv", of |-> <<"inv", "inv">>],
            [to |-> "inv", of |-> <<"inv", "inv">>],
            [to |-> "inv", of |-> <<"inv", "inv">>],
            [to |-> "inv", of |-> <<"inv", "tmp2">>],
            [to |-> "result", of |-> <<"inv", "inv">>] >>

(* The powers of an element that the states come to hold.                   *)
Power2(x) == Squared(x)
Power3(x) == Multiplied(Power2(x), x)
Power4(x) == Squared(Power2(x))
Power7(x) == Multiplied(Power4(x), Power3(x))
Power11(x) == Multiplied(Power4(x), Power7(x))
Power15(x) == Multiplied(Power11(x), Power4(x))
Power30(x) == Squared(Power15(x))
Power60(x) == Squared(Power30(x))
Power120(x) == Squared(Power60(x))
Power127(x) == Multiplied(Power120(x), Power7(x))
Power254(x) == Squared(Power127(x))

ResetField ==
    /\ state = 0 /\ aLow = {} /\ aHigh = {} /\ b = {} /\ mode = 0 /\ ctrl = FALSE
    /\ fsm = [r \in {"a", "inv", "tmp1", "tmp2", "result"} |-> {}]

Written(access, reg, value) == IF Writes(access, "gf_accel", reg) THEN access.wdata ELSE value

\* Mutant: ctrl is cleared when the inversion begins.
ControlEarly(access) ==
    ctrl' = IF Writes(access, "gf_accel", CTRL) THEN 0 \in access.wdata
            ELSE IF state = 0 /\ ctrl THEN FALSE ELSE ctrl

(* The end of an operation clears ctrl, unless it is written in that cycle. *)
Control(access) ==
    ctrl' = IF Writes(access, "gf_accel", CTRL) THEN 0 \in access.wdata
            ELSE IF (state = 0 /\ ctrl /\ mode # INVERSE) \/ state = Len(Chain) THEN FALSE
            ELSE ctrl

Machine ==
    IF state = 0
    THEN IF ~ctrl THEN UNCHANGED <<state, fsm>>
         ELSE IF mode = INVERSE THEN state' = 1 /\ fsm' = [fsm EXCEPT !["a"] = Low(aLow, 16)]
         ELSE state' = 0 /\ fsm' = [fsm EXCEPT !["result"] = Combinational]
    ELSE LET x == fsm[Chain[state].of[1]]
             y == fsm[Chain[state].of[2]]
         IN  /\ fsm' = [fsm EXCEPT ![Chain[state].to] =
                           IF Chain[state].of[1] = Chain[state].of[2]
                           THEN Squared(x) ELSE Multiplied(x, y)]
             /\ state' = IF state = Len(Chain) THEN 0 ELSE state + 1

ClockField(access) ==
    /\ Machine
    /\ Control(access)
    /\ aLow' = Written(access, A_LOW, aLow)
    /\ aHigh' = Written(access, A_HIGH, aHigh)
    /\ b' = Written(access, B, b)
    /\ mode' = Written(access, MODE, mode)
==============================================================================
