--------------------------- MODULE DividerProofs ----------------------------
(***************************************************************************)
(* Proofs that the divider gives the quotient and the remainder that the   *)
(* instruction set defines, for words of every width, with the operands    *)
(* lost after the start or kept.                                           *)
(***************************************************************************)
EXTENDS DividerUnit, TLAPS

-----------------------------------------------------------------------------
(* The inductive invariant.  With k bits of the dividend to go, q holds    *)
(* those in its upper bits and the bits of the quotient so far in its      *)
(* lower ones, and the rest of the dividend is r with those k bits behind. *)

Partial(k, m) ==
    \E quot \in 0..(2^(Width - k) - 1), rest \in 0..(2^k - 1) :
        /\ divider.q = rest * 2^(Width - k) + quot
        /\ m = (quot * divider.d + divider.r) * 2^k + rest

(* What the division is of.                                                *)
Dividend == DV!Abs(IsSigned, a)
Divisor  == DV!Abs(IsSigned, b)
IsCorner == DV!Corner(IsSigned, a, b)

Registers == [q : Word, r : Word, d : Word, signQ : BOOLEAN, signR : BOOLEAN,
              byZero : BOOLEAN, quotient : Word, remainder : Word]

TypeOK ==
    /\ divState \in {"IDLE", "PREPARE", "CALCULATE", "FINISH"}
    /\ count \in Nat
    /\ busy \in BOOLEAN /\ done \in BOOLEAN /\ corner \in BOOLEAN /\ kept \in BOOLEAN
    /\ op \in DivOps /\ a \in Word /\ b \in Word
    /\ divider \in Registers

Control ==
    /\ busy <=> divState # "IDLE"
    /\ done => divState = "IDLE"
    /\ divState = "PREPARE" => count = Width
    /\ divState = "CALCULATE" => count \in 1..Width /\ ~corner

Latched ==
    divState # "IDLE" =>
        /\ corner <=> IsCorner
        /\ divider.d = Divisor
        /\ divider.signQ <=> IsSigned /\ Negative(a) # Negative(b)
        /\ divider.signR <=> IsSigned /\ Negative(a)
        /\ divider.byZero <=> b = 0

(* Powers multiply as the exponents add, as far as a division needs it.    *)
Share(k) == 2^k * 2^(Width - k) = 2^Width

Underway(k) == Share(k) /\ divider.r < divider.d /\ Partial(k, Dividend)

Calculated ==
    /\ divState \in {"PREPARE", "CALCULATE"} /\ ~corner => Underway(count)
    /\ divState = "FINISH" /\ ~corner => Underway(0)

QuotientOf  == IF IsSigned THEN DIV(a, b) ELSE DIVU(a, b)
RemainderOf == IF IsSigned THEN REM(a, b) ELSE REMU(a, b)

Right ==
    done \/ (divState = "FINISH" /\ corner) =>
        /\ divider.quotient = QuotientOf
        /\ kept \/ b # 0 => divider.remainder = RemainderOf

Inv == TypeOK /\ Control /\ Latched /\ Calculated /\ Right

-----------------------------------------------------------------------------
(* Arithmetic.                                                             *)

(* A product grows with its first factor.                                  *)
LEMMA Grows ==
    ASSUME NEW x \in Nat, NEW y \in Nat, NEW z \in Nat, x <= y
    PROVE  x * z <= y * z
<1>1. PICK e \in Nat : y = x + e
    <2>1. y - x \in Nat /\ y = x + (y - x)
        OBVIOUS
    <2> QED
        BY <2>1
<1>2. y * z = x * z + e * z
    BY <1>1
<1>3. e * z \in Nat /\ x * z \in Nat
    OBVIOUS
<1> QED
    BY <1>2, <1>3

(* A number of less than two words leaves at most one of them.             *)
LEMMA WrapsOnce ==
    ASSUME NEW w \in Nat \ {0}, NEW x \in 0..(2 * w - 1)
    PROVE  x % w = IF x >= w THEN x - w ELSE x
    OBVIOUS

(* Quotient and remainder are unique.                                      *)
LEMMA DivisionIsUnique ==
    ASSUME NEW m \in Nat, NEW d \in Nat \ {0}, NEW q \in Nat, NEW r \in 0..(d - 1),
           m = q * d + r
    PROVE  m \div d = q /\ m % d = r
    OBVIOUS

(* The leading bit of rest * R + quot, a word of two parts, is the leading *)
(* bit of its upper part.                                                  *)
LEMMA LeadingBit ==
    ASSUME NEW P \in Nat \ {0}, NEW R \in Nat \ {0},
           NEW rest \in Nat, NEW quot \in 0..(R - 1)
    PROVE  rest * R + quot >= P * R <=> rest >= P
<1> rest * R \in Nat /\ P * R \in Nat
    OBVIOUS
<1>1. CASE rest >= P
    <2>1. P * R <= rest * R
        BY <1>1, Grows
    <2> QED
        BY <1>1, <2>1
<1>2. CASE ~(rest >= P)
    <2>1. (rest + 1) * R <= P * R
        BY <1>2, Grows
    <2>2. (rest + 1) * R = rest * R + R
        OBVIOUS
    <2> QED
        BY <1>2, <2>1, <2>2
<1> QED
    BY <1>1, <1>2

(* The powers that a division meets.                                       *)
LEMMA Powers ==
    /\ \A n \in 0..Width : 2^n \in Nat \ {0}
    /\ 2^0 = 1
    /\ SignBit \in Nat \ {0} /\ 2^Width = 2 * SignBit
    /\ Share(Width) /\ \A k \in 1..Width : Share(k) => Share(k - 1)
<1>1. Width \in Nat \ {0} /\ \A n \in 0..(Width - 1) : 2^n \in Nat \ {0} /\ 2^(n + 1) = 2 * 2^n
    BY WordAssumption
<1>2. Width - 1 \in 0..(Width - 1) /\ (Width - 1) + 1 = Width
    BY <1>1
<1>3. SignBit \in Nat \ {0} /\ 2^Width = 2 * SignBit
    BY <1>1, <1>2 DEF SignBit
<1>4. 2^Width \in Nat \ {0}
    BY <1>3
<1>5. \A n \in 0..Width : 2^n \in Nat \ {0}
    <2> SUFFICES ASSUME NEW n \in 0..Width PROVE 2^n \in Nat \ {0}
        OBVIOUS
    <2>1. CASE n = Width
        BY <2>1, <1>4
    <2>2. CASE n # Width
        <3>1. n \in 0..(Width - 1)
            BY <2>2, <1>1
        <3> QED
            BY <3>1, <1>1
    <2> QED
        BY <2>1, <2>2
<1>6. 2^0 = 1
    OBVIOUS
<1>7. Share(Width)
    <2>1. Width - Width = 0
        BY <1>1
    <2>2. 2^(Width - Width) = 1
        BY <2>1, <1>6
    <2> QED
        BY <2>2, <1>4 DEF Share
<1>8. ASSUME NEW k \in 1..Width, Share(k) PROVE Share(k - 1)
    <2>1. k - 1 \in 0..(Width - 1) /\ Width - k \in 0..(Width - 1)
        /\ (k - 1) + 1 = k /\ (Width - k) + 1 = Width - (k - 1)
        BY <1>1
    <2>2. 2^(k - 1) \in Nat /\ 2^k = 2 * 2^(k - 1)
        BY <2>1, <1>1
    <2>3. 2^(Width - k) \in Nat /\ 2^(Width - (k - 1)) = 2 * 2^(Width - k)
        BY <2>1, <1>1
    <2>4. ASSUME NEW x \in Nat, NEW y \in Nat PROVE (2 * x) * y = x * (2 * y)
        OBVIOUS
    <2> QED
        BY <1>8, <2>2, <2>3, <2>4 DEF Share
<1> QED
    BY <1>3, <1>5, <1>6, <1>7, <1>8

(* One cycle of CALCULATE in numbers: P is half of the weight of the bits  *)
(* to go and R that of the quotient so far, in words of w = 2 * h.         *)
Parts(h, P, R, q, r, d, m, quot, rest) ==
    /\ h \in Nat \ {0} /\ P \in Nat \ {0} /\ R \in Nat \ {0} /\ h = P * R
    /\ q \in 0..(2 * h - 1) /\ r \in Nat /\ d \in 0..(2 * h - 1) /\ r < d
    /\ m \in 0..(2 * h - 1)
    /\ quot \in 0..(R - 1) /\ rest \in 0..(2 * P - 1)
    /\ q = rest * R + quot /\ m = (quot * d + r) * (2 * P) + rest

Shift(h, q, r, d, top, shifted, fit, q2, r2) ==
    /\ top = IF q >= h THEN 1 ELSE 0
    /\ shifted = (2 * r + top) % (2 * h)
    /\ fit = IF shifted >= d THEN 1 ELSE 0
    /\ r2 = IF shifted >= d THEN shifted - d ELSE shifted
    /\ q2 = (2 * q + fit) % (2 * h)

LEMMA ShiftStep ==
    ASSUME NEW h, NEW P, NEW R, NEW q, NEW r, NEW d, NEW m, NEW quot, NEW rest,
           Parts(h, P, R, q, r, d, m, quot, rest),
           NEW top, NEW shifted, NEW fit, NEW q2, NEW r2,
           Shift(h, q, r, d, top, shifted, fit, q2, r2)
    PROVE  /\ r2 \in 0..(d - 1) /\ q2 \in 0..(2 * h - 1)
           /\ \E quot2 \in 0..(2 * R - 1), rest2 \in 0..(P - 1) :
                 /\ q2 = rest2 * (2 * R) + quot2
                 /\ m = (quot2 * d + r2) * P + rest2
<1> USE DEF Parts, Shift
<1> DEFINE rest2 == rest - top * P
           quot2 == 2 * quot + fit
<1>1. rest \in Nat /\ top \in {0, 1} /\ (top = 1 <=> rest >= P)
    <2>1. q >= h <=> rest >= P
        BY LeadingBit
    <2> QED
        BY <2>1
<1>2. rest2 \in 0..(P - 1)
    BY <1>1
<1>3. rest = top * P + rest2
    BY <1>1
<1>4. m = (2 * (quot * d) + (2 * r + top)) * P + rest2
    <2> HIDE DEF rest2
    <2>1. quot * d \in Nat
        OBVIOUS
    <2>2. ASSUME NEW x \in Nat
          PROVE  (x + r) * (2 * P) + (top * P + rest2) = (2 * x + (2 * r + top)) * P + rest2
        BY <1>1, <1>2
    <2> QED
        BY <1>3, <2>1, <2>2
<1>5. 2 * r + top \in 0..(2 * h - 1)
    <2>1. 2 * r + top \in Nat /\ 2 * (quot * d) \in Nat
        BY <1>1
    <2>2. 1 * (2 * (quot * d) + (2 * r + top)) <= P * (2 * (quot * d) + (2 * r + top))
        BY <2>1, Grows
    <2>3. 2 * r + top <= m
        <3> HIDE DEF rest2
        <3>1. ASSUME NEW x \in Nat, NEW y \in Nat, m = (x + y) * P + rest2,
                     1 * (x + y) <= P * (x + y)
              PROVE  y <= m
            BY <3>1, <1>2
        <3> QED
            BY <2>1, <2>2, <1>4, <3>1
    <2> QED
        BY <2>1, <2>3
<1>6. shifted = 2 * r + top
    <2>1. 2 * h \in Nat \ {0} /\ 2 * r + top \in 0..(2 * (2 * h) - 1) /\ ~(2 * r + top >= 2 * h)
        BY <1>5
    <2>2. (2 * r + top) % (2 * h) = IF 2 * r + top >= 2 * h THEN 2 * r + top - 2 * h ELSE 2 * r + top
        BY <2>1, WrapsOnce
    <2> QED
        BY <2>1, <2>2
<1>7. fit \in {0, 1} /\ r2 = shifted - fit * d /\ r2 \in 0..(d - 1)
    BY <1>1, <1>6
<1>8. q2 = 2 * q + fit - top * (2 * h)
    <2> DEFINE w == 2 * h
               x == 2 * q + fit
    <2>1. w \in Nat \ {0} /\ x \in 0..(2 * w - 1)
        BY <1>7
    <2>2. x % w = IF x >= w THEN x - w ELSE x
        <3> HIDE DEF w, x
        <3> QED
            BY <2>1, WrapsOnce
    <2>3. x >= w <=> q >= h
        BY <1>7
    <2> QED
        BY <2>2, <2>3
<1>9. q2 \in 0..(2 * h - 1)
    BY <1>1, <1>7, <1>8
<1>10. quot2 \in 0..(2 * R - 1)
    BY <1>7
<1>11. q2 = rest2 * (2 * R) + quot2
    <2>1. ASSUME NEW x \in Nat
          PROVE  2 * ((top * P + x) * R + quot) + fit - top * (2 * (P * R)) = x * (2 * R) + (2 * quot + fit)
        <3>1. CASE top = 0
            BY <3>1, <1>7
        <3>2. CASE top = 1
            <4>1. (1 * P + x) * R = P * R + x * R
                OBVIOUS
            <4> QED
                BY <3>2, <4>1, <1>7
        <3> QED
            BY <3>1, <3>2, <1>1
    <2> HIDE DEF rest2
    <2>2. rest2 \in Nat
        BY <1>2
    <2> QED
        BY <2>1, <2>2, <1>3, <1>8
<1>12. m = (quot2 * d + r2) * P + rest2
    <2>1. 2 * (quot * d) + (2 * r + top) = quot2 * d + r2
        <3>1. quot2 * d = 2 * (quot * d) + fit * d
            BY <1>7
        <3>2. quot * d \in Nat /\ fit * d \in Nat
            BY <1>7
        <3>3. ASSUME NEW x \in Nat, NEW y \in Nat, NEW z, z = 2 * x + y, r2 = shifted - y
              PROVE  2 * x + (2 * r + top) = z + r2
            BY <3>3, <1>1, <1>6
        <3> HIDE DEF quot2
        <3> QED
            BY <3>1, <3>2, <3>3, <1>7
    <2> QED
        BY <2>1, <1>4
<1> QED
    BY <1>2, <1>7, <1>9, <1>10, <1>11, <1>12

(* Negating within a word.                                                 *)
LEMMA NegWraps ==
    ASSUME NEW w \in Nat \ {0}, NEW x \in 0..(w - 1)
    PROVE  x % w = x /\ (-x) % w = (w - x) % w /\ (w - x) % w \in 0..(w - 1)
           /\ (x # 0 => (w - x) % w = w - x)
    OBVIOUS

(* The data path computes with the words of the unit.                      *)
LEMMA SameWords ==
    /\ DV!SignBit = SignBit /\ DV!AllOnes = AllOnes
    /\ \A x : /\ DV!Wrap(x) = Wrap(x) /\ DV!Neg(x) = Neg(x)
              /\ (DV!Negative(x) <=> Negative(x))
    BY DEF DV!SignBit, DV!AllOnes, DV!Wrap, DV!Neg, DV!Negative,
           SignBit, AllOnes, Wrap, Neg, Negative

(* What the divider makes of an operand is its magnitude.                  *)
LEMMA AbsIsMagnitude ==
    ASSUME NEW w \in Word
    PROVE  /\ Signed(w) \in Int /\ (Signed(w) < 0 <=> Negative(w))
           /\ DV!Abs(TRUE, w) = Magnitude(Signed(w)) /\ DV!Abs(TRUE, w) \in Word
           /\ DV!Abs(FALSE, w) = w
           /\ (DV!Abs(TRUE, w) = 0 <=> w = 0)
<1>1. PICK h \in Nat \ {0} : SignBit = h /\ 2^Width = 2 * h
    BY Powers
<1>2. w \in 0..(2 * h - 1)
    BY <1>1 DEF Word
<1>3. Negative(w) <=> w >= h
    BY <1>1 DEF Negative
<1>4. Signed(w) = IF w >= h THEN w - 2 * h ELSE w
    BY <1>1, <1>3 DEF Signed
<1>5. w >= h => (2 * h - w) % (2 * h) = 2 * h - w
    <2> DEFINE v == 2 * h
    <2>1. v \in Nat \ {0} /\ w \in 0..(v - 1)
        BY <1>2
    <2>2. w # 0 => (v - w) % v = v - w
        <3> HIDE DEF v
        <3> QED
            BY <2>1, NegWraps
    <2> QED
        BY <2>2, <1>2
<1>6. Neg(w) = (2 * h - w) % (2 * h)
    BY <1>1 DEF Neg, Wrap
<1>7. DV!Abs(TRUE, w) = IF w >= h THEN 2 * h - w ELSE w
    <2>1. DV!Abs(TRUE, w) = IF Negative(w) THEN Neg(w) ELSE w
        BY SameWords DEF DV!Abs
    <2> QED
        BY <2>1, <1>3, <1>5, <1>6
<1>8. DV!Abs(FALSE, w) = w
    BY DEF DV!Abs
<1>9. Magnitude(Signed(w)) = IF w >= h THEN 2 * h - w ELSE w
    BY <1>2, <1>4 DEF Magnitude
<1>10. DV!Abs(TRUE, w) \in Word /\ (DV!Abs(TRUE, w) = 0 <=> w = 0)
    <2>1. PICK v : v = IF w >= h THEN 2 * h - w ELSE w
        OBVIOUS
    <2>2. v \in 0..(2 * h - 1) /\ (v = 0 <=> w = 0)
        BY <1>2, <2>1
    <2>3. Word = 0..(2 * h - 1)
        BY <1>1 DEF Word
    <2>4. DV!Abs(TRUE, w) = v
        BY <1>7, <2>1
    <2> QED
        BY <2>2, <2>3, <2>4
<1>11. Signed(w) \in Int /\ (Signed(w) < 0 <=> w >= h)
    BY <1>2, <1>4
<1> QED
    BY <1>3, <1>7, <1>8, <1>9, <1>10, <1>11

(* The quotient and the remainder of the magnitudes, with their signs put  *)
(* back, are those of the truncating division.                             *)
LEMMA SignsPutBack ==
    ASSUME NEW x \in Int, NEW y \in Int, NEW q \in Word, NEW r \in Word,
           Magnitude(x) = q * Magnitude(y) + r, r < Magnitude(y)
    PROVE  /\ Wrap(Quotient(x, y)) = IF (x < 0) # (y < 0) THEN Neg(q) ELSE q
           /\ Wrap(Remainder(x, y)) = IF x < 0 THEN Neg(r) ELSE r
<1> DEFINE dx == Magnitude(x)
           dy == Magnitude(y)
<1>1. dx \in Nat /\ dy \in Nat /\ (x = IF x < 0 THEN -dx ELSE dx) /\ (y = IF y < 0 THEN -dy ELSE dy)
    BY DEF Magnitude
<1>2. PICK w \in Nat \ {0} : 2^Width = w
    BY Powers, WordAssumption
<1>3. q \in 0..(w - 1) /\ r \in 0..(w - 1)
    BY <1>2 DEF Word
<1>4. dy \in Nat \ {0} /\ r \in 0..(dy - 1) /\ dx = q * dy + r
    BY <1>1, <1>3
<1>5. dx \div dy = q
    <2> HIDE DEF dx, dy
    <2> QED
        BY <1>1, <1>3, <1>4, DivisionIsUnique
<1>6. Quotient(x, y) = IF (x < 0) = (y < 0) THEN q ELSE -q
    BY <1>5 DEF Quotient
<1>7. Remainder(x, y) = IF x < 0 THEN -r ELSE r
    <2>1. Remainder(x, y) = x - y * (IF (x < 0) = (y < 0) THEN q ELSE -q)
        BY <1>6 DEF Remainder
    <2> HIDE DEF dx, dy
    <2>2. ASSUME NEW u \in Nat PROVE (-u) * q = -(q * u) /\ (-u) * (-q) = q * u /\ u * (-q) = -(q * u) /\ u * q = q * u
        BY <1>3
    <2>3. q * dy \in Nat
        BY <1>1, <1>3
    <2>4. CASE x < 0 /\ y < 0
        <3>1. x = -dx /\ y = -dy /\ Remainder(x, y) = x - y * q
            BY <2>4, <2>1, <1>1
        <3> QED
            BY <3>1, <2>2, <2>3, <2>4, <1>1, <1>3, <1>4
    <2>5. CASE x < 0 /\ ~(y < 0)
        <3>1. x = -dx /\ y = dy /\ Remainder(x, y) = x - y * (-q)
            BY <2>5, <2>1, <1>1
        <3> QED
            BY <3>1, <2>2, <2>3, <2>5, <1>1, <1>3, <1>4
    <2>6. CASE ~(x < 0) /\ y < 0
        <3>1. x = dx /\ y = -dy /\ Remainder(x, y) = x - y * (-q)
            BY <2>6, <2>1, <1>1
        <3> QED
            BY <3>1, <2>2, <2>3, <2>6, <1>1, <1>3, <1>4
    <2>7. CASE ~(x < 0) /\ ~(y < 0)
        <3>1. x = dx /\ y = dy /\ Remainder(x, y) = x - y * q
            BY <2>7, <2>1, <1>1
        <3> QED
            BY <3>1, <2>2, <2>3, <2>7, <1>1, <1>3, <1>4
    <2> QED
        BY <2>4, <2>5, <2>6, <2>7
<1>8. ASSUME NEW n \in 0..(w - 1) PROVE Wrap(n) = n /\ Wrap(-n) = Neg(n)
    BY <1>2, NegWraps DEF Wrap, Neg
<1> QED
    BY <1>3, <1>6, <1>7, <1>8

(* What FINISH puts out is the quotient and the remainder of the operands. *)
LEMMA Results ==
    ASSUME NEW s \in BOOLEAN, NEW x \in Word, NEW y \in Word, y # 0,
           NEW q \in Word, NEW r \in Word,
           DV!Abs(s, x) = q * DV!Abs(s, y) + r, r < DV!Abs(s, y)
    PROVE  /\ (IF s /\ Negative(x) # Negative(y) THEN Neg(q) ELSE q)
                 = IF s THEN DIV(x, y) ELSE DIVU(x, y)
           /\ (IF s /\ Negative(x) THEN Neg(r) ELSE r)
                 = IF s THEN REM(x, y) ELSE REMU(x, y)
<1>1. CASE s = TRUE
    <2> DEFINE sx == Signed(x)
               sy == Signed(y)
    <2>1. sx \in Int /\ sy \in Int /\ (sx < 0 <=> Negative(x)) /\ (sy < 0 <=> Negative(y))
        BY AbsIsMagnitude
    <2>2. Magnitude(sx) = DV!Abs(TRUE, x) /\ Magnitude(sy) = DV!Abs(TRUE, y)
        BY AbsIsMagnitude
    <2>3. Magnitude(sx) = q * Magnitude(sy) + r /\ r < Magnitude(sy)
        BY <1>1, <2>2
    <2>4. /\ Wrap(Quotient(sx, sy)) = IF (sx < 0) # (sy < 0) THEN Neg(q) ELSE q
          /\ Wrap(Remainder(sx, sy)) = IF sx < 0 THEN Neg(r) ELSE r
        <3> HIDE DEF sx, sy
        <3> QED
            BY <2>1, <2>3, SignsPutBack
    <2>5. DIV(x, y) = Wrap(Quotient(sx, sy)) /\ REM(x, y) = Wrap(Remainder(sx, sy))
        BY DEF DIV, REM
    <2>6. (sx < 0) # (sy < 0) <=> Negative(x) # Negative(y)
        <3>1. (sx < 0) \in BOOLEAN /\ (sy < 0) \in BOOLEAN
            OBVIOUS
        <3>2. Negative(x) \in BOOLEAN /\ Negative(y) \in BOOLEAN
            BY DEF Negative
        <3> QED
            BY <2>1, <3>1, <3>2, Zenon
    <2> HIDE DEF sx, sy
    <2>7. /\ (IF s /\ Negative(x) # Negative(y) THEN Neg(q) ELSE q) = Wrap(Quotient(sx, sy))
          /\ (IF s /\ Negative(x) THEN Neg(r) ELSE r) = Wrap(Remainder(sx, sy))
        BY <1>1, <2>1, <2>4, <2>6, Zenon
    <2> QED
        BY <1>1, <2>5, <2>7, Zenon
<1>2. CASE s = FALSE
    <2>1. x \in Nat /\ y \in Nat \ {0} /\ q \in Nat /\ r \in Nat
        BY Powers DEF Word
    <2>2. x = q * y + r /\ r < y
        BY <1>2, AbsIsMagnitude
    <2>3. x \div y = q /\ x % y = r
        BY <2>1, <2>2, DivisionIsUnique
    <2> QED
        BY <1>2, <2>3 DEF DIVU, REMU
<1> QED
    BY <1>1, <1>2

(* And so is what PREPARE puts out for the operands that are not divided.  *)
LEMMA CornerResults ==
    ASSUME NEW s \in BOOLEAN, NEW x \in Word, NEW y \in Word
    PROVE  /\ y = 0 => /\ AllOnes = IF s THEN DIV(x, y) ELSE DIVU(x, y)
                       /\ x = IF s THEN REM(x, y) ELSE REMU(x, y)
           /\ s /\ x = SignBit /\ y = AllOnes =>
                       /\ SignBit = DIV(x, y) /\ 0 = REM(x, y) /\ y # 0
<1>1. PICK h \in Nat \ {0} : SignBit = h /\ 2^Width = 2 * h
    BY Powers
<1>2. ASSUME x = SignBit, y = AllOnes PROVE SignBit = DIV(x, y) /\ 0 = REM(x, y) /\ y # 0
    <2>1. x = h /\ y = 2 * h - 1
        BY <1>1, <1>2 DEF AllOnes
    <2>2. (Negative(x) <=> TRUE) /\ (Negative(y) <=> TRUE)
        BY <1>1, <2>1 DEF Negative
    <2>3. Signed(x) = -h /\ Signed(y) = -1
        BY <1>1, <2>1, <2>2 DEF Signed
    <2>4. Magnitude(-h) = h /\ Magnitude(-1) = 1
        <3>1. ASSUME NEW g \in Nat \ {0} PROVE Magnitude(-g) = g
            <4>1. -(-g) = g
                OBVIOUS
            <4>2. -g < 0
                OBVIOUS
            <4> QED
                BY <4>1, <4>2 DEF Magnitude
        <3>2. 1 \in Nat \ {0}
            OBVIOUS
        <3>3. Magnitude(-1) = 1
            BY <3>1, <3>2, Zenon
        <3> QED
            BY <3>1, <3>3
    <2>5. h \div 1 = h /\ (-h < 0) /\ (-1 < 0)
        OBVIOUS
    <2>6. Quotient(-h, -1) = h
        BY <2>4, <2>5 DEF Quotient
    <2>7. Remainder(-h, -1) = 0
        BY <2>6 DEF Remainder
    <2>8. h % (2 * h) = h /\ 0 % (2 * h) = 0
        <3> DEFINE w == 2 * h
        <3>1. w \in Nat \ {0} /\ h \in 0..(w - 1) /\ 0 \in 0..(w - 1)
            OBVIOUS
        <3>2. h % w = h /\ 0 % w = 0
            <4> HIDE DEF w
            <4> QED
                BY <3>1, NegWraps
        <3> QED
            BY <3>2
    <2>9. y # 0
        BY <2>1
    <2>10. DIV(x, y) = Wrap(h) /\ REM(x, y) = Wrap(0)
        BY <2>3, <2>6, <2>7, <2>9 DEF DIV, REM
    <2> QED
        BY <1>1, <2>8, <2>9, <2>10 DEF Wrap
<1>3. ASSUME y = 0 PROVE /\ AllOnes = IF s THEN DIV(x, y) ELSE DIVU(x, y)
                         /\ x = IF s THEN REM(x, y) ELSE REMU(x, y)
    BY <1>3 DEF DIV, DIVU, REM, REMU
<1> QED
    BY <1>2, <1>3

(* The unit's inputs are words.                                            *)
LEMMA ExtremesAreWords == Extremes \subseteq Word /\ {SignBit, AllOnes, 0, 1} \subseteq Word
    BY Powers DEF Extremes, Word, AllOnes

(* Words stay words.                                                       *)
LEMMA Closed ==
    ASSUME NEW x \in Int
    PROVE  Wrap(x) \in Word /\ Neg(x) \in Word
<1>1. PICK w \in Nat \ {0} : 2^Width = w
    BY Powers, WordAssumption
<1> QED
    BY <1>1 DEF Word, Wrap, Neg

-----------------------------------------------------------------------------
(* The steps of a division.                                                *)

(* What CALCULATE and FINISH leave alone of the registers.                 *)
SameDivision ==
    /\ divider'.d = divider.d /\ divider'.byZero = divider.byZero
    /\ divider'.signQ = divider.signQ /\ divider'.signR = divider.signR

LEMMA MagnitudesAreWords ==
    ASSUME TypeOK
    PROVE  /\ IsSigned \in BOOLEAN /\ Dividend \in Word /\ Divisor \in Word
           /\ IsCorner \in BOOLEAN /\ (b = 0 => IsCorner) /\ (Divisor = 0 <=> b = 0)
<1>1. IsSigned \in BOOLEAN /\ a \in Word /\ b \in Word
    BY DEF TypeOK, IsSigned
<1>2. IsCorner \in BOOLEAN /\ (b = 0 => IsCorner)
    BY DEF IsCorner, DV!Corner
<1> QED
    BY <1>1, <1>2, AbsIsMagnitude DEF Dividend, Divisor

(* A cycle of CALCULATE takes one bit of the dividend.                     *)
LEMMA UnderwayStep ==
    ASSUME TypeOK, NEW k \in 1..Width, Underway(k), DV!ShiftSubtract, UNCHANGED <<op, a, b>>
    PROVE  Underway(k - 1)' /\ divider' \in Registers /\ SameDivision
<1> DEFINE P == 2^(k - 1)
           R == 2^(Width - k)
           h == SignBit
           q == divider.q
           r == divider.r
           d == divider.d
           m == Dividend
           top == IF q >= h THEN 1 ELSE 0
           shifted == (2 * r + top) % (2 * h)
           fit == IF shifted >= d THEN 1 ELSE 0
           r2 == IF shifted >= d THEN shifted - d ELSE shifted
           q2 == (2 * q + fit) % (2 * h)
<1>1. Width \in Nat \ {0} /\ \A n \in 0..(Width - 1) : 2^n \in Nat \ {0} /\ 2^(n + 1) = 2 * 2^n
    BY WordAssumption
<1>2. h \in Nat \ {0} /\ 2^Width = 2 * h /\ Word = 0..(2 * h - 1)
    BY Powers DEF Word
<1>3. /\ k - 1 \in 0..(Width - 1) /\ (k - 1) + 1 = k
      /\ Width - k \in 0..(Width - 1) /\ (Width - k) + 1 = Width - (k - 1)
    BY <1>1
<1>4. P \in Nat \ {0} /\ 2^k = 2 * P
    BY <1>1, <1>3
<1>5. R \in Nat \ {0} /\ 2^(Width - (k - 1)) = 2 * R
    BY <1>1, <1>3
<1>6. h = P * R
    <2>1. (2 * P) * R = 2 * h
        BY <1>2, <1>4 DEF Underway, Share
    <2> HIDE DEF P, R, h
    <2>2. P * R \in Nat /\ (2 * P) * R = 2 * (P * R)
        BY <1>4, <1>5
    <2> QED
        BY <2>1, <2>2, <1>2
<1>7. divider \in Registers
    BY DEF TypeOK
<1>8. q \in 0..(2 * h - 1) /\ r \in Nat /\ d \in 0..(2 * h - 1) /\ r < d
    BY <1>2, <1>7 DEF Registers, Underway
<1>9. m \in 0..(2 * h - 1)
    BY <1>2, MagnitudesAreWords
<1>10. PICK quot \in 0..(R - 1), rest \in 0..(2 * P - 1) :
          q = rest * R + quot /\ m = (quot * d + r) * (2 * P) + rest
    BY <1>4 DEF Underway, Partial
<1>11. divider' = [divider EXCEPT !.r = r2, !.q = q2]
    <2>1. DV!Wrap(2 * r + top) = shifted
        BY <1>2, SameWords DEF Wrap
    <2>2. DV!Wrap(2 * q + fit) = q2
        BY <1>2, SameWords DEF Wrap
    <2>3. (IF DV!Negative(divider.q) THEN 1 ELSE 0) = top
        BY SameWords DEF Negative
    <2> HIDE DEF top, q2
    <2> QED
        BY <2>1, <2>2, <2>3 DEF DV!ShiftSubtract
<1>12. /\ r2 \in 0..(d - 1) /\ q2 \in 0..(2 * h - 1)
       /\ \E quot2 \in 0..(2 * R - 1), rest2 \in 0..(P - 1) :
             /\ q2 = rest2 * (2 * R) + quot2
             /\ m = (quot2 * d + r2) * P + rest2
    <2>1. Shift(h, q, r, d, top, shifted, fit, q2, r2)
        BY DEF Shift
    <2> HIDE DEF P, R, h, q, r, d, m, top, shifted, fit, r2, q2
    <2>2. Parts(h, P, R, q, r, d, m, quot, rest)
        BY <1>2, <1>4, <1>5, <1>6, <1>8, <1>9, <1>10 DEF Parts
    <2> QED
        BY <2>1, <2>2, ShiftStep
<1>13. r2 \in Word /\ q2 \in Word
    BY <1>2, <1>8, <1>12
<1>14. divider' \in Registers /\ SameDivision /\ divider'.r = r2 /\ divider'.q = q2
    <2> HIDE DEF r2, q2
    <2> QED
        BY <1>7, <1>11, <1>13 DEF Registers, SameDivision
<1>15. Dividend' = m
    BY DEF Dividend, IsSigned, DV!Abs
<1>16. Share(k - 1)
    BY Powers DEF Underway
<1>17. r2 < d
    <2> HIDE DEF r2, d
    <2> QED
        BY <1>8, <1>12
<1>18. Partial(k - 1, Dividend)'
    <2> HIDE DEF r2, q2, m
    <2> QED
        BY <1>5, <1>12, <1>14, <1>15 DEF Partial, SameDivision
<1> QED
    BY <1>14, <1>16, <1>17, <1>18 DEF Underway, SameDivision, Share

(* The start latches the whole dividend as bits to go.                     *)
LEMMA LatchStep ==
    ASSUME TypeOK, DV!Latch(IsSigned, a, b), UNCHANGED <<op, a, b>>
    PROVE  /\ divider' \in Registers /\ divider'.d = Divisor
           /\ divider'.signQ = (IsSigned /\ Negative(a) # Negative(b))
           /\ divider'.signR = (IsSigned /\ Negative(a))
           /\ divider'.byZero = (b = 0)
           /\ ~IsCorner => Underway(Width)'
<1>1. IsSigned \in BOOLEAN /\ Dividend \in Word /\ Divisor \in Word /\ divider \in Registers
    BY MagnitudesAreWords DEF TypeOK
<1>2. 0 \in Word /\ Width \in Nat \ {0}
    BY ExtremesAreWords, WordAssumption
<1>3. divider' = [divider EXCEPT !.q = Dividend, !.r = 0, !.d = Divisor,
                      !.signQ = IsSigned /\ Negative(a) # Negative(b),
                      !.signR = IsSigned /\ Negative(a), !.byZero = b = 0]
    BY SameWords DEF DV!Latch, Dividend, Divisor
<1>4. /\ divider' \in Registers /\ divider'.d = Divisor /\ divider'.q = Dividend /\ divider'.r = 0
      /\ divider'.signQ = (IsSigned /\ Negative(a) # Negative(b))
      /\ divider'.signR = (IsSigned /\ Negative(a))
      /\ divider'.byZero = (b = 0)
    <2>1. Negative(a) \in BOOLEAN /\ Negative(b) \in BOOLEAN
        BY DEF Negative
    <2>2. PICK sq \in BOOLEAN : sq = (IsSigned /\ Negative(a) # Negative(b))
        BY <1>1
    <2>3. PICK sr \in BOOLEAN : sr = (IsSigned /\ Negative(a))
        BY <1>1, <2>1
    <2>4. PICK z \in BOOLEAN : z = (b = 0)
        OBVIOUS
    <2>5. divider' = [divider EXCEPT !.q = Dividend, !.r = 0, !.d = Divisor,
                          !.signQ = sq, !.signR = sr, !.byZero = z]
        BY <1>3, <2>2, <2>3, <2>4, Zenon
    <2>6. /\ divider' \in Registers /\ divider'.d = Divisor /\ divider'.q = Dividend /\ divider'.r = 0
          /\ divider'.signQ = sq /\ divider'.signR = sr /\ divider'.byZero = z
        BY <1>1, <1>2, <2>5 DEF Registers
    <2> QED
        BY <2>2, <2>3, <2>4, <2>6, Zenon
<1>5. ASSUME ~IsCorner PROVE Underway(Width)'
    <2>1. Dividend' = Dividend
        BY DEF Dividend, IsSigned, DV!Abs
    <2>2. Dividend \in 0..(2^Width - 1) /\ Dividend \in Nat /\ Divisor \in Nat
        BY <1>1, Powers DEF Word
    <2>3. 0 < Divisor
        BY <1>5, <2>2, MagnitudesAreWords
    <2>4. Width - Width = 0
        BY <1>2
    <2>5. 2^(Width - Width) = 1
        BY <2>4, Powers
    <2>6. \E quot \in 0..(2^(Width - Width) - 1), rest \in 0..(2^Width - 1) :
              /\ Dividend = rest * 2^(Width - Width) + quot
              /\ Dividend = (quot * Divisor + 0) * 2^Width + rest
        <3>1. 0 \in 0..(2^(Width - Width) - 1)
            BY <2>5
        <3>2. Dividend = Dividend * 2^(Width - Width) + 0
            BY <2>2, <2>5
        <3>3. Dividend = (0 * Divisor + 0) * 2^Width + Dividend
            BY <2>2, Powers
        <3> QED
            BY <2>2, <3>1, <3>2, <3>3
    <2> QED
        BY <1>4, <2>1, <2>3, <2>6, Powers DEF Underway, Partial, Share
<1> QED
    BY <1>4, <1>5

(* PREPARE puts out the results of a corner case.                          *)
LEMMA CornerStep ==
    ASSUME TypeOK, Latched, divState = "PREPARE", UNCHANGED <<op, a, b, kept>>,
           NEW x \in Word, kept => x = a, DV!SetCorner(x)
    PROVE  /\ divider' \in Registers /\ SameDivision
           /\ divider'.q = divider.q /\ divider'.r = divider.r
           /\ corner => /\ divider'.quotient = QuotientOf
                        /\ kept \/ b # 0 => divider'.remainder = RemainderOf
<1>1. divider \in Registers /\ IsSigned \in BOOLEAN /\ a \in Word /\ b \in Word
    BY MagnitudesAreWords DEF TypeOK
<1>2. AllOnes \in Word /\ SignBit \in Word /\ 0 \in Word
    BY ExtremesAreWords
<1>3. corner <=> b = 0 \/ (IsSigned /\ a = SignBit /\ b = AllOnes)
    BY SameWords DEF Latched, IsCorner, DV!Corner
<1>4. divider.byZero <=> b = 0
    BY DEF Latched
<1>5. CASE ~corner
    BY <1>1, <1>5 DEF DV!SetCorner, SameDivision
<1>6. CASE corner /\ b = 0
    <2>1. divider' = [divider EXCEPT !.quotient = AllOnes, !.remainder = x]
        BY <1>4, <1>6, SameWords DEF DV!SetCorner
    <2>2. /\ divider' \in Registers /\ SameDivision /\ divider'.q = divider.q /\ divider'.r = divider.r
          /\ divider'.quotient = AllOnes /\ divider'.remainder = x
        BY <1>1, <1>2, <2>1 DEF Registers, SameDivision
    <2>3. AllOnes = QuotientOf /\ a = RemainderOf
        BY <1>1, <1>6, CornerResults DEF QuotientOf, RemainderOf
    <2> QED
        BY <1>6, <2>2, <2>3
<1>7. CASE corner /\ b # 0
    <2>1. divider' = [divider EXCEPT !.quotient = SignBit, !.remainder = 0]
        BY <1>4, <1>7, SameWords DEF DV!SetCorner
    <2>2. /\ divider' \in Registers /\ SameDivision /\ divider'.q = divider.q /\ divider'.r = divider.r
          /\ divider'.quotient = SignBit /\ divider'.remainder = 0
        BY <1>1, <1>2, <2>1 DEF Registers, SameDivision
    <2>3. IsSigned /\ a = SignBit /\ b = AllOnes
        BY <1>3, <1>7
    <2>4. SignBit = QuotientOf /\ 0 = RemainderOf
        BY <1>1, <2>3, CornerResults DEF QuotientOf, RemainderOf
    <2> QED
        BY <2>2, <2>4
<1> QED
    BY <1>5, <1>6, <1>7

(* FINISH puts out the results of all others.                              *)
LEMMA FinishStep ==
    ASSUME TypeOK, Latched, Calculated, divState = "FINISH", ~corner, DV!PutSigns
    PROVE  /\ divider' \in Registers
           /\ divider'.quotient = QuotientOf /\ divider'.remainder = RemainderOf
<1>1. divider \in Registers /\ IsSigned \in BOOLEAN /\ a \in Word /\ b \in Word
    BY MagnitudesAreWords DEF TypeOK
<1>2. b # 0
    <2>1. ~IsCorner
        BY DEF Latched
    <2> QED
        BY <2>1, MagnitudesAreWords
<1>3. Underway(0)
    BY DEF Calculated
<1>4. divider.q \in Word /\ divider.r \in Word /\ divider.d \in Word
    BY <1>1 DEF Registers
<1>5. PICK w \in Nat \ {0} : 2^Width = w
    BY Powers
<1>6. Dividend = divider.q * divider.d + divider.r
    <2>1. Width - 0 = Width
        BY WordAssumption
    <2>2. PICK quot \in 0..(2^Width - 1), rest \in 0..(1 - 1) :
              divider.q = rest * 2^Width + quot /\ Dividend = (quot * divider.d + divider.r) * 1 + rest
        BY <1>3, <2>1, Powers DEF Underway, Partial
    <2>3. rest = 0 /\ quot \in Nat
        BY <1>5
    <2>4. divider.q = quot
        BY <1>5, <2>2, <2>3
    <2>5. divider.d \in Nat /\ divider.r \in Nat
        BY <1>4, <1>5 DEF Word
    <2>6. Dividend = quot * divider.d + divider.r
        <3>1. PICK d, r \in Nat : divider.d = d /\ divider.r = r
            BY <2>5
        <3>2. (quot * d + r) * 1 + 0 = quot * d + r
            BY <2>3
        <3> QED
            BY <2>2, <2>3, <3>1, <3>2
    <2> QED
        BY <2>4, <2>6
<1>7. divider.d = DV!Abs(IsSigned, b) /\ Dividend = DV!Abs(IsSigned, a)
    BY DEF Latched, Divisor, Dividend
<1>8. divider.r < divider.d
    BY <1>3 DEF Underway
<1>9. /\ (IF IsSigned /\ Negative(a) # Negative(b) THEN Neg(divider.q) ELSE divider.q) = QuotientOf
      /\ (IF IsSigned /\ Negative(a) THEN Neg(divider.r) ELSE divider.r) = RemainderOf
    BY <1>1, <1>2, <1>4, <1>6, <1>7, <1>8, Results DEF QuotientOf, RemainderOf
<1>10. divider' = [divider EXCEPT !.quotient = IF divider.signQ THEN Neg(divider.q) ELSE divider.q,
                                  !.remainder = IF divider.signR THEN Neg(divider.r) ELSE divider.r]
    BY SameWords DEF DV!PutSigns
<1>11. divider' = [divider EXCEPT !.quotient = QuotientOf, !.remainder = RemainderOf]
    <2>1. /\ divider.signQ <=> IsSigned /\ Negative(a) # Negative(b)
          /\ divider.signR <=> IsSigned /\ Negative(a)
        BY DEF Latched
    <2> QED
        BY <1>9, <1>10, <2>1
<1>12. QuotientOf \in Word /\ RemainderOf \in Word
    <2>1. Neg(divider.q) \in Word /\ Neg(divider.r) \in Word
        BY <1>4, <1>5, Closed DEF Word
    <2> QED
        BY <1>4, <1>9, <2>1
<1> QED
    BY <1>1, <1>11, <1>12 DEF Registers

-----------------------------------------------------------------------------
(* A cycle of the unit while EX holds the division.                        *)
LEMMA CycleStep ==
    ASSUME Inv, ~done, UNCHANGED <<op, a, b, kept>>, NEW x \in Word, NEW y \in Word,
           divState = "IDLE" => x = a /\ y = b, kept => x = a, Clock(x, y)
    PROVE  Inv'
<1> USE DEF Inv
<1>1. TypeOK /\ Control /\ Latched /\ Calculated /\ Right /\ ~done
    OBVIOUS
<1>2. UNCHANGED <<op, a, b, kept>>
    OBVIOUS
<1>3. (divState = "IDLE" => x = a /\ y = b) /\ (kept => x = a) /\ Clock(x, y)
    OBVIOUS
<1>4. x \in Word /\ y \in Word
    OBVIOUS
<1>5. divider \in Registers /\ count \in Nat /\ busy \in BOOLEAN /\ corner \in BOOLEAN
    BY <1>1 DEF TypeOK
<1>6. /\ op' \in DivOps /\ a' \in Word /\ b' \in Word /\ kept' \in BOOLEAN
      /\ Dividend' = Dividend /\ Divisor' = Divisor /\ IsSigned' = IsSigned
      /\ IsCorner' = IsCorner
      /\ QuotientOf' = QuotientOf /\ RemainderOf' = RemainderOf
    <2>1. op' = op /\ a' = a /\ b' = b /\ kept' = kept
        BY <1>2
    <2>2. op' \in DivOps /\ a' \in Word /\ b' \in Word /\ kept' \in BOOLEAN
        BY <1>1, <2>1 DEF TypeOK
    <2>3. IsSigned' = IsSigned
        BY <2>1 DEF IsSigned
    <2> QED
        BY <2>1, <2>2, <2>3
        DEF Dividend, Divisor, DV!Abs, IsCorner, DV!Corner, QuotientOf, RemainderOf
<1>7. /\ IL!ClockDivider(~busy, DV!Corner(IsSigned, x, y))
      /\ DV!Clock(~busy, IsSigned, x, y)
    BY <1>1, <1>3 DEF Clock, IL!DividerStart
<1>8. CASE divState = "IDLE"
    <2>1. ~busy /\ x = a /\ y = b
        BY <1>1, <1>3, <1>8 DEF Control
    <2>2. IL!Accept(~busy, IsCorner)
        BY <1>7, <1>8, <2>1
        DEF IL!ClockDivider, IL!Idle, IL!Prepare, IL!Calculate, IL!Finish, IsCorner
    <2>3. /\ busy' = TRUE /\ done' = FALSE /\ corner' = IsCorner /\ count' = Width
          /\ divState' = "PREPARE"
        BY <2>2 DEF IL!Accept
    <2>4. DV!Latch(IsSigned, a, b)
        BY <1>7, <1>8, <2>1 DEF DV!Clock
    <2>5. /\ divider' \in Registers /\ divider'.d = Divisor
          /\ divider'.signQ = (IsSigned /\ Negative(a) # Negative(b))
          /\ divider'.signR = (IsSigned /\ Negative(a))
          /\ divider'.byZero = (b = 0)
          /\ ~IsCorner => Underway(Width)'
        BY <1>1, <1>2, <2>4, LatchStep
    <2>6. IsCorner \in BOOLEAN /\ Width \in Nat
        BY <1>1, MagnitudesAreWords, WordAssumption
    <2>7. TypeOK'
        BY <1>6, <2>3, <2>5, <2>6 DEF TypeOK
    <2>8. Latched'
        BY <1>2, <1>6, <2>3, <2>5 DEF Latched
    <2>9. Calculated'
        <3>1. Underway(Width)' /\ count' = Width => Underway(count)'
            BY DEF Underway, Partial, Share
        <3> QED
            BY <2>3, <2>5, <3>1 DEF Calculated
    <2>10. Control' /\ Right'
        BY <2>3 DEF Control, Right
    <2> QED
        BY <2>7, <2>8, <2>9, <2>10
<1>9. CASE divState = "PREPARE"
    <2>1. IL!Prepare
        BY <1>7, <1>9 DEF IL!ClockDivider, IL!Idle, IL!Accept, IL!Calculate, IL!Finish
    <2>2. /\ divState' = (IF corner THEN "FINISH" ELSE "CALCULATE")
          /\ done' = FALSE /\ count' = count /\ busy' = busy /\ corner' = corner
        BY <2>1 DEF IL!Prepare
    <2>3. DV!SetCorner(x)
        BY <1>7, <1>9 DEF DV!Clock
    <2>4. /\ divider' \in Registers /\ SameDivision
          /\ divider'.q = divider.q /\ divider'.r = divider.r
          /\ corner => /\ divider'.quotient = QuotientOf
                       /\ kept \/ b # 0 => divider'.remainder = RemainderOf
        BY <1>1, <1>2, <1>3, <1>4, <1>9, <2>3, CornerStep
    <2>5. TypeOK'
        BY <1>5, <1>6, <2>2, <2>4 DEF TypeOK
    <2>6. Latched'
        BY <1>1, <1>2, <1>6, <1>9, <2>2, <2>4 DEF Latched, SameDivision
    <2>7. count = Width /\ Width \in 1..Width
        BY <1>1, <1>9, WordAssumption DEF Control
    <2>8. Control'
        BY <1>1, <1>9, <2>2, <2>7 DEF Control
    <2>9. Calculated'
        <3>1. ~corner => Underway(count)'
            BY <1>1, <1>6, <1>9, <2>2, <2>4 DEF Calculated, Underway, Partial, Share, SameDivision
        <3> QED
            BY <2>2, <3>1 DEF Calculated
    <2>10. Right'
        BY <1>2, <1>6, <2>2, <2>4 DEF Right
    <2> QED
        BY <2>5, <2>6, <2>8, <2>9, <2>10
<1>10. CASE divState = "CALCULATE"
    <2>1. IL!Calculate
        BY <1>7, <1>10 DEF IL!ClockDivider, IL!Idle, IL!Accept, IL!Prepare, IL!Finish
    <2>2. /\ IF count = 1 THEN divState' = "FINISH" /\ count' = count
                          ELSE divState' = "CALCULATE" /\ count' = count - 1
          /\ done' = FALSE /\ busy' = busy /\ corner' = corner
        BY <2>1 DEF IL!Calculate
    <2>3. PICK k \in 1..Width : k = count
        BY <1>1, <1>10 DEF Control
    <2>4. ~corner /\ Underway(k)
        BY <1>1, <1>10, <2>3 DEF Control, Calculated
    <2>5. DV!ShiftSubtract
        BY <1>7, <1>10 DEF DV!Clock
    <2>6. Underway(k - 1)' /\ divider' \in Registers /\ SameDivision
        BY <1>1, <1>2, <2>4, <2>5, UnderwayStep
    <2>7. k # 1 => k - 1 \in 1..Width
        BY WordAssumption
    <2>8. count' \in Nat
        BY <2>2, <2>3, <2>7
    <2>9. divState' \in {"CALCULATE", "FINISH"}
        BY <2>2
    <2>10. TypeOK'
        BY <1>5, <1>6, <2>2, <2>6, <2>8, <2>9 DEF TypeOK
    <2>11. Latched'
        BY <1>1, <1>2, <1>6, <1>10, <2>2, <2>6 DEF Latched, SameDivision
    <2>12. Control'
        BY <1>1, <1>10, <2>2, <2>3, <2>4, <2>7, <2>9 DEF Control
    <2>13. Calculated'
        <3>1. CASE k = 1
            <4>1. divState' = "FINISH" /\ k - 1 = 0
                BY <3>1, <2>2, <2>3
            <4>2. Underway(0)'
                BY <2>6, <4>1
            <4> QED
                BY <4>1, <4>2 DEF Calculated
        <3>2. CASE k # 1
            <4>1. divState' = "CALCULATE" /\ count' = k - 1
                BY <3>2, <2>2, <2>3
            <4>2. Underway(count)'
                BY <2>6, <4>1 DEF Underway, Partial, Share
            <4> QED
                BY <4>1, <4>2 DEF Calculated
        <3> QED
            BY <3>1, <3>2
    <2>14. Right'
        BY <2>2, <2>4 DEF Right
    <2> QED
        BY <2>10, <2>11, <2>12, <2>13, <2>14
<1>11. CASE divState = "FINISH"
    <2>1. IL!Finish
        BY <1>7, <1>11 DEF IL!ClockDivider, IL!Idle, IL!Accept, IL!Prepare, IL!Calculate
    <2>2. /\ divState' = "IDLE" /\ busy' = FALSE /\ done' = TRUE
          /\ count' = count /\ corner' = corner
        BY <2>1 DEF IL!Finish
    <2>3. DV!PutSigns
        BY <1>7, <1>11 DEF DV!Clock
    <2>4. /\ divider' \in Registers /\ divider'.quotient = QuotientOf
          /\ kept \/ b # 0 => divider'.remainder = RemainderOf
        <3>1. CASE corner
            BY <1>1, <1>5, <1>11, <2>3, <3>1 DEF Right, DV!PutSigns
        <3>2. CASE ~corner
            BY <1>1, <1>11, <2>3, <3>2, FinishStep
        <3> QED
            BY <3>1, <3>2
    <2>5. TypeOK'
        BY <1>5, <1>6, <2>2, <2>4 DEF TypeOK
    <2>6. Latched' /\ Control' /\ Calculated'
        BY <2>2 DEF Latched, Control, Calculated
    <2>7. Right'
        BY <1>2, <1>6, <2>2, <2>4 DEF Right
    <2> QED
        BY <2>5, <2>6, <2>7
<1> QED
    BY <1>1, <1>8, <1>9, <1>10, <1>11 DEF TypeOK

(* A cycle of the unit's specification is one.                             *)
LEMMA WorkStep == Inv /\ Work => Inv'
<1> SUFFICES ASSUME Inv, Work PROVE Inv'
    OBVIOUS
<1>1. ~done /\ UNCHANGED <<op, a, b, kept>>
    BY DEF Work
<1>2. PICK x, y \in Extremes \cup {a, b} :
          (divState = "IDLE" \/ kept => x = a /\ y = b) /\ Clock(x, y)
    BY DEF Work
<1>3. x \in Word /\ y \in Word
    BY ExtremesAreWords DEF Inv, TypeOK
<1> QED
    BY <1>1, <1>2, <1>3, CycleStep

(* The cycle in which the next division comes.                             *)
LEMMA TakeStep == Inv /\ Take => Inv'
<1> SUFFICES ASSUME Inv, Take PROVE Inv'
    OBVIOUS
<1>1. TypeOK /\ Control /\ done /\ divState = "IDLE"
    BY DEF Inv, Take, Control
<1>2. IL!Idle(FALSE) /\ UNCHANGED divider
    BY <1>1 DEF Take, Clock, IL!DividerStart, IL!ClockDivider, IL!Idle, IL!Accept, IL!Prepare,
               IL!Calculate, IL!Finish, DV!Clock
<1>3. /\ op' \in DivOps /\ a' \in Word /\ b' \in Word /\ kept' \in BOOLEAN
    BY ExtremesAreWords DEF Take
<1>4. UNCHANGED <<divState, count, busy, corner, divider>> /\ done' = FALSE
    BY <1>2 DEF IL!Idle
<1>5. TypeOK'
    BY <1>1, <1>3, <1>4 DEF TypeOK
<1> QED
    BY <1>1, <1>4, <1>5 DEF Inv, Control, Latched, Calculated, Right

LEMMA StutterKeeps == Inv /\ UNCHANGED vars => Inv'
BY DEF vars, Inv, TypeOK, Control, Latched, Calculated, Right, Underway, Partial, Share,
       Dividend, Divisor, IsCorner, IsSigned, DV!Abs, DV!Corner, QuotientOf, RemainderOf

(***************************************************************************)
(* In every cycle the divider holds the dividend, bits to go and quotient  *)
(* bits together, and what it signals done with is the definition of the   *)
(* instruction (iterative_divider_32c.vhd), for words of any width.        *)
(***************************************************************************)
THEOREM Invariance == Spec => []Inv
<1>1. Init => Inv
    <2> SUFFICES ASSUME Init PROVE Inv
        OBVIOUS
    <2>1. /\ divState = "IDLE" /\ count = 0 /\ busy = FALSE /\ done = FALSE /\ corner = FALSE
          /\ op \in DivOps /\ a \in Word /\ b \in Word /\ kept \in BOOLEAN
        BY DEF Init
    <2>2. divider \in Registers
        BY ExtremesAreWords DEF Init, DV!Reset, Registers
    <2> QED
        BY <2>1, <2>2 DEF Inv, TypeOK, Control, Latched, Calculated, Right
<1>2. Inv /\ [Next]_vars => Inv'
    BY StutterKeeps, WorkStep, TakeStep DEF Next
<1> QED
    BY <1>1, <1>2, PTL DEF Spec

(***************************************************************************)
(* The quotient is that of DIV and DIVU for all operands of every width,   *)
(* whatever the inputs of the divider are after the start                  *)
(* (iterative_divider_32c.vhd).                                            *)
(***************************************************************************)
THEOREM QuotientsAreRight == Spec => []QuotientIsRight
<1>1. Inv => QuotientIsRight
    BY DEF Inv, Right, QuotientOf, IsSigned, QuotientIsRight
<1> QED
    BY <1>1, Invariance, PTL

(***************************************************************************)
(* And the remainder that of REM and REMU, where the divisor is not zero   *)
(* or EX keeps presenting the dividend.                                    *)
(***************************************************************************)
THEOREM RemaindersAreRight == Spec => []RemainderIsRight
<1>1. Inv => RemainderIsRight
    BY DEF Inv, Right, RemainderOf, IsSigned, RemainderIsRight
<1> QED
    BY <1>1, Invariance, PTL

=============================================================================
