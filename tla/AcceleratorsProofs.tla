------------------------- MODULE AcceleratorsProofs -------------------------
(***************************************************************************)
(* Proofs about the accelerators with their drivers, for every timing that *)
(* the assumptions of Accelerators allow: the cycle counter, for halves of *)
(* every length; the generator, for seeds of every length; the carry-less  *)
(* multiplier and base_mul of gf2x.c, for all words; and the field unit.   *)
(* Each device has an inductive invariant that follows its driver access   *)
(* by access; the last section draws from these what the runs check.       *)
(***************************************************************************)
EXTENDS Accelerators, SequenceTheorems, FiniteSetTheorems, WellFoundedInduction, TLAPS

-----------------------------------------------------------------------------
(* The last n accesses of s are those of p.                                *)
Accesses ==
    {Load(r) : r \in {0, 1}} \cup {Store(0, x) : x \in {{}, {0}}} \cup {Poll(STATUS, 1, TRUE)}

Remaining(s, n, p) ==
    /\ p \in Seq(Accesses) /\ Len(p) = n
    /\ \A i \in 1 .. n : p[i] = s[Len(s) - n + i]

-----------------------------------------------------------------------------
(* The cycle counter: inductive invariant.  Times are counted on from      *)
(* began without turning over; Half is a turn of the lower half.           *)
Half == 2^HALF

Hi(n) == (n % Turn) \div Half
Lo(n) == (n % Turn) % Half

(* The cycles that an access takes at the most, with those before it, and  *)
(* what of them has gone by.                                               *)
Span == MaxHold + MaxOther
Waited == MaxOther - gap + held

(* An iteration is repeated only if the lower half turned over in it.  It  *)
(* is shorter than the half, so the next one begins with a smaller lower   *)
(* half: there are not enough of them for the whole counter to turn over.  *)
Sooner(t, s, start, first) == first - start <= s + (t - 1) * (t - 1 - (first % t))

Early(start, first) == Sooner(Half, Span, start, first)

(* A call that began at start and now has the accesses p to come and l     *)
(* loaded, with waited cycles since the access before.                     *)
FirstLoad(start, waited, now) ==
    \/ now - start <= waited
    \/ \E first \in start .. now :
          /\ now - first <= 2 * Span + waited
          /\ Early(start, first)
          /\ now \div Half # first \div Half

SecondLoad(start, waited, l, now) ==
    \E first \in start .. now :
        /\ now - first <= waited
        /\ Early(start, first)
        /\ l[1] = Hi(first)

ThirdLoad(start, waited, l, now) ==
    \E second \in start .. now :
        /\ now - second <= waited
        /\ \E first \in start .. second :
              /\ second - first <= Span
              /\ Early(start, first)
              /\ l[1] = Hi(first) /\ l[2] = Lo(second)

Progress(start, waited, p, l, now) ==
    /\ l \in Seq(Nat)
    /\ \/ Remaining(read_cycles, 3, p) /\ Len(l) = 0 /\ FirstLoad(start, waited, now)
       \/ Remaining(read_cycles, 2, p) /\ Len(l) = 1 /\ SecondLoad(start, waited, l, now)
       \/ Remaining(read_cycles, 1, p) /\ Len(l) = 2 /\ ThirdLoad(start, waited, l, now)

Reading ==
    \E now \in began .. began + Turn - 1 :
        counter = now % Turn /\ Progress(began, Waited, plan, loaded, now)

CounterType ==
    /\ counter \in 0 .. Turn - 1 /\ began \in 0 .. Turn - 1
    /\ gap \in 0 .. MaxOther /\ held \in 0 .. MaxHold
    /\ call \in {None, <<"read">>, <<"reset">>}

CounterInv ==
    device = "cycle" =>
        /\ CounterType
        /\ call = None => plan = << >>
        /\ call = <<"reset">> => Remaining(reset_cycle_counter, 1, plan)
        /\ call = <<"read">> => Reading
        /\ call # None => answer = None
        /\ ReadIsAMoment

(* The generator: inductive invariant.  A flag that is set stands for a    *)
(* byte that was not returned, and so does a poll that saw it.             *)
SeedLength == 4 + 2 * SEED_LEN

(* The loads among the first p - 1 accesses of init_seed.                  *)
LoadsBefore(p) == IF p = 1 THEN 0
                  ELSE IF p = 2 THEN 1
                  ELSE IF p = SeedLength THEN 2 + SEED_LEN
                  ELSE (p - 1) \div 2

Seeding(p) ==
    /\ Remaining(init_seed, SeedLength - p + 1, plan)
    /\ loaded = [k \in 1 .. LoadsBefore(p) |-> loaded[k]]
    /\ \A k \in 2 .. 1 + SEED_LEN : k <= LoadsBefore(p) => loaded[k] = "fresh"
    /\ init_seed[p] = Load(DATA) => byte = "fresh"

RandomInv ==
    device = "trng" =>
        /\ call \in {None, <<"seed">>}
        /\ call = None => plan = << >>
        /\ flag => byte = "fresh"
        /\ call = <<"seed">> => \E p \in 1 .. SeedLength : Seeding(p)
        /\ BytesAreFresh

-----------------------------------------------------------------------------
(* Arithmetic of the counter.                                              *)

(* Multiplying by a number keeps the order.                                *)
LEMMA Grows ==
    ASSUME NEW x \in Nat, NEW y \in Nat, NEW z \in Nat, x <= y
    PROVE  x * z <= y * z
<1>1. PICK e \in Nat : y = x + e
    <2>1. y - x \in Nat /\ y = x + (y - x)
        OBVIOUS
    <2> QED
        BY <2>1
<1>2. y * z = x * z + e * z
    BY <1>1
<1>3. e * z \in Nat /\ x * z \in Nat
    OBVIOUS
<1> QED
    BY <1>2, <1>3

(* Quotient and remainder, and that they are unique.                       *)
LEMMA Divides ==
    ASSUME NEW n \in Nat, NEW t \in Nat \ {0}
    PROVE  n \div t \in Nat /\ n % t \in 0 .. t - 1 /\ n = (n \div t) * t + (n % t)
<1>1. n \div t \in Nat
    OBVIOUS
<1>2. n % t \in 0 .. t - 1
    OBVIOUS
<1>3. n = (n \div t) * t + (n % t)
    OBVIOUS
<1> QED
    BY <1>1, <1>2, <1>3

(* A number is made of one quotient and one remainder only.                *)
LEMMA Unique ==
    ASSUME NEW t \in Nat \ {0}, NEW q \in Nat, NEW r \in 0 .. t - 1
    PROVE  (q * t + r) \div t = q /\ (q * t + r) % t = r
    OBVIOUS

(* A number of two digits.                                                 *)
LEMMA TwoDigits ==
    ASSUME NEW t \in Nat \ {0}, NEW x \in 0 .. t - 1, NEW y \in 0 .. t - 1
    PROVE  x * t + y \in 0 .. t * t - 1
<1>1. x * t <= (t - 1) * t
    BY Grows
<1>2. (t - 1) * t = t * t - t
    OBVIOUS
<1>3. x * t \in Nat /\ t * t \in Nat
    OBVIOUS
<1> QED
    BY <1>1, <1>2, <1>3

(* The two digits of what is left of a number.                             *)
LEMMA Digits ==
    ASSUME NEW t \in Nat \ {0}, NEW n \in Nat
    PROVE  /\ n % (t * t) = ((n \div t) % t) * t + (n % t)
           /\ (n % (t * t)) \div t = (n \div t) % t
           /\ (n % (t * t)) % t = n % t
<1> DEFINE x == n \div t
           y == n % t
           h == x % t
           q == x \div t
<1>1. x \in Nat /\ y \in 0 .. t - 1 /\ n = x * t + y
    BY Divides
<1>2. q \in Nat /\ h \in 0 .. t - 1 /\ x = q * t + h
    BY <1>1, Divides
<1> HIDE DEF x, y, h, q
<1>3. t * t \in Nat \ {0}
    OBVIOUS
<1>4. h * t + y \in 0 .. t * t - 1
    BY <1>1, <1>2, TwoDigits
<1>5. n = q * (t * t) + (h * t + y)
    <2>1. (q * t + h) * t = q * (t * t) + h * t
        BY <1>2
    <2> QED
        BY <1>1, <1>2, <2>1
<1>6. n % (t * t) = h * t + y
    <2> DEFINE u == t * t
               r == h * t + y
    <2>1. u \in Nat \ {0} /\ r \in 0 .. u - 1 /\ n = q * u + r
        BY <1>3, <1>4, <1>5
    <2> HIDE DEF u, r
    <2>2. n % u = r
        BY <1>2, <2>1, Unique
    <2> QED
        BY <2>2 DEF u, r
<1>7. (h * t + y) \div t = h /\ (h * t + y) % t = y
    BY <1>1, <1>2, Unique
<1>8. n % (t * t) = h * t + y /\ (n % (t * t)) \div t = h /\ (n % (t * t)) % t = y
    BY <1>6, <1>7
<1> QED
    BY <1>8 DEF h, x, y

(* One more before the remainder or after it.                              *)
LEMMA CountOn ==
    ASSUME NEW u \in Nat \ {0}, NEW n \in Nat
    PROVE  ((n % u) + 1) % u = (n + 1) % u
<1>1. PICK r \in 0 .. u - 1, q \in Nat : r = n % u /\ n = q * u + r
    BY Divides
<1>2. CASE r + 1 < u
    <2>1. (q * u + (r + 1)) % u = r + 1 /\ (r + 1) % u = r + 1
        BY <1>2
    <2>2. n + 1 = q * u + (r + 1)
        BY <1>1
    <2> QED
        BY <1>1, <2>1, <2>2
<1>3. CASE r + 1 = u
    <2>1. ((q + 1) * u + 0) % u = 0
        OBVIOUS
    <2>2. u % u = 0
        OBVIOUS
    <2>3. n + 1 = (q + 1) * u + 0
        BY <1>1, <1>3
    <2> QED
        BY <1>1, <1>3, <2>1, <2>2, <2>3
<1> QED
    BY <1>1, <1>2, <1>3

(* The time between two remainders, if it is less than a turn.             *)
LEMMA Between ==
    ASSUME NEW u \in Nat \ {0}, NEW b0 \in 0 .. u - 1, NEW n \in b0 .. b0 + u - 1
    PROVE  ((n % u) - b0) % u = n - b0
<1>1. CASE n < u
    BY <1>1
<1>2. CASE ~(n < u)
    <2>1. n - u \in 0 .. u - 1 /\ n - b0 \in 0 .. u - 1
        BY <1>2
    <2>2. n % u = n - u
        BY <2>1
    <2>3. ((n - u) - b0) % u = n - b0
        <3>1. PICK d \in 0 .. u - 1 : d = n - b0
            BY <2>1
        <3>2. (d - u) % u = d
            BY <3>1
        <3>3. (n - u) - b0 = d - u
            BY <3>1
        <3> QED
            BY <3>1, <3>2, <3>3
    <2> QED
        BY <2>2, <2>3
<1> QED
    BY <1>1, <1>2

(* The upper digit grows with the number, by at most one in less than a    *)
(* turn of the lower digit, which then becomes smaller.                    *)
LEMMA Monotone ==
    ASSUME NEW t \in Nat \ {0}, NEW x \in Nat, NEW y \in Nat, x <= y
    PROVE  x \div t <= y \div t
    OBVIOUS

LEMMA TurnsOver ==
    ASSUME NEW t \in Nat \ {0}, NEW x \in Nat, NEW y \in Nat, x <= y, y - x < t,
           y \div t # x \div t
    PROVE  /\ y \div t = x \div t + 1
           /\ y % t = (x % t) + (y - x) - t
<1>1. PICK q \in Nat, r \in 0 .. t - 1 : x = q * t + r /\ q = x \div t /\ r = x % t
    BY Divides
<1>2. PICK d \in 0 .. t - 1 : y = x + d
    <2>1. y - x \in 0 .. t - 1 /\ y = x + (y - x)
        OBVIOUS
    <2> QED
        BY <2>1
<1>3. CASE r + d < t
    <2>1. y = q * t + (r + d) /\ r + d \in 0 .. t - 1
        BY <1>1, <1>2, <1>3
    <2>2. y \div t = q
        BY <2>1, Unique
    <2> QED
        BY <1>1, <2>2
<1>4. CASE ~(r + d < t)
    <2>1. y = (q + 1) * t + (r + d - t) /\ r + d - t \in 0 .. t - 1 /\ q + 1 \in Nat
        <3>1. (q + 1) * t = q * t + t /\ q * t \in Nat
            OBVIOUS
        <3>2. r + d - t \in 0 .. t - 1
            BY <1>4
        <3>3. y = q * t + r + d
            BY <1>1, <1>2
        <3>4. y = (q + 1) * t + (r + d - t)
            <4>1. PICK z \in Nat : z = q * t
                BY <3>1
            <4> QED
                BY <3>1, <3>3, <4>1
        <3> QED
            BY <3>2, <3>4
    <2>2. y \div t = q + 1 /\ y % t = r + d - t
        BY <2>1, Unique
    <2>3. y - x = d
        BY <1>2
    <2> QED
        BY <1>1, <2>2, <2>3
<1> QED
    BY <1>3, <1>4

(* An upper digit that is read the same has not moved.                     *)
LEMMA SameUpper ==
    ASSUME NEW t \in Nat \ {0, 1}, NEW x \in Nat, NEW y \in Nat, x <= y, y - x < t,
           (y \div t) % t = (x \div t) % t
    PROVE  y \div t = x \div t
<1> SUFFICES ASSUME y \div t # x \div t PROVE FALSE
    OBVIOUS
<1>1. PICK q \in Nat : q = x \div t
    BY Divides
<1>2. y \div t = q + 1
    BY <1>1, TurnsOver
<1>3. (q + 1) % t # q % t
    <2>1. ((q % t) + 1) % t = (q + 1) % t
        BY CountOn
    <2>2. PICK m \in 0 .. t - 1 : m = q % t
        BY Divides
    <2>3. (m + 1) % t # m
        <3>1. CASE m + 1 = t
            BY <3>1
        <3>2. CASE m + 1 # t
            <4>1. (m + 1) % t = m + 1
                BY <3>2
            <4> QED
                BY <4>1
        <3> QED
            BY <3>1, <3>2
    <2> QED
        BY <2>1, <2>2, <2>3
<1> QED
    BY <1>1, <1>2, <1>3

(* The first load of an iteration is early enough if the one before was.   *)
LEMMA EarlyNext ==
    ASSUME NEW t \in Nat \ {0}, NEW s \in Nat, NEW b0 \in Nat, NEW x \in Nat, NEW y \in Nat,
           x <= y, y - x < t, y \div t # x \div t, Sooner(t, s, b0, x)
    PROVE  Sooner(t, s, b0, y)
<1>1. PICK r \in 0 .. t - 1 : r = x % t
    BY Divides
<1>2. PICK e \in 0 .. t - 1 : e = y % t
    BY Divides
<1>3. e + 1 <= r
    <2>1. e = r + (y - x) - t
        BY <1>1, <1>2, TurnsOver
    <2> QED
        BY <2>1
<1>4. x - b0 <= s + (t - 1) * (t - 1 - r)
    BY <1>1 DEF Sooner
<1>5. (t - 1 - r + 1) * (t - 1) <= (t - 1 - e) * (t - 1)
    <2>1. t - 1 - r + 1 \in Nat /\ t - 1 - e \in Nat /\ t - 1 \in Nat /\ t - 1 - r + 1 <= t - 1 - e
        BY <1>3
    <2> QED
        BY <2>1, Grows
<1>6. (t - 1 - r + 1) * (t - 1) = (t - 1) * (t - 1 - r) + (t - 1)
    OBVIOUS
<1>7. (t - 1 - e) * (t - 1) = (t - 1) * (t - 1 - e)
    OBVIOUS
<1>8. y - b0 <= s + (t - 1) * (t - 1 - e)
    <2>1. PICK u \in Int, v \in Int : u = (t - 1) * (t - 1 - r) /\ v = (t - 1) * (t - 1 - e)
        BY <1>1
    <2>2. u + (t - 1) <= v
        BY <1>5, <1>6, <1>7, <2>1
    <2> QED
        BY <1>4, <2>1, <2>2
<1> QED
    BY <1>2, <1>8 DEF Sooner

(* And an iteration that begins early enough ends before a whole turn.     *)
LEMMA EarlyEnough ==
    ASSUME NEW t \in Nat \ {0}, NEW s \in Nat \ {0}, 3 * s < t,
           NEW b0 \in Nat, NEW x \in Nat, NEW y \in Nat,
           b0 <= x, x <= y, y - x <= 3 * s, Sooner(t, s, b0, x)
    PROVE  y + 1 - b0 < t * t
<1>1. PICK r \in 0 .. t - 1 : r = x % t
    BY Divides
<1>2. x - b0 <= s + (t - 1) * (t - 1 - r)
    BY <1>1 DEF Sooner
<1>3. (t - 1 - r) * (t - 1) <= (t - 1) * (t - 1)
    <2>1. t - 1 - r \in Nat /\ t - 1 \in Nat /\ t - 1 - r <= t - 1
        OBVIOUS
    <2> QED
        BY <2>1, Grows
<1>4. (t - 1 - r) * (t - 1) = (t - 1) * (t - 1 - r) /\ (t - 1) * (t - 1) = t * t - 2 * t + 1
    OBVIOUS
<1>5. PICK u \in Int, v \in Int : u = (t - 1) * (t - 1 - r) /\ v = t * t
    BY <1>1
<1>6. u <= v - 2 * t + 1
    BY <1>3, <1>4, <1>5
<1> QED
    BY <1>2, <1>5, <1>6

-----------------------------------------------------------------------------
(* What the cycles of a call do to it, in numbers.                         *)

(* What the assumptions say of a span and a half                           *)
LEMMA Timing ==
    /\ Half \in Nat \ {0, 1} /\ Span \in Nat \ {0} /\ 3 * Span < Half
    /\ Turn = Half * Half /\ Turn \in Nat \ {0, 1}
    /\ MaxHold \in Nat /\ MaxOther \in Nat /\ 1 \in 0 .. MaxHold
<1>1. PICK t \in Nat : 2^HALF = t
    BY TimingAssumption
<1>2. t \in Nat \ {0, 1} /\ MaxHold + MaxOther \in Nat \ {0} /\ 3 * (MaxHold + MaxOther) < t
    BY <1>1, TimingAssumption
<1>3. t * t \in Nat \ {0, 1}
    <2>1. 2 * t <= t * t
        BY <1>2, Grows
    <2>2. t * t \in Nat
        OBVIOUS
    <2> QED
        BY <1>2, <2>1, <2>2
<1> QED
    BY <1>1, <1>2, <1>3, TimingAssumption DEF Half, Span, Turn

(* A cycle that goes by.                                                   *)
LEMMA WaitOn ==
    ASSUME NEW start \in Nat, NEW w \in Int, w <= Span, NEW p, NEW l,
           NEW now \in start .. start + Turn - 1, Progress(start, w, p, l, now)
    PROVE  /\ now + 1 \in start .. start + Turn - 1
           /\ Progress(start, w + 1, p, l, now + 1)
<1>1. PICK t \in Nat \ {0, 1}, s \in Nat \ {0} : t = Half /\ s = Span /\ 3 * s < t
    BY Timing
<1>2. Turn = t * t /\ t * t \in Nat
    BY <1>1, Timing
<1>3. now \in Nat /\ start <= now /\ w <= s
    BY <1>1, <1>2
<1>4. ASSUME NEW first \in start .. now, Early(start, first), now - first <= 3 * s
      PROVE  now + 1 \in start .. start + Turn - 1
    <2>1. first \in Nat /\ start <= first /\ first <= now /\ Sooner(t, s, start, first)
        BY <1>1, <1>3, <1>4 DEF Early
    <2>2. now + 1 - start < t * t
        BY <1>1, <1>3, <1>4, <2>1, EarlyEnough
    <2> QED
        BY <1>2, <1>3, <2>2
<1>5. CASE Remaining(read_cycles, 3, p) /\ Len(l) = 0 /\ FirstLoad(start, w, now)
    <2>1. CASE now - start <= w
        <3>1. now + 1 - start < t * t
            <4>1. 2 * t <= t * t
                BY Grows
            <4> QED
                BY <1>1, <1>3, <2>1, <4>1
        <3>2. now + 1 - start <= w + 1
            BY <1>3, <2>1
        <3> QED
            BY <1>2, <1>3, <1>5, <3>1, <3>2 DEF Progress, FirstLoad
    <2>2. CASE \E first \in start .. now :
                   /\ now - first <= 2 * Span + w
                   /\ Early(start, first) /\ now \div Half # first \div Half
        <3>1. PICK first \in start .. now :
                   /\ now - first <= 2 * s + w
                   /\ Early(start, first) /\ now \div t # first \div t
            BY <1>1, <2>2
        <3>2. now + 1 \in start .. start + Turn - 1
            BY <1>3, <1>4, <3>1
        <3>3. (now + 1) \div t # first \div t
            <4>0. first \in Nat /\ now \in Nat /\ now + 1 \in Nat
                BY <1>3
            <4>1. PICK x, y, z \in Nat : x = first \div t /\ y = now \div t /\ z = (now + 1) \div t
                <5>1. first \div t \in Nat /\ now \div t \in Nat
                    BY <4>0, Divides
                <5>2. (now + 1) \div t \in Nat
                    BY <4>0, Divides
                <5> QED
                    BY <5>1, <5>2
            <4>2. x <= y /\ y <= z
                BY <1>3, <4>1, Monotone
            <4> QED
                BY <3>1, <4>1, <4>2
        <3>4. first \in start .. now + 1 /\ now + 1 - first <= 2 * s + (w + 1)
            BY <1>3, <3>1
        <3>5. FirstLoad(start, w + 1, now + 1)
            BY <1>1, <3>1, <3>3, <3>4 DEF FirstLoad
        <3> QED
            BY <1>5, <3>2, <3>5 DEF Progress
    <2> QED
        BY <1>5, <2>1, <2>2 DEF FirstLoad
<1>6. CASE Remaining(read_cycles, 2, p) /\ Len(l) = 1 /\ SecondLoad(start, w, l, now)
    <2>1. PICK first \in start .. now :
              now - first <= w /\ Early(start, first) /\ l[1] = Hi(first)
        BY <1>6 DEF SecondLoad
    <2>2. now + 1 \in start .. start + Turn - 1
        BY <1>3, <1>4, <2>1
    <2>3. first \in start .. now + 1 /\ now + 1 - first <= w + 1
        BY <1>3, <2>1
    <2>4. SecondLoad(start, w + 1, l, now + 1)
        BY <2>1, <2>3 DEF SecondLoad
    <2> QED
        BY <1>6, <2>2, <2>4 DEF Progress
<1>7. CASE Remaining(read_cycles, 1, p) /\ Len(l) = 2 /\ ThirdLoad(start, w, l, now)
    <2>0. PICK second \in start .. now :
              /\ now - second <= w
              /\ \E first \in start .. second :
                    /\ second - first <= s /\ Early(start, first)
                    /\ l[1] = Hi(first) /\ l[2] = Lo(second)
        BY <1>1, <1>7 DEF ThirdLoad
    <2>1. PICK first \in start .. second :
              /\ now - second <= w /\ second - first <= s /\ Early(start, first)
              /\ l[1] = Hi(first) /\ l[2] = Lo(second)
        BY <2>0
    <2>2. first \in start .. now /\ now - first <= 3 * s
        BY <1>3, <2>1
    <2>3. now + 1 \in start .. start + Turn - 1
        BY <1>4, <2>1, <2>2
    <2>4. second \in start .. now + 1 /\ now + 1 - second <= w + 1
        BY <1>3, <2>1
    <2>5. ThirdLoad(start, w + 1, l, now + 1)
        BY <1>1, <2>1, <2>4 DEF ThirdLoad
    <2> QED
        BY <1>7, <2>3, <2>5 DEF Progress
<1> QED
    BY <1>5, <1>6, <1>7 DEF Progress

(* A load that leaves MEM.                                                 *)
LEMMA LoadFirst ==
    ASSUME NEW start \in Nat, NEW w \in Int, w <= Span,
           NEW now \in start .. start + Turn - 1, FirstLoad(start, w, now),
           NEW v \in Nat \ {0}, NEW k, k[1] = Hi(now)
    PROVE  SecondLoad(start, v, k, now + 1)
<1>1. PICK t \in Nat \ {0, 1}, s \in Nat \ {0} : t = Half /\ s = Span /\ 3 * s < t
    BY Timing
<1>2. now \in Nat /\ start <= now /\ w <= s
    BY <1>1, Timing
<1>3. Sooner(t, s, start, now)
    <2>1. CASE now - start <= w
        <3>1. PICK r \in 0 .. t - 1 : r = now % t
            BY <1>2, Divides
        <3>2. (t - 1) * (t - 1 - r) \in Nat
            <4>1. t - 1 \in Nat /\ t - 1 - r \in Nat
                OBVIOUS
            <4> QED
                BY <4>1
        <3> QED
            BY <1>2, <2>1, <3>1, <3>2 DEF Sooner
    <2>2. CASE \E first \in start .. now :
                   /\ now - first <= 2 * Span + w
                   /\ Early(start, first) /\ now \div Half # first \div Half
        <3>1. PICK first \in start .. now :
                   /\ now - first <= 2 * s + w
                   /\ Sooner(t, s, start, first) /\ now \div t # first \div t
            BY <1>1, <2>2 DEF Early
        <3>2. first \in Nat /\ first <= now /\ now - first < t
            BY <1>1, <1>2, <3>1
        <3> QED
            BY <1>2, <3>1, <3>2, EarlyNext
    <2> QED
        BY <2>1, <2>2 DEF FirstLoad
<1>4. now \in start .. now + 1 /\ now + 1 - now <= v
    BY <1>2
<1> QED
    BY <1>1, <1>3, <1>4 DEF SecondLoad, Early

LEMMA LoadSecond ==
    ASSUME NEW start \in Nat, NEW w \in Int, w <= Span,
           NEW now \in start .. start + Turn - 1, NEW l, SecondLoad(start, w, l, now),
           NEW v \in Nat \ {0}, NEW k, k[1] = l[1], k[2] = Lo(now)
    PROVE  ThirdLoad(start, v, k, now + 1)
<1>1. PICK s \in Nat \ {0} : s = Span
    BY Timing
<1>2. now \in Nat /\ start <= now /\ w <= s
    BY <1>1, Timing
<1>3. PICK first \in start .. now : now - first <= w /\ Early(start, first) /\ l[1] = Hi(first)
    BY DEF SecondLoad
<1>4. now \in start .. now + 1 /\ now + 1 - now <= v /\ now - first <= s
    BY <1>2, <1>3
<1> QED
    BY <1>1, <1>3, <1>4 DEF ThirdLoad

LEMMA LoadThird ==
    ASSUME NEW start \in 0 .. Turn - 1, NEW w \in Int, w <= Span,
           NEW now \in start .. start + Turn - 1, NEW l, ThirdLoad(start, w, l, now),
           now + 1 \in start .. start + Turn - 1, NEW v \in Nat \ {0}
    PROVE  /\ Hi(now) # l[1] => FirstLoad(start, v, now + 1)
           /\ Hi(now) = l[1] =>
                 ((l[1] * Half + l[2]) - start) % Turn <= (((now + 1) % Turn) - start) % Turn
<1>1. PICK t \in Nat \ {0, 1}, s \in Nat \ {0} : t = Half /\ s = Span /\ 3 * s < t
    BY Timing
<1>2. PICK u \in Nat \ {0} : u = Turn /\ u = t * t
    BY <1>1, Timing
<1>3. now \in Nat /\ start \in Nat /\ start <= now /\ w <= s
    BY <1>1, <1>2
<1>4. PICK second \in start .. now :
          /\ now - second <= w
          /\ \E first \in start .. second :
                second - first <= s /\ Early(start, first) /\ l[1] = Hi(first) /\ l[2] = Lo(second)
    BY <1>1 DEF ThirdLoad
<1>5. PICK first \in start .. second :
          second - first <= s /\ Early(start, first) /\ l[1] = Hi(first) /\ l[2] = Lo(second)
    BY <1>4
<1>6. /\ first \in Nat /\ second \in Nat /\ first <= second /\ second <= now
      /\ now - first <= 2 * s /\ second - first < t /\ now - first < t
    BY <1>1, <1>3, <1>4, <1>5
<1>7. ASSUME NEW n \in Nat
      PROVE  Hi(n) = (n \div t) % t /\ Lo(n) = n % t /\ Hi(n) \in Nat /\ Lo(n) \in Nat
             /\ n % Turn = Hi(n) * t + Lo(n)
    <2>1. n \div t \in Nat /\ n % t \in Nat
        BY Divides
    <2>2. (n \div t) % t \in Nat
        BY <2>1, Divides
    <2>3. Hi(n) = (n % (t * t)) \div t /\ Lo(n) = (n % (t * t)) % t
        BY <1>1, <1>2 DEF Hi, Lo
    <2>4. /\ n % (t * t) = ((n \div t) % t) * t + (n % t)
          /\ (n % (t * t)) \div t = (n \div t) % t
          /\ (n % (t * t)) % t = n % t
        BY Digits
    <2>5. Hi(n) = (n \div t) % t /\ Lo(n) = n % t
        BY <2>3, <2>4
    <2>6. n % Turn = Hi(n) * t + Lo(n)
        BY <1>2, <2>4, <2>5
    <2> QED
        BY <2>1, <2>2, <2>5, <2>6
<1>8. l[1] = Hi(first) /\ l[2] = Lo(second)
    BY <1>5
<1>9. ASSUME Hi(now) # l[1] PROVE FirstLoad(start, v, now + 1)
    <2>1. now \div t # first \div t
        BY <1>3, <1>6, <1>7, <1>8, <1>9
    <2>2. (now + 1) \div t # first \div t
        <3>1. PICK x, y \in Nat : x = first \div t /\ y = now \div t
            BY <1>3, <1>6, Divides
        <3>2. PICK z \in Nat : z = (now + 1) \div t
            <4>1. now + 1 \in Nat
                BY <1>3
            <4> QED
                BY <4>1, Divides
        <3>3. x <= y /\ y <= z
            <4>1. now + 1 \in Nat /\ now <= now + 1 /\ first <= now
                BY <1>3, <1>6
            <4> QED
                BY <1>3, <1>6, <3>1, <3>2, <4>1, Monotone
        <3> QED
            BY <2>1, <3>1, <3>2, <3>3
    <2>3. first \in start .. now + 1 /\ now + 1 - first <= 2 * s + v
        BY <1>3, <1>5, <1>6
    <2> QED
        BY <1>1, <1>5, <2>2, <2>3 DEF FirstLoad
<1>10. ASSUME Hi(now) = l[1]
       PROVE  ((l[1] * Half + l[2]) - start) % Turn <= (((now + 1) % Turn) - start) % Turn
    <2>1. now \div t = first \div t
        <3>1. (now \div t) % t = (first \div t) % t
            BY <1>3, <1>6, <1>7, <1>8, <1>10
        <3>2. first <= now
            BY <1>6
        <3> QED
            BY <1>3, <1>6, <3>1, <3>2, SameUpper
    <2>2. second \div t = first \div t
        <3>1. PICK x, y, z \in Nat : x = first \div t /\ y = second \div t /\ z = now \div t
            BY <1>3, <1>6, Divides
        <3>2. x <= y /\ y <= z
            BY <1>3, <1>6, <3>1, Monotone
        <3> QED
            BY <2>1, <3>1, <3>2
    <2>3. Hi(second) = Hi(first)
        BY <1>6, <1>7, <2>2
    <2>4. l[1] * Half + l[2] = second % Turn
        BY <1>1, <1>6, <1>7, <1>8, <2>3
    <2>5. second \in start .. start + u - 1 /\ start \in 0 .. u - 1 /\ now + 1 \in start .. start + u - 1
        BY <1>2, <1>3, <1>6, <1>4
    <2>6. ((second % u) - start) % u = second - start
        BY <2>5, Between
    <2>7. (((now + 1) % u) - start) % u = now + 1 - start
        <3>1. PICK n : n = now + 1
            OBVIOUS
        <3>2. ((n % u) - start) % u = n - start
            BY <2>5, <3>1, Between
        <3> QED
            BY <3>1, <3>2
    <2>8. second - start <= now + 1 - start
        BY <1>3, <1>6
    <2> QED
        BY <1>2, <2>4, <2>6, <2>7, <2>8
<1> QED
    BY <1>9, <1>10

-----------------------------------------------------------------------------
(* The accesses of a driver.                                               *)

(* The next access of p, and what is left after it                         *)
LEMMA Ahead ==
    ASSUME NEW s \in Seq(Accesses), NEW n \in 1 .. Len(s), NEW p, Remaining(s, n, p)
    PROVE  /\ p # << >> /\ Len(p) = n /\ Head(p) = s[Len(s) - n + 1] /\ Head(p) \in Accesses
           /\ Tail(p) # p /\ Remaining(s, n - 1, Tail(p))
           /\ n = 1 => Tail(p) = << >>
<1>1. p \in Seq(Accesses) /\ Len(p) = n /\ \A i \in 1 .. n : p[i] = s[Len(s) - n + i]
    BY DEF Remaining
<1>2. p # << >> /\ Head(p) = p[1] /\ Tail(p) \in Seq(Accesses) /\ Len(Tail(p)) = n - 1
    BY <1>1
<1>3. 1 \in 1 .. n /\ Head(p) = s[Len(s) - n + 1] /\ Head(p) \in Accesses
    BY <1>1, <1>2
<1>4. ASSUME NEW i \in 1 .. n - 1 PROVE Tail(p)[i] = s[Len(s) - (n - 1) + i]
    <2>1. Tail(p)[i] = p[i + 1] /\ i + 1 \in 1 .. n
        BY <1>1
    <2>2. Len(s) - n + (i + 1) = Len(s) - (n - 1) + i
        OBVIOUS
    <2> QED
        BY <1>1, <2>1, <2>2
<1>5. Tail(p) # p
    BY <1>1, <1>2
<1>6. n = 1 => Tail(p) = << >>
    <2>1. n = 1 => Len(Tail(p)) = 0
        BY <1>2
    <2>2. 0 \notin Nat \ {0}
        OBVIOUS
    <2> QED
        BY <1>2, <2>1, <2>2, EmptySeq, Zenon
<1> QED
    BY <1>1, <1>2, <1>3, <1>4, <1>5, <1>6 DEF Remaining

(* The fields of an access                                                 *)
LEMMA Kinds ==
    /\ \A r : Load(r).kind = "load" /\ Load(r).reg = r
    /\ \A r, x : Store(r, x).kind = "store" /\ Store(r, x).reg = r /\ Store(r, x).data = x
    /\ \A r, i, w : /\ Poll(r, i, w).kind = "poll" /\ Poll(r, i, w).reg = r
                    /\ Poll(r, i, w).bit = i /\ Poll(r, i, w).want = w
    BY DEF Load, Store, Poll

(* Whatever is not a store in MEM writes nothing.                          *)
LEMMA OnlyStoresWrite ==
    ASSUME ~InMem \/ Head(plan).kind # "store", NEW d, NEW r
    PROVE  ~Writes(Access, d, r) /\ ~Access.we
<1>1. \A x : ~Read(x).we
    BY DEF Read
<1> QED
    BY <1>1 DEF Access, Writes

(* What a load of the counter gets                                         *)
LEMMA ReadsCounter ==
    ASSUME device = "cycle"
    PROVE  ReadData(LOW) = counter % Half /\ ReadData(HIGH) = counter \div Half
<1>1. LOW # HIGH
    BY DEF LOW, HIGH
<1> QED
    BY <1>1, Zenon DEF ReadData, Half

(* The accesses of read_cycles and reset_cycle_counter                     *)
LEMMA CounterPlans ==
    /\ read_cycles \in Seq(Accesses) /\ Len(read_cycles) = 3
    /\ read_cycles[1] = Load(HIGH) /\ read_cycles[2] = Load(LOW) /\ read_cycles[3] = Load(HIGH)
    /\ reset_cycle_counter \in Seq(Accesses) /\ Len(reset_cycle_counter) = 1
    /\ reset_cycle_counter[1] = Store(LOW, {})
<1>1. Load(HIGH) \in Accesses /\ Load(LOW) \in Accesses /\ Store(LOW, {}) \in Accesses
    BY DEF Accesses, LOW, HIGH
<1> QED
    BY <1>1 DEF read_cycles, reset_cycle_counter

(* Which access is next, by how many there are to come                     *)
LEMMA CounterAhead ==
    ASSUME NEW p
    PROVE  /\ Remaining(read_cycles, 3, p) =>
                  Len(p) = 3 /\ Head(p) = Load(HIGH) /\ Remaining(read_cycles, 2, Tail(p))
           /\ Remaining(read_cycles, 2, p) =>
                  Len(p) = 2 /\ Head(p) = Load(LOW) /\ Remaining(read_cycles, 1, Tail(p))
           /\ Remaining(read_cycles, 1, p) => Len(p) = 1 /\ Head(p) = Load(HIGH)
           /\ Remaining(reset_cycle_counter, 1, p) => Len(p) = 1 /\ Head(p) = Store(LOW, {})
<1> USE CounterPlans
<1>1. ASSUME Remaining(read_cycles, 3, p)
      PROVE  Len(p) = 3 /\ Head(p) = Load(HIGH) /\ Remaining(read_cycles, 2, Tail(p))
    <2>1. 3 \in 1 .. Len(read_cycles) /\ Len(read_cycles) - 3 + 1 = 1 /\ 3 - 1 = 2
        OBVIOUS
    <2>2. /\ Len(p) = 3 /\ Head(p) = read_cycles[Len(read_cycles) - 3 + 1]
          /\ Remaining(read_cycles, 3 - 1, Tail(p))
        <3>1. PICK s, n : s = read_cycles /\ n = 3
            OBVIOUS
        <3>2. /\ Len(p) = n /\ Head(p) = s[Len(s) - n + 1]
              /\ Remaining(s, n - 1, Tail(p))
            <4>1. s \in Seq(Accesses) /\ n \in 1 .. Len(s) /\ Remaining(s, n, p)
                BY <1>1, <2>1, <3>1
            <4> QED
                BY <4>1, Ahead
        <3> QED
            BY <3>1, <3>2
    <2> QED
        BY <2>1, <2>2
<1>2. ASSUME Remaining(read_cycles, 2, p)
      PROVE  Len(p) = 2 /\ Head(p) = Load(LOW) /\ Remaining(read_cycles, 1, Tail(p))
    <2>1. 2 \in 1 .. Len(read_cycles) /\ Len(read_cycles) - 2 + 1 = 2 /\ 2 - 1 = 1
        OBVIOUS
    <2>2. /\ Len(p) = 2 /\ Head(p) = read_cycles[Len(read_cycles) - 2 + 1]
          /\ Remaining(read_cycles, 2 - 1, Tail(p))
        <3>1. PICK s, n : s = read_cycles /\ n = 2
            OBVIOUS
        <3>2. /\ Len(p) = n /\ Head(p) = s[Len(s) - n + 1]
              /\ Remaining(s, n - 1, Tail(p))
            <4>1. s \in Seq(Accesses) /\ n \in 1 .. Len(s) /\ Remaining(s, n, p)
                BY <1>2, <2>1, <3>1
            <4> QED
                BY <4>1, Ahead
        <3> QED
            BY <3>1, <3>2
    <2> QED
        BY <2>1, <2>2
<1>3. ASSUME Remaining(read_cycles, 1, p) PROVE Len(p) = 1 /\ Head(p) = Load(HIGH)
    <2>1. 1 \in 1 .. Len(read_cycles) /\ Len(read_cycles) - 1 + 1 = 3
        OBVIOUS
    <2>2. Len(p) = 1 /\ Head(p) = read_cycles[Len(read_cycles) - 1 + 1]
        <3>1. PICK s, n : s = read_cycles /\ n = 1
            OBVIOUS
        <3>2. /\ Len(p) = n /\ Head(p) = s[Len(s) - n + 1]
              /\ Remaining(s, n - 1, Tail(p))
            <4>1. s \in Seq(Accesses) /\ n \in 1 .. Len(s) /\ Remaining(s, n, p)
                BY <1>3, <2>1, <3>1
            <4> QED
                BY <4>1, Ahead
        <3> QED
            BY <3>1, <3>2
    <2> QED
        BY <2>1, <2>2
<1>4. ASSUME Remaining(reset_cycle_counter, 1, p) PROVE Len(p) = 1 /\ Head(p) = Store(LOW, {})
    <2>1. 1 \in 1 .. Len(reset_cycle_counter) /\ Len(reset_cycle_counter) - 1 + 1 = 1
        OBVIOUS
    <2>2. Len(p) = 1 /\ Head(p) = reset_cycle_counter[Len(reset_cycle_counter) - 1 + 1]
        <3>1. PICK s, n : s = reset_cycle_counter /\ n = 1
            OBVIOUS
        <3>2. /\ Len(p) = n /\ Head(p) = s[Len(s) - n + 1]
              /\ Remaining(s, n - 1, Tail(p))
            <4>1. s \in Seq(Accesses) /\ n \in 1 .. Len(s) /\ Remaining(s, n, p)
                BY <1>4, <2>1, <3>1
            <4> QED
                BY <4>1, Ahead
        <3> QED
            BY <3>1, <3>2
    <2> QED
        BY <2>1, <2>2
<1> QED
    BY <1>1, <1>2, <1>3, <1>4

(* A sequence with one more element                                        *)
LEMMA Appended ==
    ASSUME NEW S, NEW l \in Seq(S), NEW x \in S
    PROVE  /\ Append(l, x) \in Seq(S) /\ Len(Append(l, x)) = Len(l) + 1
           /\ \A i \in 1 .. Len(l) : Append(l, x)[i] = l[i]
           /\ Append(l, x)[Len(l) + 1] = x
    OBVIOUS

(* At the beginning all accesses are to come.                              *)
LEMMA WholePlan ==
    ASSUME NEW s \in Seq(Accesses)
    PROVE  Remaining(s, Len(s), s)
    BY DEF Remaining

(* The counter counts, or is set to zero by a store.                       *)
LEMMA Counts ==
    ASSUME counter \in 0 .. Turn - 1, ClockCounter
    PROVE  /\ counter' \in 0 .. Turn - 1
           /\ ~InMem \/ Head(plan).kind # "store" => counter' = (counter + 1) % Turn
<1>1. PICK u \in Nat \ {0} : u = Turn
    BY Timing
<1>2. (counter + 1) % u \in 0 .. u - 1 /\ 0 \in 0 .. u - 1
    <2>1. counter + 1 \in Nat
        BY <1>1
    <2> QED
        BY <2>1, Divides
<1>3. ~InMem \/ Head(plan).kind # "store" => counter' = (counter + 1) % Turn
    BY OnlyStoresWrite DEF ClockCounter
<1>4. counter' = 0 \/ counter' = (counter + 1) % Turn
    BY DEF ClockCounter
<1> QED
    BY <1>1, <1>2, <1>3, <1>4

-----------------------------------------------------------------------------
(* The steps of a program that uses the counter.                           *)

(* No access takes longer than a span.                                     *)
LEMMA WaitedInRange ==
    ASSUME gap \in 0 .. MaxOther, held \in 0 .. MaxHold
    PROVE  Waited \in Int /\ Waited <= Span
    BY Timing DEF Waited, Span

(* A cycle in which the driver waits                                       *)
LEMMA CounterWaits ==
    ASSUME device = "cycle", CounterInv, device' = device, ClockCounter, Other \/ Hold
    PROVE  CounterInv'
<1>1. CounterType /\ call # None /\ answer = None
    <2>1. CounterType /\ (call = None => plan = << >>) /\ (call # None => answer = None)
        BY DEF CounterInv
    <2> QED
        BY <2>1 DEF Other, Hold, InMem
<1>2. UNCHANGED <<call, plan, loaded, answer, began>>
    BY DEF Other, Hold
<1>3. ~InMem \/ Head(plan).kind # "store"
    <2>1. CASE Other
        <3>1. gap \in 0 .. MaxOther /\ gap > 0
            BY <1>1, <2>1 DEF CounterType, Other
        <3>2. gap # 0
            BY <3>1, Timing
        <3> QED
            BY <3>2 DEF InMem
    <2> QED
        BY <2>1 DEF Hold
<1>4. counter \in 0 .. Turn - 1 /\ counter' \in 0 .. Turn - 1 /\ counter' = (counter + 1) % Turn
    BY <1>1, <1>3, Counts DEF CounterType
<1>5. gap' \in 0 .. MaxOther /\ held' \in 0 .. MaxHold /\ Waited' = Waited + 1
    <2>1. PICK g \in 0 .. MaxOther, h \in 0 .. MaxHold : g = gap /\ h = held
        BY <1>1 DEF CounterType
    <2>2. CASE Other
        <3>1. g > 0 /\ gap' = g - 1 /\ held' = h
            BY <2>1, <2>2 DEF Other
        <3> QED
            BY <2>1, <3>1, Timing DEF Waited
    <2>3. CASE Hold
        <3>1. gap' = g /\ h < MaxHold /\ held' = h + 1
            BY <2>1, <2>3 DEF Hold
        <3> QED
            BY <2>1, <3>1, Timing DEF Waited
    <2> QED
        BY <2>2, <2>3
<1>6. CounterType'
    BY <1>1, <1>2, <1>4, <1>5 DEF CounterType
<1>7. call = <<"reset">> => Remaining(reset_cycle_counter, 1, plan)
    BY DEF CounterInv
<1>8. ASSUME call = <<"read">> PROVE Reading'
    <2>1. PICK now \in began .. began + Turn - 1 :
              counter = now % Turn /\ Progress(began, Waited, plan, loaded, now)
        BY <1>8 DEF CounterInv, Reading
    <2>2. Waited \in Int /\ Waited <= Span
        BY <1>1, WaitedInRange DEF CounterType
    <2>3. began \in Nat /\ now \in Nat
        BY <1>1, Timing DEF CounterType
    <2>4. /\ now + 1 \in began .. began + Turn - 1
          /\ Progress(began, Waited + 1, plan, loaded, now + 1)
        <3>1. PICK b0, w : b0 = began /\ w = Waited
            OBVIOUS
        <3> QED
            BY <2>1, <2>2, <2>3, <3>1, WaitOn
    <2>5. counter' = (now + 1) % Turn
        BY <1>4, <2>1, <2>3, CountOn, Timing
    <2>6. began' = began /\ plan' = plan /\ loaded' = loaded
        BY <1>2
    <2> QED
        BY <1>5, <2>4, <2>5, <2>6 DEF Reading
<1>9. answer' = None /\ call' = call /\ plan' = plan
    BY <1>1, <1>2
<1>10. ReadIsAMoment'
    BY <1>9 DEF ReadIsAMoment
<1> QED
    BY <1>1, <1>6, <1>7, <1>8, <1>9, <1>10 DEF CounterInv

(* A call of the counter begins.                                           *)
LEMMA CounterCalls ==
    ASSUME device = "cycle", CounterInv, device' = device, ClockCounter, CallCounter
    PROVE  CounterInv'
<1>1. CounterType /\ plan = << >>
    BY DEF CounterInv, CallCounter, Call
<1>2. /\ call' \in {<<"read">>, <<"reset">>} /\ gap' \in 0 .. MaxOther /\ held' = 1
      /\ loaded' = << >> /\ answer' = None /\ began' = counter
      /\ call' = <<"read">> => plan' = read_cycles
      /\ call' = <<"reset">> => plan' = reset_cycle_counter
    BY DEF CallCounter, Call
<1>3. counter \in 0 .. Turn - 1 /\ counter' \in 0 .. Turn - 1 /\ counter' = (counter + 1) % Turn
    <2>1. ~InMem
        BY <1>1 DEF InMem
    <2> QED
        BY <1>1, <2>1, Counts DEF CounterType
<1>4. held' \in 0 .. MaxHold /\ Waited' \in Int /\ 1 <= Waited'
    <2>1. PICK g \in 0 .. MaxOther : g = gap'
        BY <1>2
    <2>2. Waited' = MaxOther - g + 1
        BY <1>2, <2>1 DEF Waited
    <2>3. MaxOther - g + 1 \in Nat \ {0}
        BY Timing
    <2> QED
        BY <1>2, <2>2, <2>3, Timing
<1>5. CounterType'
    BY <1>2, <1>3, <1>4 DEF CounterType
<1>6. ASSUME call' = <<"read">> PROVE Reading'
    <2>1. PICK n \in Nat : n = counter /\ n + 1 \in n .. n + Turn - 1
        BY <1>3, Timing
    <2>2. Remaining(read_cycles, 3, plan')
        BY <1>2, <1>6, CounterPlans, WholePlan
    <2>3. FirstLoad(n, Waited', n + 1)
        BY <1>4 DEF FirstLoad
    <2>4. loaded' \in Seq(Nat) /\ Len(loaded') = 0
        BY <1>2
    <2>5. Progress(n, Waited', plan', loaded', n + 1)
        BY <2>2, <2>3, <2>4 DEF Progress
    <2>6. began' = n /\ counter' = (n + 1) % Turn
        BY <1>2, <1>3, <2>1
    <2> QED
        BY <2>1, <2>5, <2>6 DEF Reading
<1>7. call' = <<"reset">> => Remaining(reset_cycle_counter, 1, plan')
    BY <1>2, CounterPlans, WholePlan
<1>8. ReadIsAMoment'
    BY <1>2 DEF ReadIsAMoment
<1>9. call' # None
    BY <1>2, CallAssumption
<1> QED
    BY <1>2, <1>5, <1>6, <1>7, <1>8, <1>9 DEF CounterInv

(* An access leaves MEM, perhaps the last of an iteration.                 *)
LEMMA CounterProceeds ==
    ASSUME device = "cycle", CounterInv, device' = device, ClockCounter, Proceed
    PROVE  CounterInv'
<1>1. CounterType /\ call # None /\ answer = None
    <2>1. CounterType /\ (call = None => plan = << >>) /\ (call # None => answer = None)
        BY DEF CounterInv
    <2> QED
        BY <2>1 DEF Proceed, MayLeave, InMem
<1>2. UNCHANGED began /\ held' = 1
    BY DEF Proceed
<1>3. gap' \in 0 .. MaxOther
    <2>1. gap' \in {0} \/ gap' \in 1 .. MaxOther \/ gap' \in 0 .. MaxOther
        BY DEF Proceed
    <2> QED
        BY <2>1, Timing
<1>4. held' \in 0 .. MaxHold /\ Waited' \in Nat \ {0}
    <2>1. PICK g \in 0 .. MaxOther : g = gap'
        BY <1>3
    <2>2. Waited' = MaxOther - g + 1
        BY <1>2, <2>1 DEF Waited
    <2>3. MaxOther - g + 1 \in Nat \ {0}
        BY Timing
    <2> QED
        BY <1>2, <2>2, <2>3, Timing
<1>5. counter' \in 0 .. Turn - 1 /\ began' \in 0 .. Turn - 1
    BY <1>1, <1>2, Counts DEF CounterType
<1>6. CASE call = <<"reset">>
    <2>1. Remaining(reset_cycle_counter, 1, plan)
        BY <1>6 DEF CounterInv
    <2>2. Len(plan) = 1 /\ Head(plan) = Store(LOW, {})
        BY <2>1, CounterAhead
    <2>3. <<"reset">> # <<"read">>
        OBVIOUS
    <2>4. \A l : ~again(l)
        BY <1>6, <2>3 DEF again
    <2>5. plan' = << >> /\ call' = None /\ answer'.call = <<"reset">>
        <3>1. ~(Len(plan) > 1)
            BY <2>2
        <3> QED
            BY <1>6, <2>4, <3>1 DEF Proceed
    <2>6. call' \in {None, <<"read">>, <<"reset">>}
        BY <2>5
    <2>7. ReadIsAMoment'
        BY <2>3, <2>5 DEF ReadIsAMoment
    <2>8. CounterType'
        BY <1>3, <1>4, <1>5, <2>6 DEF CounterType
    <2> QED
        BY <2>5, <2>7, <2>8, CallAssumption DEF CounterInv
<1>7. CASE call = <<"read">>
    <2>1. PICK now \in began .. began + Turn - 1 :
              counter = now % Turn /\ Progress(began, Waited, plan, loaded, now)
        BY <1>7 DEF CounterInv, Reading
    <2>2. PICK start \in 0 .. Turn - 1 : start = began
        BY <1>1 DEF CounterType
    <2>3. PICK w \in Int : w = Waited /\ w <= Span
        BY <1>1, WaitedInRange DEF CounterType
    <2>4. PICK v \in Nat \ {0} : v = Waited'
        BY <1>4
    <2>5. start \in Nat /\ now \in Nat /\ now \in start .. start + Turn - 1
        BY <2>1, <2>2, Timing
    <2>6. now + 1 \in start .. start + Turn - 1
        BY <2>1, <2>2, <2>3, <2>5, WaitOn
    <2>7. Hi(now) = ReadData(HIGH) /\ Lo(now) = ReadData(LOW) /\ Hi(now) \in Nat /\ Lo(now) \in Nat
        <3>1. Hi(now) = ReadData(HIGH) /\ Lo(now) = ReadData(LOW)
            BY <2>1, ReadsCounter DEF Hi, Lo
        <3>2. PICK t \in Nat \ {0}, u \in Nat \ {0} : t = Half /\ u = Turn
            BY Timing
        <3>3. now % u \in Nat
            BY <2>5, Divides
        <3>4. (now % u) \div t \in Nat /\ (now % u) % t \in Nat
            <4>1. PICK n \in Nat : n = now % u
                BY <3>3
            <4>2. n \div t \in Nat /\ n % t \in Nat
                BY Divides
            <4> QED
                BY <4>1, <4>2
        <3> QED
            BY <3>1, <3>2, <3>4 DEF Hi, Lo
    <2>8. ASSUME ~InMem \/ Head(plan).kind # "store" PROVE counter' = (now + 1) % Turn
        <3>1. counter' = (counter + 1) % Turn
            BY <1>1, <2>8, Counts DEF CounterType
        <3> QED
            BY <2>1, <2>5, <3>1, CountOn, Timing
    <2>9. loaded \in Seq(Nat)
        BY <2>1 DEF Progress
    <2>10. ASSUME Progress(start, v, plan', loaded', now + 1), counter' = (now + 1) % Turn,
                  call' = call, answer' = answer
           PROVE  CounterInv'
        <3>1. Reading'
            BY <1>2, <2>2, <2>4, <2>6, <2>10 DEF Reading
        <3>2. CounterType'
            BY <1>1, <1>3, <1>4, <1>5, <2>10 DEF CounterType
        <3>3. ReadIsAMoment' /\ answer' = None
            BY <1>1, <2>10 DEF ReadIsAMoment
        <3> QED
            BY <1>1, <1>7, <2>10, <3>1, <3>2, <3>3 DEF CounterInv
    <2>11. CASE Remaining(read_cycles, 3, plan) /\ Len(loaded) = 0 /\ FirstLoad(start, w, now)
        <3>1. /\ Len(plan) = 3 /\ Head(plan) = Load(HIGH)
              /\ Remaining(read_cycles, 2, Tail(plan))
            BY <2>11, CounterAhead
        <3>2. /\ plan' = Tail(plan) /\ loaded' = Append(loaded, ReadData(HIGH))
              /\ call' = call /\ answer' = answer
            BY <3>1, Kinds DEF Proceed
        <3>3. loaded' \in Seq(Nat) /\ Len(loaded') = 1 /\ loaded'[1] = Hi(now)
            BY <2>7, <2>9, <2>11, <3>2
        <3>4. SecondLoad(start, v, loaded', now + 1)
            <4>1. PICK k : k = loaded'
                OBVIOUS
            <4> QED
                BY <2>3, <2>5, <2>11, <3>3, <4>1, LoadFirst
        <3>5. Progress(start, v, plan', loaded', now + 1)
            BY <3>1, <3>2, <3>3, <3>4 DEF Progress
        <3> QED
            BY <2>8, <2>10, <3>1, <3>2, <3>5, Kinds
    <2>12. CASE Remaining(read_cycles, 2, plan) /\ Len(loaded) = 1 /\ SecondLoad(start, w, loaded, now)
        <3>1. /\ Len(plan) = 2 /\ Head(plan) = Load(LOW)
              /\ Remaining(read_cycles, 1, Tail(plan))
            BY <2>12, CounterAhead
        <3>2. /\ plan' = Tail(plan) /\ loaded' = Append(loaded, ReadData(LOW))
              /\ call' = call /\ answer' = answer
            BY <3>1, Kinds DEF Proceed
        <3>3. /\ loaded' \in Seq(Nat) /\ Len(loaded') = 2
              /\ loaded'[1] = loaded[1] /\ loaded'[2] = Lo(now)
            <4>1. 1 \in 1 .. Len(loaded) /\ Len(loaded) + 1 = 2
                BY <2>12
            <4> QED
                BY <2>7, <2>9, <3>2, <4>1, Appended
        <3>4. ThirdLoad(start, v, loaded', now + 1)
            <4>1. PICK k, l : k = loaded' /\ l = loaded
                OBVIOUS
            <4> QED
                BY <2>3, <2>5, <2>12, <3>3, <4>1, LoadSecond
        <3>5. Progress(start, v, plan', loaded', now + 1)
            BY <3>1, <3>2, <3>3, <3>4 DEF Progress
        <3> QED
            BY <2>8, <2>10, <3>1, <3>2, <3>5, Kinds
    <2>13. CASE Remaining(read_cycles, 1, plan) /\ Len(loaded) = 2 /\ ThirdLoad(start, w, loaded, now)
        <3>1. Len(plan) = 1 /\ Head(plan) = Load(HIGH) /\ Head(plan).kind = "load"
            BY <2>13, CounterAhead, Kinds
        <3>2. counter' = (now + 1) % Turn
            BY <2>8, <3>1
        <3> DEFINE l == Append(loaded, ReadData(HIGH))
        <3>3. l[1] = loaded[1] /\ l[2] = loaded[2] /\ l[3] = Hi(now)
            <4>1. {1, 2} \subseteq 1 .. Len(loaded) /\ Len(loaded) + 1 = 3
                BY <2>13
            <4> QED
                BY <2>7, <2>9, <4>1, Appended
        <3>4. IF again(l)
              THEN plan' = read_cycles /\ loaded' = << >> /\ UNCHANGED <<call, answer>>
              ELSE /\ plan' = << >> /\ loaded' = << >> /\ call' = None
                   /\ answer' = [call |-> call, value |-> Returned(l)]
            <4>1. ~(Len(plan) > 1) /\ Head(plan).reg = HIGH
                BY <3>1, Kinds
            <4> QED
                BY <3>1, <4>1, Zenon DEF Proceed
        <3>5. again(l) <=> loaded[1] # Hi(now)
            BY <1>7, <3>3 DEF again
        <3>6. /\ Hi(now) # loaded[1] => FirstLoad(start, v, now + 1)
              /\ Hi(now) = loaded[1] =>
                    ((loaded[1] * Half + loaded[2]) - start) % Turn
                        <= (((now + 1) % Turn) - start) % Turn
            <4>1. PICK k : k = loaded
                OBVIOUS
            <4> QED
                BY <2>3, <2>5, <2>6, <2>13, <4>1, LoadThird
        <3>7. CASE again(l)
            <4>1. plan' = read_cycles /\ loaded' = << >> /\ UNCHANGED <<call, answer>>
                BY <3>4, <3>7
            <4>2. FirstLoad(start, v, now + 1)
                BY <3>5, <3>6, <3>7
            <4>3. Remaining(read_cycles, 3, plan')
                BY <4>1, CounterPlans, WholePlan
            <4>4. loaded' \in Seq(Nat) /\ Len(loaded') = 0
                BY <4>1
            <4>5. Progress(start, v, plan', loaded', now + 1)
                BY <4>2, <4>3, <4>4 DEF Progress
            <4> QED
                BY <2>10, <3>2, <4>1, <4>5
        <3>8. CASE ~again(l)
            <4>1. plan' = << >> /\ call' = None /\ answer'.value = Returned(l)
                BY <3>4, <3>8
            <4>2. Returned(l) = l[1] * 2^HALF + l[2]
                BY <1>7, Zenon DEF Returned
            <4>3. answer'.value = loaded[1] * Half + loaded[2]
                BY <3>3, <4>1, <4>2 DEF Half
            <4>4. (answer'.value - began') % Turn <= (counter' - began') % Turn
                BY <1>2, <2>2, <3>2, <3>5, <3>6, <3>8, <4>3
            <4>5. ReadIsAMoment'
                BY <4>4 DEF ReadIsAMoment
            <4>6. CounterType'
                BY <1>3, <1>4, <1>5, <4>1 DEF CounterType
            <4> QED
                BY <4>1, <4>5, <4>6, CallAssumption DEF CounterInv
        <3> QED
            BY <3>7, <3>8
    <2> QED
        BY <2>1, <2>2, <2>3, <2>11, <2>12, <2>13 DEF Progress
<1> QED
    BY <1>1, <1>6, <1>7 DEF CounterType

(* No loop of the counter's drivers waits for a bit.                       *)
LEMMA CounterNeverPolls == device = "cycle" /\ CounterInv => ~PollAgain
<1> SUFFICES ASSUME device = "cycle", CounterInv, PollAgain PROVE FALSE
    OBVIOUS
<1>1. plan # << >> /\ Head(plan).kind = "poll"
    BY DEF PollAgain, MayLeave, InMem
<1>2. call # None /\ call \in {None, <<"read">>, <<"reset">>}
    BY <1>1 DEF CounterInv, CounterType
<1>3. \/ Remaining(reset_cycle_counter, 1, plan)
      \/ Remaining(read_cycles, 3, plan)
      \/ Remaining(read_cycles, 2, plan)
      \/ Remaining(read_cycles, 1, plan)
    BY <1>2 DEF CounterInv, Reading, Progress
<1>4. Head(plan) \in {Load(HIGH), Load(LOW), Store(LOW, {})}
    BY <1>3, CounterAhead
<1> QED
    BY <1>1, <1>4, Kinds

(***************************************************************************)
(* The time of a call of read_cycles is accounted for, however often the   *)
(* upper half moves between its loads (cycle_counter.c, cycle_counter.vhd).*)
(***************************************************************************)
THEOREM CounterInvariance == Spec => []CounterInv
<1>1. Init => CounterInv
    <2> SUFFICES ASSUME Init, device = "cycle" PROVE CounterInv
        BY DEF CounterInv
    <2>1. /\ counter \in Starts /\ call = None /\ plan = << >> /\ gap = 0 /\ held = 0
          /\ answer = None /\ began = 0
        BY DEF Init
    <2>2. CounterType
        BY <2>1, CallAssumption, Timing DEF CounterType
    <2> QED
        BY <2>1, <2>2, CallAssumption DEF CounterInv, ReadIsAMoment
<1>2. CounterInv /\ [Next]_vars => CounterInv'
    <2> SUFFICES ASSUME CounterInv, [Next]_vars PROVE CounterInv'
        OBVIOUS
    <2>1. CASE UNCHANGED vars
        BY <2>1 DEF vars, countVars, driverVars, CounterInv, CounterType, Reading, Waited,
                    ReadIsAMoment
    <2>2. CASE device # "cycle"
        <3>1. device' = device
            BY DEF Next, SoftField, SoftMultiplier, Answered, vars
        <3> QED
            BY <2>2, <3>1 DEF CounterInv
    <2>3. CASE device = "cycle" /\ Next
        <3>1. device' = device /\ ClockCounter /\ Instructions
            BY <2>3 DEF Next, SoftField, SoftMultiplier, Answered, ClockDevices
        <3>2. ~CallField /\ ~CallMultiplier /\ ~CallSeed /\ ~Work
            BY <2>3 DEF CallField, CallMultiplier, CallSeed, Call, Work
        <3>3. CallCounter \/ Other \/ Hold \/ Proceed
            BY <2>3, <3>1, <3>2, CounterNeverPolls DEF Instructions
        <3> QED
            BY <2>3, <3>1, <3>3, CounterCalls, CounterWaits, CounterProceeds
    <2> QED
        BY <2>1, <2>2, <2>3
<1> QED
    BY <1>1, <1>2, PTL DEF Spec

-----------------------------------------------------------------------------
(* The accesses of init_seed.                                              *)

(* The elements of two sequences put together                              *)
LEMMA Joined ==
    ASSUME NEW S, NEW s \in Seq(S), NEW t \in Seq(S)
    PROVE  /\ s \o t \in Seq(S) /\ Len(s \o t) = Len(s) + Len(t)
           /\ \A i \in 1 .. Len(s) : (s \o t)[i] = s[i]
           /\ \A i \in 1 .. Len(t) : (s \o t)[Len(s) + i] = t[i]
<1>1. PICK m \in Nat, n \in Nat : m = Len(s) /\ n = Len(t)
    OBVIOUS
<1>2. /\ s \o t \in Seq(S) /\ Len(s \o t) = m + n
      /\ \A i \in 1 .. m + n : (s \o t)[i] = IF i <= m THEN s[i] ELSE t[i - m]
    BY <1>1, ConcatProperties
<1>3. ASSUME NEW i \in 1 .. m PROVE (s \o t)[i] = s[i]
    <2>1. i \in 1 .. m + n /\ i <= m
        OBVIOUS
    <2> QED
        BY <1>2, <2>1
<1>4. ASSUME NEW i \in 1 .. n PROVE (s \o t)[m + i] = t[i]
    <2>1. m + i \in 1 .. m + n /\ ~(m + i <= m) /\ (m + i) - m = i
        OBVIOUS
    <2> QED
        BY <1>2, <2>1
<1> QED
    BY <1>1, <1>2, <1>3, <1>4

(* The accesses of init_seed by position                                   *)
LEMMA SeedPlan ==
    /\ SeedLength \in Nat /\ 4 <= SeedLength
    /\ init_seed \in Seq(Accesses) /\ Len(init_seed) = SeedLength
    /\ init_seed[1] = Load(STATUS) /\ init_seed[2] = Store(STATUS, {0})
    /\ \A p \in 3 .. SeedLength - 2 :
          init_seed[p] = IF p % 2 = 1 THEN Poll(STATUS, 1, TRUE) ELSE Load(DATA)
    /\ init_seed[SeedLength - 1] = Load(STATUS) /\ init_seed[SeedLength] = Store(STATUS, {})
<1> DEFINE first == trng_init
           middle == trng_get_bytes(SEED_LEN)
           last == trng_stop
<1>1. SEED_LEN \in Nat
    BY CallAssumption
<1>2. /\ Load(STATUS) \in Accesses /\ Load(DATA) \in Accesses /\ Poll(STATUS, 1, TRUE) \in Accesses
      /\ Store(STATUS, {0}) \in Accesses /\ Store(STATUS, {}) \in Accesses
    BY DEF Accesses, STATUS, DATA
<1>3. /\ first \in Seq(Accesses) /\ Len(first) = 2
      /\ first[1] = Load(STATUS) /\ first[2] = Store(STATUS, {0})
    BY <1>2 DEF trng_init
<1>4. /\ last \in Seq(Accesses) /\ Len(last) = 2
      /\ last[1] = Load(STATUS) /\ last[2] = Store(STATUS, {})
    BY <1>2 DEF trng_stop
<1>5. trng_get_byte[1] = Poll(STATUS, 1, TRUE) /\ trng_get_byte[2] = Load(DATA)
    BY DEF trng_get_byte
<1>6. /\ middle \in Seq(Accesses) /\ Len(middle) = 2 * SEED_LEN
      /\ \A i \in 1 .. 2 * SEED_LEN :
            middle[i] = IF i % 2 = 1 THEN Poll(STATUS, 1, TRUE) ELSE Load(DATA)
    <2>1. middle = [i \in 1 .. 2 * SEED_LEN |->
                       IF i % 2 = 1 THEN Poll(STATUS, 1, TRUE) ELSE Load(DATA)]
        BY <1>5 DEF trng_get_bytes
    <2>2. 2 * SEED_LEN \in Nat
        BY <1>1
    <2> DEFINE e(i) == IF i % 2 = 1 THEN Poll(STATUS, 1, TRUE) ELSE Load(DATA)
    <2>3. \A i \in 1 .. 2 * SEED_LEN : e(i) \in Accesses
        BY <1>2
    <2>4. PICK n \in Nat : n = 2 * SEED_LEN
        BY <2>2
    <2>5. middle = [i \in 1 .. n |-> e(i)] /\ \A i \in 1 .. n : e(i) \in Accesses
        BY <2>1, <2>3, <2>4
    <2> HIDE DEF middle, e
    <2>6. middle \in Seq(Accesses) /\ Len(middle) = n /\ \A i \in 1 .. n : middle[i] = e(i)
        BY <2>5
    <2> QED
        BY <2>4, <2>6 DEF e
<1> HIDE DEF first, middle, last
<1> DEFINE s == first \o middle
<1>7. /\ s \in Seq(Accesses) /\ Len(s) = 2 + 2 * SEED_LEN
      /\ s[1] = Load(STATUS) /\ s[2] = Store(STATUS, {0})
      /\ \A i \in 1 .. 2 * SEED_LEN : s[2 + i] = middle[i]
    <2>1. PICK n \in Nat : n = 2 * SEED_LEN
        BY <1>1
    <2>2. /\ s \in Seq(Accesses) /\ Len(s) = 2 + n
          /\ \A i \in 1 .. 2 : s[i] = first[i]
          /\ \A i \in 1 .. n : s[2 + i] = middle[i]
        <3>1. PICK f, g, k : f = first /\ g = middle /\ k = 2
            OBVIOUS
        <3>2. /\ f \in Seq(Accesses) /\ g \in Seq(Accesses) /\ k \in Nat
              /\ Len(f) = k /\ Len(g) = n
            BY <1>3, <1>6, <2>1, <3>1
        <3>3. /\ f \o g \in Seq(Accesses) /\ Len(f \o g) = k + n
              /\ \A i \in 1 .. k : (f \o g)[i] = f[i]
              /\ \A i \in 1 .. n : (f \o g)[k + i] = g[i]
            <4>1. /\ f \o g \in Seq(Accesses) /\ Len(f \o g) = Len(f) + Len(g)
                  /\ \A i \in 1 .. Len(f) : (f \o g)[i] = f[i]
                  /\ \A i \in 1 .. Len(g) : (f \o g)[Len(f) + i] = g[i]
                <5>1. f \in Seq(Accesses) /\ g \in Seq(Accesses)
                    BY <3>2
                <5> QED
                    BY <5>1, Joined
            <4> QED
                BY <3>2, <4>1
        <3> QED
            BY <3>1, <3>3
    <2>3. 1 \in 1 .. 2 /\ 2 \in 1 .. 2
        OBVIOUS
    <2> HIDE DEF s
    <2> QED
        BY <1>3, <2>1, <2>2, <2>3
<1>8. init_seed = s \o last
    BY DEF init_seed, first, middle, last
<1> HIDE DEF s
<1>9. /\ init_seed \in Seq(Accesses) /\ Len(init_seed) = SeedLength
      /\ \A p \in 1 .. 2 + 2 * SEED_LEN : init_seed[p] = s[p]
      /\ init_seed[SeedLength - 1] = last[1] /\ init_seed[SeedLength] = last[2]
    <2>1. PICK m \in Nat : m = 2 + 2 * SEED_LEN
        BY <1>1
    <2>2. /\ init_seed \in Seq(Accesses) /\ Len(init_seed) = m + 2
          /\ \A i \in 1 .. m : init_seed[i] = s[i]
          /\ \A i \in 1 .. 2 : init_seed[m + i] = last[i]
        <3>1. PICK a, l, k : a = s /\ l = last /\ k = 2
            OBVIOUS
        <3>2. /\ a \in Seq(Accesses) /\ l \in Seq(Accesses) /\ k \in Nat
              /\ Len(a) = m /\ Len(l) = k
            BY <1>4, <1>7, <2>1, <3>1
        <3>3. /\ a \o l \in Seq(Accesses) /\ Len(a \o l) = m + k
              /\ \A i \in 1 .. m : (a \o l)[i] = a[i]
              /\ \A i \in 1 .. k : (a \o l)[m + i] = l[i]
            <4>1. /\ a \o l \in Seq(Accesses) /\ Len(a \o l) = Len(a) + Len(l)
                  /\ \A i \in 1 .. Len(a) : (a \o l)[i] = a[i]
                  /\ \A i \in 1 .. Len(l) : (a \o l)[Len(a) + i] = l[i]
                <5>1. a \in Seq(Accesses) /\ l \in Seq(Accesses)
                    BY <3>2
                <5> QED
                    BY <5>1, Joined
            <4> QED
                BY <3>2, <4>1
        <3> QED
            BY <1>8, <3>1, <3>3
    <2>3. 1 \in 1 .. 2 /\ 2 \in 1 .. 2 /\ SeedLength = m + 2 /\ SeedLength - 1 = m + 1
        BY <1>1, <2>1 DEF SeedLength
    <2> QED
        BY <2>1, <2>2, <2>3
<1>10. ASSUME NEW p \in 3 .. SeedLength - 2
       PROVE  init_seed[p] = IF p % 2 = 1 THEN Poll(STATUS, 1, TRUE) ELSE Load(DATA)
    <2>1. p \in 3 .. 2 + 2 * SEED_LEN /\ p - 2 \in 1 .. 2 * SEED_LEN /\ (p - 2) % 2 = p % 2
        BY <1>1 DEF SeedLength
    <2>2. init_seed[p] = s[p]
        BY <1>9, <2>1
    <2>3. PICK i \in 1 .. 2 * SEED_LEN : i = p - 2
        BY <2>1
    <2>4. p = 2 + i
        BY <2>1, <2>3
    <2>5. init_seed[p] = middle[i]
        BY <1>7, <2>2, <2>3, <2>4
    <2> QED
        BY <1>6, <2>1, <2>3, <2>5
<1>11. 1 \in 1 .. 2 + 2 * SEED_LEN /\ 2 \in 1 .. 2 + 2 * SEED_LEN
    BY <1>1
<1>12. SeedLength \in Nat /\ 4 <= SeedLength
    BY <1>1 DEF SeedLength
<1> QED
    BY <1>4, <1>7, <1>9, <1>10, <1>11, <1>12

(* The next access of init_seed is the p-th.                               *)
LEMMA SeedAhead ==
    ASSUME NEW p \in 1 .. SeedLength, NEW a0, Remaining(init_seed, SeedLength - p + 1, a0)
    PROVE  /\ a0 # << >> /\ Len(a0) = SeedLength - p + 1 /\ Head(a0) = init_seed[p]
           /\ Head(a0) \in Accesses /\ Tail(a0) # a0
           /\ Remaining(init_seed, SeedLength - (p + 1) + 1, Tail(a0))
           /\ p = SeedLength => Tail(a0) = << >>
<1>1. PICK s, n : s = init_seed /\ n = SeedLength - p + 1
    OBVIOUS
<1>2. /\ n \in 1 .. Len(s) /\ Len(s) - n + 1 = p /\ n - 1 = SeedLength - (p + 1) + 1
      /\ (p = SeedLength => n = 1)
    BY <1>1, SeedPlan
<1>3. s \in Seq(Accesses) /\ Remaining(s, n, a0)
    BY <1>1, SeedPlan
<1>4. /\ a0 # << >> /\ Len(a0) = n /\ Head(a0) = s[Len(s) - n + 1] /\ Head(a0) \in Accesses
      /\ Tail(a0) # a0 /\ Remaining(s, n - 1, Tail(a0)) /\ (n = 1 => Tail(a0) = << >>)
    BY <1>2, <1>3, Ahead
<1> QED
    BY <1>1, <1>2, <1>4

(* A call keeps what it loaded.                                            *)
LEMMA Collects ==
    ASSUME NEW n \in Nat, NEW l, l = [k \in 1 .. n |-> l[k]], NEW x
    PROVE  /\ Append(l, x) = [k \in 1 .. n + 1 |-> Append(l, x)[k]]
           /\ \A k \in 1 .. n : Append(l, x)[k] = l[k]
           /\ Append(l, x)[n + 1] = x
<1> DEFINE S == {l[k] : k \in 1 .. n} \cup {x}
<1>1. l \in Seq(S) /\ Len(l) = n /\ x \in S
    <2>1. [k \in 1 .. n |-> l[k]] \in Seq(S)
        OBVIOUS
    <2>2. Len([k \in 1 .. n |-> l[k]]) = n
        OBVIOUS
    <2> QED
        BY <2>1, <2>2
<1> HIDE DEF S
<1>2. /\ Append(l, x) \in Seq(S) /\ Len(Append(l, x)) = n + 1
      /\ \A k \in 1 .. n : Append(l, x)[k] = l[k]
      /\ Append(l, x)[n + 1] = x
    BY <1>1, Appended
<1>3. Append(l, x) = [k \in 1 .. n + 1 |-> Append(l, x)[k]]
    <2>1. PICK m \in Seq(S) : m = Append(l, x) /\ Len(m) = n + 1
        BY <1>2
    <2>2. m = [k \in 1 .. n + 1 |-> m[k]]
        BY <2>1
    <2> QED
        BY <2>1, <2>2
<1> QED
    BY <1>2, <1>3

-----------------------------------------------------------------------------
(* The steps of the generator.                                             *)

(* The registers of the generator differ.                                  *)
LEMMA Registers ==
    ASSUME device = "trng", InMem, Head(plan) = Load(DATA)
    PROVE  Reads(Access, "trng", DATA)
<1>1. Access = Read(Address(8, BusNumber["trng"], DATA))
    BY Kinds DEF Access
<1>2. BusNumber["trng"] = 5
    BY DEF BusNumber
<1>3. Selected(Address(8, 5, DATA)) = "trng"
    BY DEF Selected, Address, Devices
<1> QED
    BY <1>1, <1>2, <1>3 DEF Reads, Read, Address

(* One cycle of the generator                                              *)
LEMMA GeneratorStep ==
    ASSUME device = "trng", Capture, flag => byte = "fresh"
    PROVE  /\ flag' => byte' = "fresh"
           /\ byte = "fresh" /\ ~Taken => byte' = "fresh"
<1> DEFINE captured == valid /\ ~flag
<1>1. byte' = IF captured THEN "fresh" ELSE IF Taken THEN "used" ELSE byte
    BY DEF Capture
<1>2. flag' = ((captured \/ flag) /\ ~Reads(Access, "trng", DATA))
    BY DEF Capture
<1>3. Taken => Reads(Access, "trng", DATA)
    BY Registers DEF Taken
<1> QED
    BY <1>1, <1>2, <1>3

(* What a load of the generator gets                                       *)
LEMMA ReadsGenerator ==
    ASSUME device = "trng"
    PROVE  /\ ReadData(DATA) = byte
           /\ 1 \in ReadData(STATUS) => flag
<1>1. STATUS # DATA
    BY DEF STATUS, DATA
<1>2. "trng" # "gf_accel" /\ "trng" # "base_mul" /\ "trng" # "cycle"
    OBVIOUS
<1>3. ReadData(DATA) = byte
    BY <1>1, <1>2, Zenon DEF ReadData
<1>4. ReadData(STATUS) = (IF enable THEN {0} ELSE {}) \cup (IF flag THEN {1} ELSE {})
    BY <1>1, <1>2, Zenon DEF ReadData
<1>5. 1 \notin {0}
    OBVIOUS
<1> QED
    BY <1>3, <1>4, <1>5, Zenon

(* Which loads there are before an access of init_seed, and what precedes  *)
(* a load of the data.                                                     *)
LEMMA SeedOrder ==
    ASSUME NEW p \in 1 .. SeedLength
    PROVE  /\ LoadsBefore(p) \in Nat
           /\ p = SeedLength => LoadsBefore(p) = 2 + SEED_LEN /\ init_seed[p].kind = "store"
           /\ p # SeedLength =>
                 /\ init_seed[p].kind = "load" => LoadsBefore(p + 1) = LoadsBefore(p) + 1
                 /\ init_seed[p].kind # "load" => LoadsBefore(p + 1) = LoadsBefore(p)
                 /\ init_seed[p].kind = "load" /\ LoadsBefore(p) + 1 \in 2 .. 1 + SEED_LEN =>
                       init_seed[p] = Load(DATA)
                 /\ init_seed[p + 1] = Load(DATA) => init_seed[p] = Poll(STATUS, 1, TRUE)
<1> DEFINE L == SEED_LEN
           N == SeedLength
<1>1. L \in Nat /\ N = 4 + 2 * L
    BY CallAssumption DEF SeedLength
<1>2. /\ init_seed[1] = Load(STATUS) /\ init_seed[2] = Store(STATUS, {0})
      /\ \A q \in 3 .. N - 2 :
            init_seed[q] = IF q % 2 = 1 THEN Poll(STATUS, 1, TRUE) ELSE Load(DATA)
      /\ init_seed[N - 1] = Load(STATUS) /\ init_seed[N] = Store(STATUS, {})
    BY SeedPlan
<1>3. Load(STATUS) # Load(DATA) /\ Poll(STATUS, 1, TRUE) # Load(DATA)
    <2>1. Load(STATUS).reg = STATUS /\ Load(DATA).reg = DATA /\ STATUS # DATA
        BY Kinds DEF STATUS, DATA
    <2>2. Poll(STATUS, 1, TRUE).kind = "poll" /\ Load(DATA).kind = "load"
        BY DEF Poll, Load
    <2>3. "poll" # "load"
        OBVIOUS
    <2> QED
        BY <2>1, <2>2, <2>3
<1>4. \A q \in 1 .. N :
          LoadsBefore(q) = IF q = 1 THEN 0 ELSE IF q = 2 THEN 1
                           ELSE IF q = N THEN 2 + L ELSE (q - 1) \div 2
    BY DEF LoadsBefore
<1> HIDE DEF L, N
<1>5. CASE p = 1
    <2>1. p # N /\ p + 1 = 2 /\ 2 \in 1 .. N /\ 1 \in 1 .. N
        BY <1>1, <1>5
    <2>2. LoadsBefore(p) = 0 /\ LoadsBefore(p + 1) = 1
        BY <1>4, <1>5, <2>1
    <2>3. init_seed[p].kind = "load" /\ init_seed[p + 1] # Load(DATA)
        BY <1>2, <1>3, <1>5, <2>1, Kinds
    <2>4. LoadsBefore(p) + 1 \notin 2 .. 1 + L
        BY <2>2
    <2>5. 0 \in Nat /\ 1 = 0 + 1
        OBVIOUS
    <2> QED
        BY <2>1, <2>2, <2>3, <2>4, <2>5 DEF N, L
<1>6. CASE p = 2
    <2>1. p # N /\ p + 1 = 3 /\ 2 \in 1 .. N /\ 3 \in 1 .. N /\ 3 # N /\ (3 - 1) \div 2 = 1
        BY <1>1, <1>6
    <2>2. LoadsBefore(p) = 1 /\ LoadsBefore(p + 1) = 1
        BY <1>4, <1>6, <2>1
    <2>3. init_seed[p].kind = "store"
        BY <1>2, <1>6, Kinds
    <2>4. init_seed[3] # Load(DATA) /\ "store" # "load"
        <3>1. CASE 3 \in 3 .. N - 2
            <4>1. 3 % 2 = 1
                OBVIOUS
            <4>2. init_seed[3] = Poll(STATUS, 1, TRUE)
                BY <1>2, <3>1, <4>1
            <4> QED
                BY <1>3, <4>2
        <3>2. CASE 3 \notin 3 .. N - 2
            <4>1. 3 = N - 1
                BY <1>1, <3>2
            <4> QED
                BY <1>2, <1>3, <4>1
        <3> QED
            BY <3>1, <3>2
    <2>5. init_seed[p + 1] # Load(DATA) /\ init_seed[p].kind # "load"
        BY <2>1, <2>3, <2>4
    <2>6. LoadsBefore(p) \in Nat /\ LoadsBefore(p + 1) = LoadsBefore(p)
        BY <2>2
    <2>7. p # SeedLength
        BY <2>1 DEF N
    <2> QED
        BY <2>5, <2>6, <2>7
<1>7. CASE p \in 3 .. N - 2 /\ p % 2 = 1
    <2>1. /\ p # N /\ p + 1 \in 1 .. N /\ p # 1 /\ p # 2 /\ p + 1 # 1 /\ p + 1 # 2 /\ p + 1 # N
          /\ (p - 1) \div 2 \in Nat /\ ((p + 1) - 1) \div 2 = (p - 1) \div 2
        BY <1>1, <1>7
    <2>2. LoadsBefore(p) = (p - 1) \div 2 /\ LoadsBefore(p + 1) = (p - 1) \div 2
        <3>1. p # N /\ p + 1 # N /\ p # 1 /\ p # 2 /\ p + 1 # 1 /\ p + 1 # 2
            BY <2>1
        <3>2. LoadsBefore(p) = (p - 1) \div 2 /\ LoadsBefore(p + 1) = ((p + 1) - 1) \div 2
            BY <3>1, Zenon DEF LoadsBefore, N
        <3> QED
            BY <2>1, <3>2
    <2>3. init_seed[p] = Poll(STATUS, 1, TRUE) /\ init_seed[p].kind = "poll"
        <3>1. init_seed[p] = Poll(STATUS, 1, TRUE)
            BY <1>2, <1>7
        <3>2. Poll(STATUS, 1, TRUE).kind = "poll"
            BY DEF Poll
        <3> QED
            BY <3>1, <3>2
    <2> QED
        BY <2>1, <2>2, <2>3 DEF N, L
<1>8. CASE p \in 3 .. N - 2 /\ p % 2 # 1
    <2>1. /\ p # N /\ p + 1 \in 1 .. N /\ p # 1 /\ p # 2 /\ p + 1 # 1 /\ p + 1 # 2 /\ p + 1 # N
          /\ (p - 1) \div 2 \in Nat /\ ((p + 1) - 1) \div 2 = (p - 1) \div 2 + 1
        BY <1>1, <1>8
    <2>2. LoadsBefore(p) = (p - 1) \div 2 /\ LoadsBefore(p + 1) = (p - 1) \div 2 + 1
        <3>1. p # N /\ p + 1 # N /\ p # 1 /\ p # 2 /\ p + 1 # 1 /\ p + 1 # 2
            BY <2>1
        <3>2. LoadsBefore(p) = (p - 1) \div 2 /\ LoadsBefore(p + 1) = ((p + 1) - 1) \div 2
            BY <3>1, Zenon DEF LoadsBefore, N
        <3> QED
            BY <2>1, <3>2
    <2>3. init_seed[p] = Load(DATA) /\ init_seed[p].kind = "load"
        BY <1>2, <1>8, Kinds
    <2>4. init_seed[p + 1] # Load(DATA)
        <3>1. CASE p + 1 \in 3 .. N - 2
            <4>1. (p + 1) % 2 = 1
                BY <1>8
            <4>2. init_seed[p + 1] = Poll(STATUS, 1, TRUE)
                BY <1>2, <3>1, <4>1
            <4> QED
                BY <1>3, <4>2
        <3>2. CASE p + 1 \notin 3 .. N - 2
            <4>1. p + 1 = N - 1
                BY <1>1, <1>8, <3>2
            <4> QED
                BY <1>2, <1>3, <4>1
        <3> QED
            BY <3>1, <3>2
    <2> QED
        BY <2>1, <2>2, <2>3, <2>4 DEF N, L
<1>9. CASE p = N - 1
    <2>1. /\ p # N /\ p + 1 = N /\ N \in 1 .. N /\ p # 1 /\ p # 2 /\ N # 1 /\ N # 2
          /\ (p - 1) \div 2 = 1 + L /\ 1 + L \in Nat
        BY <1>1, <1>9
    <2>2. LoadsBefore(p) = 1 + L /\ LoadsBefore(p + 1) = 2 + L
        BY <1>4, <2>1
    <2>3. init_seed[p].kind = "load" /\ init_seed[p + 1] # Load(DATA)
        BY <1>2, <1>3, <1>9, <2>1, Kinds
    <2>4. 2 + L = (1 + L) + 1 /\ (1 + L) + 1 \notin 2 .. 1 + L
        BY <1>1
    <2> QED
        BY <2>1, <2>2, <2>3, <2>4 DEF N, L
<1>10. CASE p = N
    <2>1. p # 1 /\ p # 2 /\ 2 + L \in Nat
        BY <1>1, <1>10
    <2>2. LoadsBefore(p) = 2 + L
        BY <1>4, <1>10, <2>1 DEF N
    <2>3. init_seed[p].kind = "store"
        BY <1>2, <1>10, Kinds
    <2> QED
        BY <1>10, <2>1, <2>2, <2>3 DEF N, L
<1> QED
    <2>1. p \in 1 .. N
        BY DEF N
    <2>2. p = 1 \/ p = 2 \/ p \in 3 .. N - 2 \/ p = N - 1 \/ p = N
        BY <1>1, <2>1
    <2> QED
        BY <1>5, <1>6, <1>7, <1>8, <1>9, <1>10, <2>2

(* Nothing moves on: the driver waits, or polls once more.                 *)
LEMMA GeneratorWaits ==
    ASSUME device = "trng", RandomInv, device' = device, Capture,
           UNCHANGED <<call, plan, loaded, answer>>
    PROVE  RandomInv'
<1>1. flag' => byte' = "fresh"
    BY GeneratorStep DEF RandomInv
<1>2. byte = "fresh" => byte' = "fresh"
    BY GeneratorStep DEF RandomInv, Taken
<1>3. ASSUME NEW p \in 1 .. SeedLength, Seeding(p) PROVE Seeding(p)'
    BY <1>2, <1>3 DEF Seeding
<1>4. call = <<"seed">> => \E p \in 1 .. SeedLength : Seeding(p)'
    BY <1>3 DEF RandomInv
<1>5. BytesAreFresh'
    BY DEF RandomInv, BytesAreFresh
<1> QED
    BY <1>1, <1>4, <1>5 DEF RandomInv

(* init_seed begins.                                                       *)
LEMMA GeneratorCalls ==
    ASSUME device = "trng", RandomInv, device' = device, Capture, CallSeed
    PROVE  RandomInv'
<1>1. flag' => byte' = "fresh"
    BY GeneratorStep DEF RandomInv
<1>2. /\ call' = <<"seed">> /\ plan' = init_seed /\ loaded' = << >> /\ answer' = None
    BY DEF CallSeed, Call
<1>3. call' # None
    BY <1>2, CallAssumption
<1>4. 1 \in 1 .. SeedLength /\ SeedLength - 1 + 1 = SeedLength /\ 1 # SeedLength
    BY SeedPlan
<1>5. Seeding(1)'
    <2>1. Remaining(init_seed, SeedLength - 1 + 1, plan')
        BY <1>2, <1>4, SeedPlan, WholePlan
    <2>2. LoadsBefore(1) = 0
        BY DEF LoadsBefore
    <2>3. \A f : << >> = [k \in 1 .. 0 |-> f[k]]
        OBVIOUS
    <2>4. loaded' = [k \in 1 .. LoadsBefore(1) |-> loaded'[k]]
        BY <1>2, <2>2, <2>3
    <2>5. \A k \in 2 .. 1 + SEED_LEN : ~(k <= LoadsBefore(1))
        BY <2>2, CallAssumption
    <2>6. init_seed[1] # Load(DATA)
        BY SeedPlan, Kinds DEF STATUS, DATA
    <2> QED
        BY <2>1, <2>4, <2>5, <2>6 DEF Seeding
<1>6. BytesAreFresh'
    BY <1>2 DEF BytesAreFresh
<1> QED
    BY <1>1, <1>2, <1>3, <1>4, <1>5, <1>6 DEF RandomInv

(* An access of init_seed leaves MEM.                                      *)
LEMMA GeneratorProceeds ==
    ASSUME device = "trng", RandomInv, device' = device, Capture, Proceed
    PROVE  RandomInv'
<1>1. flag' => byte' = "fresh"
    BY GeneratorStep DEF RandomInv
<1>2. call = <<"seed">> /\ call # None /\ BytesAreFresh
    <2>1. plan # << >>
        BY DEF Proceed, MayLeave, InMem
    <2> QED
        BY <2>1 DEF RandomInv
<1>3. PICK p \in 1 .. SeedLength : Seeding(p)
    BY <1>2 DEF RandomInv
<1>4. /\ Len(plan) = SeedLength - p + 1 /\ Head(plan) = init_seed[p]
      /\ Remaining(init_seed, SeedLength - (p + 1) + 1, Tail(plan))
    BY <1>3, SeedAhead DEF Seeding
<1>5. /\ LoadsBefore(p) \in Nat /\ loaded = [k \in 1 .. LoadsBefore(p) |-> loaded[k]]
      /\ \A k \in 2 .. 1 + SEED_LEN : k <= LoadsBefore(p) => loaded[k] = "fresh"
      /\ init_seed[p] = Load(DATA) => byte = "fresh"
    BY <1>3, SeedOrder DEF Seeding
<1>6. ~again(loaded)
    <2>1. <<"seed">>[1] # <<"read">>[1]
        OBVIOUS
    <2> QED
        BY <1>2, <2>1 DEF again
<1>7. CASE p # SeedLength
    <2>1. p + 1 \in 1 .. SeedLength /\ Len(plan) > 1
        BY <1>4, <1>7, SeedPlan
    <2> DEFINE x == ReadData(Head(plan).reg)
    <2>2. /\ plan' = Tail(plan) /\ UNCHANGED <<call, answer>>
          /\ loaded' = IF Head(plan).kind = "load" THEN Append(loaded, x) ELSE loaded
        BY <2>1 DEF Proceed
    <2>3. /\ init_seed[p].kind = "load" => LoadsBefore(p + 1) = LoadsBefore(p) + 1
          /\ init_seed[p].kind # "load" => LoadsBefore(p + 1) = LoadsBefore(p)
          /\ init_seed[p].kind = "load" /\ LoadsBefore(p) + 1 \in 2 .. 1 + SEED_LEN =>
                init_seed[p] = Load(DATA)
          /\ init_seed[p + 1] = Load(DATA) => init_seed[p] = Poll(STATUS, 1, TRUE)
        BY <1>7, SeedOrder
    <2>4. /\ loaded' = [k \in 1 .. LoadsBefore(p + 1) |-> loaded'[k]]
          /\ \A k \in 2 .. 1 + SEED_LEN : k <= LoadsBefore(p + 1) => loaded'[k] = "fresh"
        <3>1. PICK n \in Nat : n = LoadsBefore(p)
            BY <1>5
        <3>2. CASE Head(plan).kind # "load"
            <4>1. loaded' = loaded /\ LoadsBefore(p + 1) = LoadsBefore(p)
                BY <1>4, <2>2, <2>3, <3>2
            <4> QED
                BY <1>5, <4>1
        <3>3. CASE Head(plan).kind = "load"
            <4>1. loaded' = Append(loaded, x) /\ LoadsBefore(p + 1) = n + 1
                BY <1>4, <2>2, <2>3, <3>1, <3>3
            <4>2. loaded = [k \in 1 .. n |-> loaded[k]]
                BY <1>5, <3>1
            <4> HIDE DEF x
            <4>3. /\ loaded' = [k \in 1 .. n + 1 |-> loaded'[k]]
                  /\ \A k \in 1 .. n : loaded'[k] = loaded[k]
                  /\ loaded'[n + 1] = x
                <5>1. PICK l : l = loaded
                    OBVIOUS
                <5>2. l = [k \in 1 .. n |-> l[k]]
                    BY <4>2, <5>1
                <5>3. /\ Append(l, x) = [k \in 1 .. n + 1 |-> Append(l, x)[k]]
                      /\ \A k \in 1 .. n : Append(l, x)[k] = l[k]
                      /\ Append(l, x)[n + 1] = x
                    BY <5>2, Collects
                <5> QED
                    BY <4>1, <5>1, <5>3
            <4>4. n + 1 \in 2 .. 1 + SEED_LEN => x = "fresh"
                <5>1. SUFFICES ASSUME n + 1 \in 2 .. 1 + SEED_LEN PROVE x = "fresh"
                    OBVIOUS
                <5>2. Head(plan) = Load(DATA)
                    BY <1>4, <2>3, <3>1, <3>3, <5>1
                <5>3. x = byte
                    BY <5>2, ReadsGenerator, Kinds DEF x
                <5> QED
                    BY <1>4, <1>5, <5>2, <5>3
            <4>5. ASSUME NEW k \in 2 .. 1 + SEED_LEN, k <= n + 1 PROVE loaded'[k] = "fresh"
                <5>1. k \in 1 .. n \/ k = n + 1
                    BY <3>1, <4>5, CallAssumption
                <5>2. CASE k \in 1 .. n
                    <6>1. loaded'[k] = loaded[k]
                        BY <4>3, <5>2
                    <6>2. k <= n
                        BY <5>2
                    <6> QED
                        BY <1>5, <3>1, <6>1, <6>2
                <5>3. CASE k = n + 1
                    BY <4>3, <4>4, <5>3
                <5> QED
                    BY <5>1, <5>2, <5>3
            <4> QED
                BY <4>1, <4>3, <4>5
        <3> QED
            BY <3>2, <3>3
    <2>5. init_seed[p + 1] = Load(DATA) => byte' = "fresh"
        <3>1. SUFFICES ASSUME init_seed[p + 1] = Load(DATA) PROVE byte' = "fresh"
            OBVIOUS
        <3>2. Head(plan) = Poll(STATUS, 1, TRUE)
            BY <1>4, <2>3, <3>1
        <3>3. /\ Head(plan).kind = "poll" /\ Head(plan).reg = STATUS
              /\ Head(plan).bit = 1 /\ Head(plan).want = TRUE
            BY <3>2 DEF Poll
        <3>4. (1 \in ReadData(STATUS)) = TRUE
            <4>1. (Head(plan).bit \in ReadData(Head(plan).reg)) = Head(plan).want
                BY <3>3 DEF Proceed
            <4> QED
                BY <3>3, <4>1
        <3>5. flag /\ byte = "fresh"
            BY <3>4, ReadsGenerator DEF RandomInv
        <3>6. ~Taken
            <4>1. Load(DATA).kind = "load" /\ "load" # "poll"
                BY DEF Load
            <4> QED
                BY <3>3, <4>1 DEF Taken
        <3> QED
            BY <3>5, <3>6, GeneratorStep
    <2>6. Seeding(p + 1)'
        BY <1>4, <2>2, <2>4, <2>5 DEF Seeding
    <2>7. BytesAreFresh'
        BY <1>2, <2>2 DEF BytesAreFresh
    <2> QED
        BY <1>1, <1>2, <2>1, <2>2, <2>6, <2>7 DEF RandomInv
<1>8. CASE p = SeedLength
    <2>1. ~(Len(plan) > 1) /\ Head(plan).kind # "load"
        <3>1. Len(plan) = 1
            BY <1>4, <1>8, SeedPlan
        <3>2. init_seed[p].kind = "store" /\ "store" # "load"
            BY <1>8, SeedOrder
        <3>3. ~(1 > 1)
            OBVIOUS
        <3>4. Head(plan).kind # "load"
            BY <1>4, <3>2
        <3> QED
            BY <3>1, <3>3, <3>4
    <2>2. plan' = << >> /\ call' = None /\ answer' = [call |-> call, value |-> Returned(loaded)]
        BY <1>6, <2>1 DEF Proceed
    <2>3. Returned(loaded) = SubSeq(loaded, 2, 1 + SEED_LEN)
        <3>1. /\ "trng" # "gf_accel" /\ "trng" # "base_mul"
              /\ call # <<"read">> /\ call # <<"reset">>
            <4>1. <<"seed">>[1] # <<"read">>[1] /\ <<"seed">>[1] # <<"reset">>[1]
                OBVIOUS
            <4> QED
                BY <1>2, <4>1
        <3> QED
            BY <3>1, Zenon DEF Returned
    <2>4. SubSeq(loaded, 2, 1 + SEED_LEN) = [k \in 1 .. SEED_LEN |-> "fresh"]
        <3>1. PICK n \in Nat : n = SEED_LEN
            BY CallAssumption
        <3>2. /\ loaded = [k \in 1 .. 2 + n |-> loaded[k]]
              /\ \A k \in 2 .. 1 + n : loaded[k] = "fresh"
            <4>1. LoadsBefore(p) = 2 + n
                BY <1>8, <3>1, SeedOrder
            <4>2. \A k \in 2 .. 1 + n : k <= 2 + n
                OBVIOUS
            <4> QED
                BY <1>5, <3>1, <4>1, <4>2
        <3>3. SubSeq(loaded, 2, 1 + n) = [k \in 1 .. n |-> loaded[k + 1]]
            <4>1. SubSeq(loaded, 2, 1 + n) = [k \in 1 .. ((1 + n) - 2) + 1 |-> loaded[(k + 2) - 1]]
                OBVIOUS
            <4>2. ((1 + n) - 2) + 1 = n /\ \A k \in 1 .. n : (k + 2) - 1 = k + 1
                OBVIOUS
            <4> QED
                BY <4>1, <4>2
        <3>4. ASSUME NEW k \in 1 .. n PROVE loaded[k + 1] = "fresh"
            <4>1. k + 1 \in 2 .. 1 + n
                OBVIOUS
            <4> QED
                BY <3>2, <4>1
        <3> QED
            BY <3>1, <3>3, <3>4
    <2>5. answer'.value = [k \in 1 .. SEED_LEN |-> "fresh"]
        BY <2>2, <2>3, <2>4
    <2>6. BytesAreFresh'
        BY <2>5 DEF BytesAreFresh
    <2>7. None # <<"seed">>
        BY CallAssumption
    <2> QED
        BY <1>1, <2>2, <2>6, <2>7 DEF RandomInv
<1> QED
    BY <1>7, <1>8

(***************************************************************************)
(* A byte that the generator's flag announces was returned by no load      *)
(* before, and a load returns a byte only once (trng_peripheral.vhd,       *)
(* trng.c), whatever a stray address reads in between.                     *)
(***************************************************************************)
THEOREM RandomInvariance == Spec => []RandomInv
<1>1. Init => RandomInv
    <2> SUFFICES ASSUME Init, device = "trng" PROVE RandomInv
        BY DEF RandomInv
    <2>1. call = None /\ plan = << >> /\ flag = FALSE /\ answer = None
        BY DEF Init
    <2> QED
        BY <2>1, CallAssumption DEF RandomInv, BytesAreFresh
<1>2. RandomInv /\ [Next]_vars => RandomInv'
    <2> SUFFICES ASSUME RandomInv, [Next]_vars PROVE RandomInv'
        OBVIOUS
    <2>1. CASE UNCHANGED vars
        BY <2>1 DEF vars, randomVars, driverVars, RandomInv, Seeding, BytesAreFresh
    <2>2. CASE device # "trng"
        <3>1. device' = device
            BY DEF Next, SoftField, SoftMultiplier, Answered, vars
        <3> QED
            BY <2>2, <3>1 DEF RandomInv
    <2>3. CASE device = "trng" /\ Next
        <3>1. device' = device /\ ClockDevices /\ Instructions
            BY <2>3 DEF Next, SoftField, SoftMultiplier, Answered
        <3>2. Capture
            BY <2>3, <3>1 DEF ClockDevices, ClockGenerator
        <3>3. ~CallField /\ ~CallMultiplier /\ ~CallCounter
            BY <2>3 DEF CallField, CallMultiplier, CallCounter, Call
        <3>4. Work \/ Other \/ Hold \/ PollAgain => UNCHANGED <<call, plan, loaded, answer>>
            BY DEF Work, Other, Hold, PollAgain
        <3>5. CallSeed \/ Proceed \/ UNCHANGED <<call, plan, loaded, answer>>
            BY <3>1, <3>3, <3>4 DEF Instructions
        <3> QED
            BY <2>3, <3>1, <3>2, <3>5, GeneratorCalls, GeneratorProceeds, GeneratorWaits
    <2> QED
        BY <2>1, <2>2, <2>3
<1> QED
    BY <1>1, <1>2, PTL DEF Spec

-----------------------------------------------------------------------------
(* The carry-less product of any two sets of bits: the sums that an odd    *)
(* number of pairs have.                                                   *)
Odd(S) == Cardinality(S) % 2 = 1

Ways(x, y, p) == {i \in x : p - i \in y}

Conv(x, y) == {p \in Int : Odd(Ways(x, y, p))}

BitSet(x) == x \in SUBSET Int /\ IsFiniteSet(x)

(* A symmetric difference is odd if one of the two sets alone is.          *)
LEMMA OddSum ==
    ASSUME NEW A, NEW V, IsFiniteSet(A), IsFiniteSet(V)
    PROVE  IsFiniteSet(A (+) V) /\ (Odd(A (+) V) <=> ~(Odd(A) <=> Odd(V)))
<1>1. PICK a \in Nat, w \in Nat, c \in Nat :
          /\ Cardinality(A) = a /\ Cardinality(V) = w /\ Cardinality(A \cap V) = c
          /\ Cardinality(A \ V) = a - c /\ Cardinality(V \ A) = w - c
          /\ IsFiniteSet(A \ V) /\ IsFiniteSet(V \ A)
    <2>1. /\ IsFiniteSet(A \ V) /\ IsFiniteSet(V \ A) /\ IsFiniteSet(A \cap V)
        BY FS_Subset
    <2>2. /\ Cardinality(A \ V) = Cardinality(A) - Cardinality(A \cap V)
          /\ Cardinality(V \ A) = Cardinality(V) - Cardinality(V \cap A)
        BY FS_Difference
    <2>3. A \cap V = V \cap A
        OBVIOUS
    <2>4. Cardinality(A) \in Nat /\ Cardinality(V) \in Nat /\ Cardinality(A \cap V) \in Nat
        BY <2>1, FS_CardinalityType
    <2> QED
        BY <2>1, <2>2, <2>3, <2>4
<1>2. /\ IsFiniteSet(A (+) V)
      /\ Cardinality(A (+) V) = Cardinality(A \ V) + Cardinality(V \ A)
    <2>1. (A \ V) \cap (V \ A) = {}
        OBVIOUS
    <2>2. /\ IsFiniteSet((A \ V) \cup (V \ A))
          /\ Cardinality((A \ V) \cup (V \ A)) =
                Cardinality(A \ V) + Cardinality(V \ A) - Cardinality((A \ V) \cap (V \ A))
        BY <1>1, FS_Union
    <2>3. Cardinality({}) = 0
        BY FS_EmptySet
    <2>4. A (+) V = (A \ V) \cup (V \ A)
        BY DEF (+)
    <2>5. Cardinality((A \ V) \cap (V \ A)) = 0
        BY <2>1, <2>3
    <2>6. PICK m \in Nat, n \in Nat : Cardinality(A \ V) = m /\ Cardinality(V \ A) = n
        BY <1>1, FS_CardinalityType
    <2>7. Cardinality((A \ V) \cup (V \ A)) = m + n
        BY <2>2, <2>5, <2>6
    <2>8. Cardinality((A \ V) \cup (V \ A)) = Cardinality(A \ V) + Cardinality(V \ A)
        BY <2>6, <2>7
    <2> QED
        BY <2>2, <2>4, <2>8
<1>3. Cardinality(A (+) V) = (a - c) + (w - c)
    BY <1>1, <1>2
<1>4. ((a - c) + (w - c)) % 2 = 1 <=> ~(a % 2 = 1 <=> w % 2 = 1)
    OBVIOUS
<1> QED
    BY <1>1, <1>2, <1>3, <1>4 DEF Odd

(* The empty set has an even number of elements.                           *)
LEMMA NoneIsEven == ~Odd({})
    BY FS_EmptySet DEF Odd

(* Sets with a bijection between them are both odd or both even.           *)
LEMMA OddBijection ==
    ASSUME NEW S, NEW T, NEW f \in Bijection(S, T), IsFiniteSet(S)
    PROVE  Odd(S) <=> Odd(T)
    BY FS_Bijection DEF Odd, ExistsBijection

(* XorOver(S, f), with the values of f at the elements of S in a function. *)
IsXor(X, S, g) ==
    \E t : /\ \A c : c \in t <=> \E i \in S : c = <<i, g[i]>>
           /\ X = {p \in UNION {c[2] : c \in t} : Cardinality({c \in t : p \in c[2]}) % 2 = 1}

Having(S, g, p) == {i \in S : p \in g[i]}

(* XorOver has the bits that an odd number of the values have.             *)
LEMMA XorCounts ==
    ASSUME NEW S, IsFiniteSet(S), NEW g, NEW X, IsXor(X, S, g), NEW p
    PROVE  p \in X <=> Odd(Having(S, g, p))
<1>1. PICK t : /\ \A c : c \in t <=> \E i \in S : c = <<i, g[i]>>
               /\ X = {q \in UNION {c[2] : c \in t} : Cardinality({c \in t : q \in c[2]}) % 2 = 1}
    BY DEF IsXor
<1> DEFINE C == {c \in t : p \in c[2]}
           I == Having(S, g, p)
           f == [i \in I |-> <<i, g[i]>>]
<1>2. \A c \in t : c[1] \in S /\ c = <<c[1], g[c[1]]>> /\ c[2] = g[c[1]]
    BY <1>1
<1>3. f \in Bijection(I, C)
    <2>1. f \in [I -> C]
        <3>1. ASSUME NEW i \in I PROVE <<i, g[i]>> \in C
            <4>1. <<i, g[i]>> \in t /\ <<i, g[i]>>[2] = g[i]
                BY <1>1 DEF Having
            <4> QED
                BY <4>1 DEF Having
        <3> QED
            BY <3>1
    <2>2. \A i, j \in I : f[i] = f[j] => i = j
        OBVIOUS
    <2>3. \A c \in C : \E i \in I : f[i] = c
        <3> SUFFICES ASSUME NEW c \in C PROVE c[1] \in I /\ f[c[1]] = c
            OBVIOUS
        <3> QED
            BY <1>2 DEF Having
    <2> QED
        BY <2>1, <2>2, <2>3 DEF Bijection, Injection, Surjection, IsInjective
<1>4. IsFiniteSet(I)
    <2>1. I \subseteq S
        BY DEF Having
    <2> QED
        BY <2>1, FS_Subset
<1>5. Odd(I) <=> Odd(C)
    BY <1>3, <1>4, OddBijection
<1>6. Odd(C) => C # {}
    BY NoneIsEven
<1>7. p \in X <=> (\E c \in t : p \in c[2]) /\ Odd(C)
    BY <1>1 DEF Odd
<1> HIDE DEF I
<1>8. p \in X <=> Odd(I)
    BY <1>5, <1>6, <1>7
<1> QED
    BY <1>8 DEF I

(* The bits of a value shifted up                                          *)
LEMMA Shifted ==
    ASSUME NEW x \in SUBSET Int, NEW k \in Int, NEW p
    PROVE  p \in Up(x, k) <=> p \in Int /\ p - k \in x
<1>1. ASSUME p \in Up(x, k) PROVE p \in Int /\ p - k \in x
    BY <1>1 DEF Up
<1>2. ASSUME p \in Int, p - k \in x PROVE p \in Up(x, k)
    <2>1. p = (p - k) + k
        BY <1>2
    <2> QED
        BY <1>2, <2>1 DEF Up
<1> QED
    BY <1>1, <1>2

(* The bits of a value shifted down                                        *)
LEMMA ShiftedDown ==
    ASSUME NEW x \in SUBSET Int, NEW k \in Int, NEW p
    PROVE  p \in Down(x, k) <=> p \in Int /\ p >= 0 /\ p + k \in x
<1>1. ASSUME p \in Down(x, k) PROVE p \in Int /\ p >= 0 /\ p + k \in x
    <2>1. PICK q \in x : q >= k /\ p = q - k
        BY <1>1 DEF Down
    <2> QED
        BY <2>1
<1>2. ASSUME p \in Int, p >= 0, p + k \in x PROVE p \in Down(x, k)
    <2>1. p = (p + k) - k /\ p + k >= k
        BY <1>2
    <2> QED
        BY <1>2, <2>1 DEF Down
<1> QED
    BY <1>1, <1>2

(* Finitely many pairs make up a bit of a product.                         *)
LEMMA FewWays ==
    ASSUME NEW x, BitSet(x), NEW y, NEW p
    PROVE  IsFiniteSet(Ways(x, y, p))
    BY FS_Subset DEF Ways, BitSet

(* The combinational multiplier adds a shifted multiplicand for each bit.  *)
LEMMA AddShiftMultiplies ==
    ASSUME NEW x, NEW y, BitSet(x), BitSet(y)
    PROVE  addshift(x, y) = Conv(x, y)
<1> DEFINE g == [i \in x |-> Up(y, i)]
<1>1. IsXor(addshift(x, y), x, g)
    <2> DEFINE t == {<<i, Up(y, i)>> : i \in x}
    <2>1. \A c : c \in t <=> \E i \in x : c = <<i, g[i]>>
        OBVIOUS
    <2>2. addshift(x, y) =
              {p \in UNION {c[2] : c \in t} : Cardinality({c \in t : p \in c[2]}) % 2 = 1}
        BY DEF addshift, XorOver
    <2> HIDE DEF t, g
    <2> QED
        BY <2>1, <2>2 DEF IsXor
<1>2. ASSUME NEW p \in Int PROVE Having(x, g, p) = Ways(x, y, p)
    BY Shifted DEF Having, Ways, BitSet
<1>3. ASSUME NEW p, p \notin Int PROVE Having(x, g, p) = {}
    BY <1>3, Shifted DEF Having, BitSet
<1>4. IsFiniteSet(x)
    BY DEF BitSet
<1> HIDE DEF g
<1>5. \A p : p \in addshift(x, y) <=> p \in Conv(x, y)
    BY <1>1, <1>2, <1>3, <1>4, XorCounts, NoneIsEven DEF Conv
<1> QED
    BY <1>5

(* The sum of finite values is one.                                        *)
LEMMA SumsAreBits ==
    ASSUME NEW x, NEW y, BitSet(x), BitSet(y)
    PROVE  BitSet(x (+) y)
    BY OddSum DEF BitSet, (+)

(* It is linear in both factors, and shifts with them.                     *)
LEMMA Linear ==
    ASSUME NEW x, NEW y, NEW z, BitSet(x), BitSet(y), BitSet(z)
    PROVE  /\ Conv(x (+) y, z) = Conv(x, z) (+) Conv(y, z)
           /\ Conv(z, x (+) y) = Conv(z, x) (+) Conv(z, y)
<1>1. ASSUME NEW p \in Int
      PROVE  /\ Odd(Ways(x (+) y, z, p)) <=> ~(Odd(Ways(x, z, p)) <=> Odd(Ways(y, z, p)))
             /\ Odd(Ways(z, x (+) y, p)) <=> ~(Odd(Ways(z, x, p)) <=> Odd(Ways(z, y, p)))
    <2>1. Ways(x (+) y, z, p) = Ways(x, z, p) (+) Ways(y, z, p)
        BY DEF Ways, (+)
    <2>2. Ways(z, x (+) y, p) = Ways(z, x, p) (+) Ways(z, y, p)
        BY DEF Ways, (+)
    <2> QED
        BY <2>1, <2>2, FewWays, OddSum
<1>2. \A A, V, p : p \in A (+) V <=> ~(p \in A <=> p \in V)
    BY DEF (+)
<1>3. \A p : p \in Conv(x (+) y, z) <=> p \in Conv(x, z) (+) Conv(y, z)
    BY <1>1, <1>2 DEF Conv
<1>4. \A p : p \in Conv(z, x (+) y) <=> p \in Conv(z, x) (+) Conv(z, y)
    BY <1>1, <1>2 DEF Conv
<1> QED
    BY <1>3, <1>4

(* So is a shifted value.                                                  *)
LEMMA UpIsBits ==
    ASSUME NEW x, BitSet(x), NEW k \in Int
    PROVE  BitSet(Up(x, k)) /\ [p \in x |-> p + k] \in Bijection(x, Up(x, k))
<1> DEFINE f == [p \in x |-> p + k]
<1>1. x \in SUBSET Int /\ IsFiniteSet(x)
    BY DEF BitSet
<1>2. Up(x, k) \in SUBSET Int
    BY <1>1, Shifted
<1>3. f \in Bijection(x, Up(x, k))
    <2>1. f \in [x -> Up(x, k)]
        BY DEF Up
    <2>2. \A i, j \in x : f[i] = f[j] => i = j
        BY <1>1
    <2>3. \A q \in Up(x, k) : \E i \in x : f[i] = q
        BY DEF Up
    <2> QED
        BY <2>1, <2>2, <2>3 DEF Bijection, Injection, Surjection, IsInjective
<1>4. IsFiniteSet(Up(x, k))
    BY <1>1, <1>3, FS_Bijection DEF ExistsBijection
<1> QED
    BY <1>2, <1>3, <1>4 DEF BitSet

(* A shift of a factor shifts the product.                                 *)
LEMMA ShiftsFactor ==
    ASSUME NEW x, NEW y, BitSet(x), BitSet(y), NEW k \in Int
    PROVE  /\ Conv(Up(x, k), y) = Up(Conv(x, y), k)
           /\ Conv(x, Up(y, k)) = Up(Conv(x, y), k)
<1>1. x \in SUBSET Int /\ y \in SUBSET Int /\ Conv(x, y) \in SUBSET Int
    BY DEF BitSet, Conv
<1>2. ASSUME NEW p \in Int PROVE Odd(Ways(Up(x, k), y, p)) <=> Odd(Ways(x, y, p - k))
    <2> DEFINE A == Ways(x, y, p - k)
               f == [i \in A |-> i + k]
    <2>1. BitSet(A)
        BY <1>1, FewWays DEF BitSet, Ways
    <2>2. f \in Bijection(A, Up(A, k)) /\ IsFiniteSet(A)
        BY <2>1, UpIsBits DEF BitSet
    <2>3. ASSUME NEW q PROVE q \in Up(A, k) <=> q \in Ways(Up(x, k), y, p)
        <3>1. q \in Up(A, k) <=> q \in Int /\ q - k \in A
            BY <2>1, Shifted DEF BitSet
        <3>2. q \in Up(x, k) <=> q \in Int /\ q - k \in x
            BY <1>1, Shifted
        <3>3. q \in Int => (p - k) - (q - k) = p - q
            OBVIOUS
        <3> QED
            BY <3>1, <3>2, <3>3 DEF Ways
    <2>4. Up(A, k) = Ways(Up(x, k), y, p)
        BY <2>3
    <2> QED
        BY <2>2, <2>4, OddBijection
<1>3. ASSUME NEW p \in Int PROVE Ways(x, Up(y, k), p) = Ways(x, y, p - k)
    <2>1. ASSUME NEW i \in x PROVE p - i \in Up(y, k) <=> (p - k) - i \in y
        <3>1. (p - i) - k = (p - k) - i /\ p - i \in Int
            BY <1>1
        <3> QED
            BY <1>1, <3>1, Shifted
    <2> QED
        BY <2>1 DEF Ways
<1>4. \A p : p \in Up(Conv(x, y), k) <=> p \in Int /\ p - k \in Conv(x, y)
    BY <1>1, Shifted
<1>5. \A p \in Int : p - k \in Int
    OBVIOUS
<1>6. \A p : p \in Conv(Up(x, k), y) <=> p \in Up(Conv(x, y), k)
    BY <1>2, <1>4, <1>5 DEF Conv
<1>7. \A p : p \in Conv(x, Up(y, k)) <=> p \in Up(Conv(x, y), k)
    BY <1>3, <1>4, <1>5 DEF Conv
<1> QED
    BY <1>6, <1>7

(* Shifting is linear, and shifts add up.                                  *)
LEMMA ShiftsAdd ==
    ASSUME NEW x \in SUBSET Int, NEW y \in SUBSET Int, NEW k \in Int, NEW n \in Int
    PROVE  /\ Up(x (+) y, k) = Up(x, k) (+) Up(y, k)
           /\ Up(Up(x, k), n) = Up(x, k + n)
<1>1. \A p : p \in x (+) y <=> ~(p \in x <=> p \in y)
    BY DEF (+)
<1>2. x (+) y \in SUBSET Int /\ Up(x, k) \in SUBSET Int
    BY Shifted DEF (+)
<1>3. \A A, V, p : p \in A (+) V <=> ~(p \in A <=> p \in V)
    BY DEF (+)
<1>4. ASSUME NEW p PROVE p \in Up(x (+) y, k) <=> p \in Up(x, k) (+) Up(y, k)
    <2>1. p \in Up(x (+) y, k) <=> p \in Int /\ p - k \in x (+) y
        BY <1>2, Shifted
    <2>2. p \in Up(x, k) <=> p \in Int /\ p - k \in x
        BY Shifted
    <2>3. p \in Up(y, k) <=> p \in Int /\ p - k \in y
        BY Shifted
    <2>4. p \in Up(x, k) (+) Up(y, k) <=> ~(p \in Up(x, k) <=> p \in Up(y, k))
        BY <1>3
    <2> QED
        BY <1>1, <2>1, <2>2, <2>3, <2>4
<1>5. ASSUME NEW p PROVE p \in Up(Up(x, k), n) <=> p \in Up(x, k + n)
    <2>1. p \in Up(Up(x, k), n) <=> p \in Int /\ p - n \in Up(x, k)
        BY <1>2, Shifted
    <2>2. p \in Int => (p - n \in Up(x, k) <=> (p - n) - k \in x)
        BY Shifted
    <2>3. p \in Up(x, k + n) <=> p \in Int /\ p - (k + n) \in x
        BY Shifted
    <2>4. p \in Int => (p - n) - k = p - (k + n)
        OBVIOUS
    <2> QED
        BY <2>1, <2>2, <2>3, <2>4
<1> QED
    BY <1>4, <1>5

Word64 == SUBSET (0 .. 63)

(* A word is its lower half and its upper half shifted up.                 *)
LEMMA Halves ==
    ASSUME NEW x \in Word64
    PROVE  /\ BitSet(x) /\ BitSet(Low(x, 32)) /\ BitSet(Down(x, 32))
           /\ x = Low(x, 32) (+) Up(Down(x, 32), 32)
<1>1. BitSet(x) /\ BitSet(Low(x, 32)) /\ BitSet({q \in x : q >= 32})
    <2>1. PICK W : W = 0 .. 63 /\ IsFiniteSet(W)
        <3>1. PICK a \in Int, c \in Int : a = 0 /\ c = 63
            OBVIOUS
        <3>2. IsFiniteSet(a .. c)
            BY FS_Interval
        <3> QED
            BY <3>1, <3>2
    <2>2. \A S \in SUBSET W : BitSet(S)
        <3>1. \A S \in SUBSET W : IsFiniteSet(S)
            BY <2>1, FS_Subset
        <3> QED
            BY <2>1, <3>1 DEF BitSet
    <2> QED
        BY <2>1, <2>2 DEF Low, Word64
<1>2. Down(x, 32) = Up({q \in x : q >= 32}, -32)
    BY DEF Down, Up, Word64
<1>3. BitSet(Down(x, 32))
    <2> DEFINE u == {q \in x : q >= 32}
    <2>1. PICK n \in Int : n = -32
        OBVIOUS
    <2> HIDE DEF u
    <2>2. BitSet(Up(u, n))
        BY <1>1, <2>1, UpIsBits DEF u
    <2> QED
        BY <1>2, <2>1, <2>2 DEF u
<1>4. \A p : p \in Up(Down(x, 32), 32) <=> p \in x /\ p >= 32
    <2>1. \A p : p \in Up(Down(x, 32), 32) <=> p \in Int /\ p - 32 \in Down(x, 32)
        BY <1>3, Shifted DEF BitSet
    <2>2. \A p \in Int : p - 32 \in Down(x, 32) <=> p - 32 >= 0 /\ (p - 32) + 32 \in x
        BY ShiftedDown DEF Word64
    <2>3. x \in SUBSET Int /\ \A p \in Int : (p - 32) + 32 = p /\ (p - 32 >= 0 <=> p >= 32)
        BY DEF Word64
    <2> QED
        BY <2>1, <2>2, <2>3
<1>5. \A p \in x : p < 32 <=> ~(p >= 32)
    BY DEF Word64
<1>6. \A p : p \in x <=> p \in Low(x, 32) (+) Up(Down(x, 32), 32)
    BY <1>4, <1>5 DEF Low, (+)
<1> QED
    BY <1>1, <1>3, <1>6

(* The product of two words from three products of halves.                 *)
LEMMA Karatsuba ==
    ASSUME NEW x \in Word64, NEW y \in Word64
    PROVE  karatNbit(64, x, y) = Conv(x, y)
<1>1. PICK h, l, g, m :
          /\ h = Down(x, 32) /\ l = Low(x, 32) /\ g = Down(y, 32) /\ m = Low(y, 32)
          /\ BitSet(h) /\ BitSet(l) /\ BitSet(g) /\ BitSet(m) /\ BitSet(x) /\ BitSet(y)
          /\ x = l (+) Up(h, 32) /\ y = m (+) Up(g, 32)
    BY Halves
<1>2. PICK p1, p2, m1, m2 :
          /\ p1 = Conv(h, g) /\ p2 = Conv(l, m) /\ m1 = Conv(h, m) /\ m2 = Conv(l, g)
          /\ p1 \in SUBSET Int /\ p2 \in SUBSET Int /\ m1 \in SUBSET Int /\ m2 \in SUBSET Int
    <2>1. \A u, v : Conv(u, v) \in SUBSET Int
        BY DEF Conv
    <2> QED
        BY <2>1
<1>3. \A A, V, p : p \in A (+) V <=> ~(p \in A <=> p \in V)
    BY DEF (+)
<1>4. BitSet(h (+) l) /\ BitSet(g (+) m) /\ BitSet(Up(h, 32)) /\ BitSet(Up(g, 32))
    <2>1. PICK n \in Int : n = 32
        OBVIOUS
    <2>2. BitSet(Up(h, n)) /\ BitSet(Up(g, n))
        BY <1>1, UpIsBits
    <2> QED
        BY <1>1, <2>1, <2>2, SumsAreBits
<1>5. Conv(h (+) l, g (+) m) (+) p2 (+) p1 = m1 (+) m2
    <2>1. Conv(h (+) l, g (+) m) = Conv(h, g (+) m) (+) Conv(l, g (+) m)
        BY <1>1, <1>4, Linear
    <2>2. Conv(h, g (+) m) = Conv(h, g) (+) Conv(h, m) /\ Conv(l, g (+) m) = Conv(l, g) (+) Conv(l, m)
        BY <1>1, Linear
    <2>3. \A p : p \in ((p1 (+) m1) (+) (m2 (+) p2)) (+) p2 (+) p1 <=> p \in m1 (+) m2
        BY <1>3
    <2> QED
        BY <1>2, <2>1, <2>2, <2>3
<1>6. karatNbit(64, x, y) = Up(p1, 64) (+) p2 (+) Up(m1 (+) m2, 32)
    <2>1. addshift(h, g) = p1 /\ addshift(l, m) = p2
          /\ addshift(h (+) l, g (+) m) = Conv(h (+) l, g (+) m)
        BY <1>1, <1>2, <1>4, AddShiftMultiplies
    <2>2. 64 \div 2 = 32
        OBVIOUS
    <2>3. karatNbit(64, x, y) =
              Up(addshift(h, g), 64) (+) addshift(l, m)
                  (+) Up(addshift(h (+) l, g (+) m) (+) addshift(l, m) (+) addshift(h, g), 32)
        BY <1>1, <2>2 DEF karatNbit
    <2> QED
        BY <1>5, <2>1, <2>3
<1>7. Conv(x, y) = (p2 (+) Up(m2, 32)) (+) (Up(m1, 32) (+) Up(p1, 64))
    <2>1. Conv(x, y) = Conv(l, y) (+) Conv(Up(h, 32), y)
        BY <1>1, <1>4, Linear
    <2>2. Conv(Up(h, 32), y) = Up(Conv(h, y), 32)
        BY <1>1, ShiftsFactor
    <2>3. Conv(l, y) = Conv(l, m) (+) Conv(l, Up(g, 32)) /\ Conv(h, y) = Conv(h, m) (+) Conv(h, Up(g, 32))
        BY <1>1, <1>4, Linear
    <2>4. Conv(l, Up(g, 32)) = Up(m2, 32) /\ Conv(h, Up(g, 32)) = Up(p1, 32)
        <3>1. PICK n \in Int : n = 32
            OBVIOUS
        <3>2. Conv(l, Up(g, n)) = Up(Conv(l, g), n) /\ Conv(h, Up(g, n)) = Up(Conv(h, g), n)
            BY <1>1, ShiftsFactor
        <3> QED
            BY <1>2, <3>1, <3>2
    <2>5. Up(m1 (+) Up(p1, 32), 32) = Up(m1, 32) (+) Up(p1, 64)
        <3>1. Up(p1, 32) \in SUBSET Int /\ 32 + 32 = 64
            BY <1>2, Shifted
        <3>2. PICK n \in Int : n = 32
            OBVIOUS
        <3>3. Up(p1 (+) p1, n) = Up(p1, n) (+) Up(p1, n) /\ Up(Up(p1, n), n) = Up(p1, n + n)
            BY <1>2, ShiftsAdd
        <3>4. Up(m1 (+) Up(p1, n), n) = Up(m1, n) (+) Up(Up(p1, n), n)
            <4>1. PICK q \in SUBSET Int : q = Up(p1, n)
                BY <3>1, <3>2
            <4>2. Up(m1 (+) q, n) = Up(m1, n) (+) Up(q, n)
                BY <1>2, ShiftsAdd
            <4> QED
                BY <4>1, <4>2
        <3> QED
            BY <3>1, <3>2, <3>3, <3>4
    <2> QED
        BY <1>2, <2>1, <2>2, <2>3, <2>4, <2>5
<1>8. Up(m1 (+) m2, 32) = Up(m1, 32) (+) Up(m2, 32)
    BY <1>2, ShiftsAdd
<1>9. \A A, V, C, D, p :
          p \in A (+) V (+) (C (+) D) <=> p \in (V (+) D) (+) (C (+) A)
    BY <1>3
<1>10. ASSUME NEW A, NEW V, NEW C, NEW D PROVE A (+) V (+) (C (+) D) = (V (+) D) (+) (C (+) A)
    <2>1. PICK u, v : u = A (+) V (+) (C (+) D) /\ v = (V (+) D) (+) (C (+) A)
        OBVIOUS
    <2>2. \A p : p \in u <=> p \in v
        BY <1>9, <2>1
    <2> QED
        BY <2>1, <2>2
<1>11. Up(p1, 64) (+) p2 (+) (Up(m1, 32) (+) Up(m2, 32)) =
           (p2 (+) Up(m2, 32)) (+) (Up(m1, 32) (+) Up(p1, 64))
    BY <1>10
<1> QED
    BY <1>6, <1>7, <1>8, <1>11

(* A product of words is less than two words long.                         *)
LEMMA ProductOfWords ==
    ASSUME NEW x \in Word64, NEW y \in Word64
    PROVE  Conv(x, y) = Product(x, y, 64) /\ Conv(x, y) \in SUBSET (0 .. 127)
<1>1. ASSUME NEW p \in Int, Odd(Ways(x, y, p)) PROVE p \in 0 .. 126
    <2>1. PICK i \in x : p - i \in y
        BY <1>1, NoneIsEven DEF Ways
    <2> QED
        BY <2>1 DEF Word64
<1>2. 2 * 64 - 2 = 126
    OBVIOUS
<1>3. Product(x, y, 64) = {p \in 0 .. 126 : Odd(Ways(x, y, p))}
    BY <1>2 DEF Product, Odd, Ways
<1> QED
    BY <1>1, <1>3 DEF Conv

(* The words of a value put together again                                 *)
LEMMA WordsTogether ==
    ASSUME NEW x \in SUBSET (0 .. 127)
    PROVE  (WordOf(x, 0) \cup Up(WordOf(x, 1), 32))
               \cup Up(WordOf(x, 2) \cup Up(WordOf(x, 3), 32), 64) = x
<1>1. ASSUME NEW k \in 0 .. 3, NEW p
      PROVE  p \in WordOf(x, k) <=> p \in 0 .. 31 /\ p + 32 * k \in x
    <2>1. p \in Down(x, 32 * k) <=> p \in Int /\ p >= 0 /\ p + 32 * k \in x
        BY ShiftedDown
    <2> QED
        BY <2>1 DEF WordOf, Low
<1>2. \A k \in 0 .. 3 : WordOf(x, k) \in SUBSET Int
    BY <1>1
<1> DEFINE v == WordOf(x, 2) \cup Up(WordOf(x, 3), 32)
<1>3. \A p : p \in Up(WordOf(x, 1), 32) <=> p \in Int /\ p - 32 \in WordOf(x, 1)
    BY <1>2, Shifted
<1>4. \A p : p \in Up(WordOf(x, 3), 32) <=> p \in Int /\ p - 32 \in WordOf(x, 3)
    BY <1>2, Shifted
<1>5. \A p : p \in Up(v, 64) <=> p \in Int /\ p - 64 \in v
    <2>1. v \in SUBSET Int
        BY <1>2, <1>4
    <2> HIDE DEF v
    <2> QED
        BY <2>1, Shifted
<1>6. \A p \in x : p \in 0 .. 31 \/ p - 32 \in 0 .. 31 \/ p - 64 \in 0 .. 31 \/ (p - 64) - 32 \in 0 .. 31
    OBVIOUS
<1>7. /\ \A p : p \in WordOf(x, 0) <=> p \in 0 .. 31 /\ p \in x
      /\ \A p : p \in Up(WordOf(x, 1), 32) <=> p \in x /\ p - 32 \in 0 .. 31
    <2>1. \A p \in 0 .. 31 : p + 32 * 0 = p
        OBVIOUS
    <2>2. \A p \in Int : (p - 32) + 32 * 1 = p
        OBVIOUS
    <2> QED
        BY <1>1, <1>3, <2>1, <2>2
<1>8. \A p : p \in Up(v, 64) <=> p \in x /\ (p - 64 \in 0 .. 31 \/ (p - 64) - 32 \in 0 .. 31)
    <2>1. \A p \in Int : /\ (p - 64) + 32 * 2 = p /\ ((p - 64) - 32) + 32 * 3 = p
                         /\ p - 64 \in Int
        OBVIOUS
    <2>2. ASSUME NEW p \in Int, p - 64 \in v PROVE p \in x /\ (p - 64 \in 0 .. 31 \/ (p - 64) - 32 \in 0 .. 31)
        <3>1. CASE p - 64 \in WordOf(x, 2)
            BY <1>1, <2>1, <3>1
        <3>2. CASE p - 64 \in Up(WordOf(x, 3), 32)
            <4>1. (p - 64) - 32 \in WordOf(x, 3)
                BY <1>4, <3>2
            <4> QED
                BY <1>1, <2>1, <4>1
        <3> QED
            BY <2>2, <3>1, <3>2
    <2>3. ASSUME NEW p \in x, p - 64 \in 0 .. 31 PROVE p - 64 \in v
        BY <1>1, <2>1, <2>3
    <2>4. ASSUME NEW p \in x, (p - 64) - 32 \in 0 .. 31 PROVE p - 64 \in v
        <3>1. (p - 64) - 32 \in WordOf(x, 3) /\ p - 64 \in Int
            BY <1>1, <2>1, <2>4
        <3> QED
            BY <1>4, <3>1
    <2> HIDE DEF v
    <2> QED
        BY <1>5, <2>2, <2>3, <2>4
<1> HIDE DEF v
<1>9. (WordOf(x, 0) \cup Up(WordOf(x, 1), 32)) \cup Up(v, 64) = x
    BY <1>6, <1>7, <1>8
<1> QED
    BY <1>9 DEF v

-----------------------------------------------------------------------------
(* base_mul of gf2x.c.                                                     *)

(* The carry-less product is commutative.                                  *)
LEMMA WaysCommute ==
    ASSUME NEW x, NEW y, BitSet(x), BitSet(y)
    PROVE  Conv(x, y) = Conv(y, x)
<1>1. ASSUME NEW p \in Int PROVE Odd(Ways(x, y, p)) <=> Odd(Ways(y, x, p))
    <2> DEFINE A == Ways(x, y, p)
               V == Ways(y, x, p)
               f == [i \in A |-> p - i]
    <2>1. A \in SUBSET Int /\ V \in SUBSET Int /\ IsFiniteSet(A)
        BY FewWays DEF BitSet, Ways
    <2>2. \A i \in Int : p - (p - i) = i /\ p - i \in Int
        OBVIOUS
    <2>3. \A i \in A : p - i \in V
        BY <2>1, <2>2 DEF Ways
    <2>4. \A i \in V : p - i \in A
        BY <2>1, <2>2 DEF Ways
    <2> HIDE DEF A, V
    <2>5. f \in Bijection(A, V)
        <3>1. f \in [A -> V]
            BY <2>3
        <3>2. \A i, j \in A : f[i] = f[j] => i = j
            BY <2>1
        <3>3. \A j \in V : \E i \in A : f[i] = j
            <4> SUFFICES ASSUME NEW j \in V PROVE p - j \in A /\ f[p - j] = j
                OBVIOUS
            <4> QED
                BY <2>1, <2>2, <2>4
        <3> QED
            BY <3>1, <3>2, <3>3 DEF Bijection, Injection, Surjection, IsInjective
    <2>6. Odd(A) <=> Odd(V)
        BY <2>1, <2>5, OddBijection
    <2> QED
        BY <2>6 DEF A, V
<1> QED
    BY <1>1 DEF Conv

(* The window of a that begins at bit i, and the windows below the k-th.   *)
Window(a, i) == {j \in 0 .. 3 : i + j \in a}

Windows(k) == {4 * m : m \in 0 .. k - 1}

Below(a, k) == {j \in a : j < 4 * k}

(* Intervals of integers are finite.                                       *)
LEMMA FiniteInterval ==
    ASSUME NEW m \in Int, NEW n \in Int, NEW S \in SUBSET (m .. n)
    PROVE  BitSet(S)
<1>1. IsFiniteSet(m .. n)
    BY FS_Interval
<1>2. IsFiniteSet(S)
    BY <1>1, FS_Subset
<1> QED
    BY <1>2 DEF BitSet

(* A window has four bits.                                                 *)
LEMMA WindowBits ==
    ASSUME NEW a \in Word64, NEW i
    PROVE  BitSet(Window(a, i))
<1>1. PICK m \in Int, n \in Int : m = 0 /\ n = 3
    OBVIOUS
<1>2. Window(a, i) \in SUBSET (m .. n)
    BY <1>1 DEF Window
<1> QED
    BY <1>2, FiniteInterval

(* A word has finitely many bits.                                          *)
LEMMA WordBits ==
    ASSUME NEW x \in Word64
    PROVE  BitSet(x) /\ \A y \in SUBSET x : BitSet(y)
<1>1. PICK m \in Int, n \in Int : m = 0 /\ n = 63
    OBVIOUS
<1>2. \A y \in SUBSET x : y \in SUBSET (m .. n)
    BY <1>1 DEF Word64
<1> QED
    BY <1>2, FiniteInterval

(* There are finitely many windows.                                        *)
LEMMA WindowsFinite == \A k \in Nat : IsFiniteSet(Windows(k)) /\ Windows(k) \in SUBSET Int
<1> SUFFICES ASSUME NEW k \in Nat PROVE IsFiniteSet(Windows(k)) /\ Windows(k) \in SUBSET Int
    OBVIOUS
<1>1. PICK m \in Int : m = 0
    OBVIOUS
<1>2. Windows(k) \in SUBSET (m .. 4 * k)
    BY <1>1 DEF Windows
<1> QED
    BY <1>2, FiniteInterval DEF BitSet

(* The multiples of w at the windows of a below the k-th add up to the     *)
(* product with the bits of a there.                                       *)
Partial(a, w, k, p) == {i \in Windows(k) : p - i \in Conv(Window(a, i), w)}

(* One more window                                                         *)
LEMMA NextWindow ==
    ASSUME NEW a \in Word64, NEW w, BitSet(w), NEW k \in Nat, NEW p \in Int,
           Odd(Partial(a, w, k, p)) <=> Odd(Ways(Below(a, k), w, p))
    PROVE  Odd(Partial(a, w, k + 1, p)) <=> Odd(Ways(Below(a, k + 1), w, p))
<1> DEFINE n == 4 * k
           W == Window(a, n)
           D == Up(W, n)
           T == {i \in {n} : p - i \in Conv(Window(a, i), w)}
<1>1. n \in Int /\ a \in SUBSET Int
    BY DEF Word64
<1>2. BitSet(W) /\ BitSet(D) /\ BitSet(Below(a, k))
    <2>1. BitSet(W)
        BY WindowBits
    <2>2. BitSet(Below(a, k))
        BY WordBits DEF Below
    <2> QED
        BY <1>1, <2>1, <2>2, UpIsBits
<1>3. Partial(a, w, k + 1, p) = Partial(a, w, k, p) (+) T
    <2>1. Windows(k + 1) = Windows(k) \cup {n} /\ n \notin Windows(k)
        BY DEF Windows
    <2> QED
        BY <2>1 DEF Partial, (+)
<1>4. Odd(T) <=> p - n \in Conv(W, w)
    <2>1. CASE p - n \in Conv(W, w)
        <3>1. T = {n}
            BY <2>1
        <3>2. Cardinality({n}) = 1
            BY FS_Singleton
        <3>3. 1 % 2 = 1
            OBVIOUS
        <3> QED
            BY <2>1, <3>1, <3>2, <3>3 DEF Odd
    <2>2. CASE p - n \notin Conv(W, w)
        <3>1. T = {}
            BY <2>2
        <3> QED
            BY <2>2, <3>1, NoneIsEven
    <2> QED
        BY <2>1, <2>2
<1>5. IsFiniteSet(Partial(a, w, k, p)) /\ IsFiniteSet(T)
    <2>1. IsFiniteSet(Windows(k)) /\ IsFiniteSet({n})
        BY WindowsFinite, FS_Singleton
    <2>2. Partial(a, w, k, p) \subseteq Windows(k) /\ T \subseteq {n}
        BY DEF Partial
    <2> QED
        BY <2>1, <2>2, FS_Subset
<1>6. Below(a, k + 1) = Below(a, k) (+) D
    <2>1. \A j : j \in D <=> j \in Int /\ j - n \in W
        BY <1>1, <1>2, Shifted DEF BitSet
    <2>2. \A j \in Int : j - n \in W <=> j - n \in 0 .. 3 /\ n + (j - n) \in a
        BY DEF Window
    <2>3. \A j \in Int : n + (j - n) = j /\ (j - n \in 0 .. 3 <=> j >= n /\ j < n + 4)
        BY <1>1
    <2>4. 4 * (k + 1) = n + 4
        OBVIOUS
    <2> HIDE DEF n, W, D
    <2>5. \A j : j \in D <=> j \in a /\ j >= n /\ j < n + 4
        BY <1>1, <2>1, <2>2, <2>3
    <2>6. \A j \in a : (j < n <=> ~(j >= n)) /\ (j < n => j < n + 4)
        BY <1>1
    <2>7. \A j : j \in Below(a, k + 1) <=> j \in a /\ j < n + 4
        BY <2>4 DEF Below
    <2>8. \A j : j \in Below(a, k) <=> j \in a /\ j < n
        BY DEF Below, n
    <2>9. \A j : j \in Below(a, k + 1) <=> j \in Below(a, k) (+) D
        BY <2>5, <2>6, <2>7, <2>8 DEF (+)
    <2> QED
        BY <2>9
<1>7. Conv(D, w) = Up(Conv(W, w), n)
    BY <1>1, <1>2, ShiftsFactor
<1>8. p \in Up(Conv(W, w), n) <=> p - n \in Conv(W, w)
    <2>1. Conv(W, w) \in SUBSET Int
        BY DEF Conv
    <2> HIDE DEF n, W
    <2> QED
        BY <1>1, <2>1, Shifted
<1> HIDE DEF n, W, D, T
<1>9. Odd(Ways(Below(a, k + 1), w, p)) <=> ~(Odd(Ways(Below(a, k), w, p)) <=> Odd(Ways(D, w, p)))
    <2>1. p \in Conv(Below(a, k) (+) D, w) <=> p \in Conv(Below(a, k), w) (+) Conv(D, w)
        BY <1>2, Linear
    <2>2. p \in Conv(Below(a, k), w) (+) Conv(D, w) <=>
              ~(p \in Conv(Below(a, k), w) <=> p \in Conv(D, w))
        BY DEF (+)
    <2> QED
        BY <1>6, <2>1, <2>2 DEF Conv
<1>10. Odd(Ways(D, w, p)) <=> Odd(T)
    BY <1>4, <1>7, <1>8 DEF Conv
<1>11. Odd(Partial(a, w, k + 1, p)) <=> ~(Odd(Partial(a, w, k, p)) <=> Odd(T))
    BY <1>3, <1>5, OddSum
<1> QED
    BY <1>9, <1>10, <1>11

(* The least element of a set of numbers.                                  *)
LEMMA Least ==
    ASSUME NEW T, T \subseteq Nat, T # {}
    PROVE  \E n \in T : \A m \in T : n <= m
<1>1. PICK n \in T : \A m \in T : ~(<<m, n>> \in OpToRel(<, Nat))
    BY WFMin, NatLessThanWellFounded
<1>2. ASSUME NEW m \in T PROVE n <= m
    <2>1. m \in Nat /\ n \in Nat
        OBVIOUS
    <2>2. ASSUME m < n PROVE <<m, n>> \in OpToRel(<, Nat)
        BY <2>1, <2>2, Zenon DEF OpToRel
    <2>3. ~(m < n)
        BY <1>1, <2>2, Zenon
    <2> QED
        BY <2>1, <2>3
<1> QED
    BY <1>2

(* All sixteen windows of a word, by induction                             *)
LEMMA AllWindows ==
    ASSUME NEW a \in Word64, NEW w, BitSet(w), NEW p \in Int
    PROVE  Odd(Partial(a, w, 16, p)) <=> Odd(Ways(a, w, p))
<1> DEFINE Good(k) == Odd(Partial(a, w, k, p)) <=> Odd(Ways(Below(a, k), w, p))
           Bad == {k \in Nat : ~Good(k)}
<1>1. Good(0)
    <2>1. Partial(a, w, 0, p) = {}
        BY DEF Partial, Windows
    <2>2. Ways(Below(a, 0), w, p) = {}
        <3>1. 4 * 0 = 0 /\ \A j \in 0 .. 63 : ~(j < 0)
            OBVIOUS
        <3>2. \A j \in a : ~(j < 4 * 0)
            BY <3>1 DEF Word64
        <3>3. Below(a, 0) = {}
            BY <3>2 DEF Below
        <3> QED
            BY <3>3 DEF Ways
    <2> QED
        BY <2>1, <2>2
<1>2. \A k \in Nat : Good(k) => Good(k + 1)
    BY NextWindow
<1> HIDE DEF Good
<1>3. Bad = {}
    <2> SUFFICES ASSUME Bad # {} PROVE FALSE
        OBVIOUS
    <2>1. PICK k \in Bad : \A m \in Bad : k <= m
        BY Least
    <2>2. k # 0 /\ k - 1 \in Nat /\ k = (k - 1) + 1
        BY <1>1
    <2>3. k - 1 \notin Bad
        BY <2>1, <2>2
    <2> QED
        BY <1>2, <2>2, <2>3
<1>4. Good(16)
    BY <1>3
<1>5. Below(a, 16) = a
    <2>1. 4 * 16 = 64 /\ \A j \in 0 .. 63 : j < 64
        OBVIOUS
    <2>2. \A j \in a : j < 4 * 16
        BY <2>1 DEF Word64
    <2> QED
        BY <2>2 DEF Below
<1> QED
    BY <1>4, <1>5 DEF Good

(* The table u: the multiples of w, without its upper bits, by two bits.   *)
LEMMA MultiplesFit ==
    ASSUME NEW n \in SUBSET (0 .. 3), NEW w \in SUBSET (0 .. 59)
    PROVE  XorOver(n, LAMBDA j : Low(Up(w, j), 64)) = Conv(n, w)
<1> DEFINE g == [j \in n |-> Low(Up(w, j), 64)]
           X == XorOver(n, LAMBDA j : Low(Up(w, j), 64))
<1>1. IsXor(X, n, g)
    <2> DEFINE t == {<<j, Low(Up(w, j), 64)>> : j \in n}
    <2>1. \A c : c \in t <=> \E j \in n : c = <<j, g[j]>>
        OBVIOUS
    <2>2. X = {p \in UNION {c[2] : c \in t} : Cardinality({c \in t : p \in c[2]}) % 2 = 1}
        BY DEF XorOver
    <2> HIDE DEF t, g, X
    <2> QED
        BY <2>1, <2>2 DEF IsXor
<1>2. ASSUME NEW j \in n, NEW p PROVE p \in g[j] <=> p \in Int /\ p - j \in w
    <2>1. p \in Up(w, j) <=> p \in Int /\ p - j \in w
        BY Shifted
    <2>2. p \in Int /\ p - j \in w => p < 64
        OBVIOUS
    <2> QED
        BY <2>1, <2>2 DEF Low
<1> HIDE DEF g, X
<1>3. ASSUME NEW p \in Int PROVE Having(n, g, p) = Ways(n, w, p)
    BY <1>2 DEF Having, Ways
<1>4. ASSUME NEW p, p \notin Int PROVE Having(n, g, p) = {}
    BY <1>2, <1>4 DEF Having
<1>5. IsFiniteSet(n)
    <2>1. PICK m \in Int, k \in Int : m = 0 /\ k = 3
        OBVIOUS
    <2> QED
        BY <2>1, FiniteInterval DEF BitSet
<1>6. \A p : p \in X <=> p \in Conv(n, w)
    BY <1>1, <1>3, <1>4, <1>5, XorCounts, NoneIsEven DEF Conv
<1> QED
    BY <1>6 DEF X

(* The lower and the upper words of a sum of shifted values.               *)
Lower(S, f) == XorOver(S, LAMBDA i : Low(Up(f[i], i), 64))
Upper(S, f) == XorOver(S, LAMBDA i : Down(f[i], 64 - i))

Sums(S, f, p) == {i \in S : p - i \in f[i]}

(* The bits of the lower word of such a sum                                *)
LEMMA LowerBits ==
    ASSUME NEW S \in SUBSET Int, IsFiniteSet(S), NEW f, \A i \in S : f[i] \in SUBSET Int, NEW p
    PROVE  p \in Lower(S, f) <=> p \in Int /\ p < 64 /\ Odd(Sums(S, f, p))
<1> DEFINE g == [i \in S |-> Low(Up(f[i], i), 64)]
<1>1. IsXor(Lower(S, f), S, g)
    <2> DEFINE t == {<<i, Low(Up(f[i], i), 64)>> : i \in S}
    <2>1. \A c : c \in t <=> \E i \in S : c = <<i, g[i]>>
        OBVIOUS
    <2>2. Lower(S, f) = {q \in UNION {c[2] : c \in t} : Cardinality({c \in t : q \in c[2]}) % 2 = 1}
        BY DEF Lower, XorOver
    <2> HIDE DEF t, g
    <2> QED
        BY <2>1, <2>2 DEF IsXor
<1>2. ASSUME NEW i \in S PROVE p \in g[i] <=> p \in Int /\ p < 64 /\ p - i \in f[i]
    BY Shifted DEF Low
<1> HIDE DEF g
<1>3. p \in Lower(S, f) <=> Odd(Having(S, g, p))
    BY <1>1, XorCounts
<1>4. CASE p \in Int /\ p < 64
    <2>1. Having(S, g, p) = Sums(S, f, p)
        BY <1>2, <1>4 DEF Having, Sums
    <2> QED
        BY <1>3, <1>4, <2>1
<1>5. CASE ~(p \in Int /\ p < 64)
    <2>1. Having(S, g, p) = {}
        BY <1>2, <1>5 DEF Having
    <2> QED
        BY <1>3, <1>5, <2>1, NoneIsEven
<1> QED
    BY <1>4, <1>5

(* The bits of the upper word                                              *)
LEMMA UpperBits ==
    ASSUME NEW S \in SUBSET Int, IsFiniteSet(S), NEW f, \A i \in S : f[i] \in SUBSET Int, NEW p
    PROVE  p \in Upper(S, f) <=> p \in Int /\ p >= 0 /\ Odd(Sums(S, f, p + 64))
<1> DEFINE g == [i \in S |-> Down(f[i], 64 - i)]
<1>1. IsXor(Upper(S, f), S, g)
    <2> DEFINE t == {<<i, Down(f[i], 64 - i)>> : i \in S}
    <2>1. \A c : c \in t <=> \E i \in S : c = <<i, g[i]>>
        OBVIOUS
    <2>2. Upper(S, f) = {q \in UNION {c[2] : c \in t} : Cardinality({c \in t : q \in c[2]}) % 2 = 1}
        BY DEF Upper, XorOver
    <2> HIDE DEF t, g
    <2> QED
        BY <2>1, <2>2 DEF IsXor
<1>2. ASSUME NEW i \in S PROVE p \in g[i] <=> p \in Int /\ p >= 0 /\ (p + 64) - i \in f[i]
    <2>1. p \in Down(f[i], 64 - i) <=> p \in Int /\ p >= 0 /\ p + (64 - i) \in f[i]
        BY ShiftedDown
    <2>2. p \in Int => p + (64 - i) = (p + 64) - i
        OBVIOUS
    <2> QED
        BY <2>1, <2>2
<1> HIDE DEF g
<1>3. p \in Upper(S, f) <=> Odd(Having(S, g, p))
    BY <1>1, XorCounts
<1>4. CASE p \in Int /\ p >= 0
    <2>1. Having(S, g, p) = Sums(S, f, p + 64)
        BY <1>2, <1>4 DEF Having, Sums
    <2> QED
        BY <1>3, <1>4, <2>1
<1>5. CASE ~(p \in Int /\ p >= 0)
    <2>1. Having(S, g, p) = {}
        BY <1>2, <1>5 DEF Having
    <2> QED
        BY <1>3, <1>5, <2>1, NoneIsEven
<1> QED
    BY <1>4, <1>5

(* base_mul: the windows of a with the lower bits of w, and the upper bits *)
(* of w with all of a.                                                     *)
LEMMA BaseMulMultiplies ==
    ASSUME NEW a \in Word64, NEW w \in Word64
    PROVE  Gf2x!base_mul(a, w)[1] \cup Up(Gf2x!base_mul(a, w)[2], 64) = Conv(a, w)
<1> DEFINE c == w \cap (0 .. 59)
           top == {k \in 60 .. 63 : k \in w}
           S == Windows(16)
           R == Windows(16) \ {0}
           f == [i \in S |-> Conv(Window(a, i), c)]
           e == [k \in top |-> a]
           low == Lower(S, f) (+) Lower(top, e)
           high == Upper(R, f) (+) Upper(top, e)
<1>1. Gf2x!base_mul(a, w) = <<low, high>>
    <2> DEFINE u == [n \in SUBSET (0 .. 4 - 1) |->
                        XorOver(n, LAMBDA j : Low(Up(w \cap (0 .. 64 - 4 - 1), j), 64))]
               g(i) == u[{j \in 0 .. 4 - 1 : i + j \in a}]
               windows == {4 * k : k \in 0 .. (64 \div 4) - 1}
               upper == {k \in 64 - 4 .. 64 - 1 : k \in w}
    <2>1. /\ 4 - 1 = 3 /\ 64 - 4 - 1 = 59 /\ 64 - 4 = 60 /\ 64 - 1 = 63 /\ (64 \div 4) - 1 = 15
          /\ 16 - 1 = 15
        OBVIOUS
    <2>2. Gf2x!base_mul(a, w) =
             << XorOver(windows, LAMBDA i : Low(Up(g(i), i), 64))
                   (+) XorOver(upper, LAMBDA k : Low(Up(a, k), 64)),
                XorOver(windows \ {0}, LAMBDA i : Down(g(i), 64 - i))
                   (+) XorOver(upper, LAMBDA k : Down(a, 64 - k)) >>
        BY DEF Gf2x!base_mul, Gf2x!Shl, Gf2x!Shr, Gf2x!XorOver, Gf2x!Low, Gf2x!Up, Gf2x!Down,
               Gf2x!(+), Gf2x!Cardinality, XorOver, Low, Up, Down, (+), Cardinality
    <2>3. ASSUME NEW i PROVE g(i) = Conv(Window(a, i), c)
        <3>1. Window(a, i) \in SUBSET (0 .. 3) /\ c \in SUBSET (0 .. 59)
            BY DEF Window
        <3>2. Window(a, i) = {j \in 0 .. 4 - 1 : i + j \in a}
            BY <2>1 DEF Window
        <3>3. PICK n \in SUBSET (0 .. 4 - 1) : n = Window(a, i)
            BY <2>1, <3>1
        <3>4. u[n] = XorOver(n, LAMBDA j : Low(Up(w \cap (0 .. 64 - 4 - 1), j), 64))
            OBVIOUS
        <3>5. w \cap (0 .. 64 - 4 - 1) = c
            BY <2>1
        <3> HIDE DEF c, u
        <3>6. u[n] = XorOver(n, LAMBDA j : Low(Up(c, j), 64))
            <4>1. {<<j, Low(Up(w \cap (0 .. 64 - 4 - 1), j), 64)>> : j \in n} =
                      {<<j, Low(Up(c, j), 64)>> : j \in n}
                BY <3>5
            <4> QED
                BY <3>4, <4>1, Zenon DEF XorOver
        <3> QED
            BY <3>1, <3>2, <3>3, <3>6, MultiplesFit
    <2>4. \A i \in S : g(i) = f[i]
        BY <2>3
    <2>5. windows = S /\ upper = top
        BY <2>1 DEF Windows
    <2> HIDE DEF u, g, f, S, windows, upper
    <2>6. XorOver(S, LAMBDA i : Low(Up(g(i), i), 64)) = Lower(S, f)
        <3>1. {<<i, Low(Up(g(i), i), 64)>> : i \in S} = {<<i, Low(Up(f[i], i), 64)>> : i \in S}
            BY <2>4
        <3> QED
            BY <3>1, Zenon DEF Lower, XorOver
    <2>7. XorOver(R, LAMBDA i : Down(g(i), 64 - i)) = Upper(R, f)
        <3>1. {<<i, Down(g(i), 64 - i)>> : i \in R} = {<<i, Down(f[i], 64 - i)>> : i \in R}
            BY <2>4 DEF S
        <3> QED
            BY <3>1, Zenon DEF Upper, XorOver
    <2>8. XorOver(top, LAMBDA k : Low(Up(a, k), 64)) = Lower(top, e)
        <3>1. {<<i, Low(Up(e[i], i), 64)>> : i \in top} = {<<i, Low(Up(a, i), 64)>> : i \in top}
            OBVIOUS
        <3> HIDE DEF top, e
        <3> QED
            BY <3>1, Zenon DEF Lower, XorOver
    <2>9. XorOver(top, LAMBDA k : Down(a, 64 - k)) = Upper(top, e)
        <3>1. {<<i, Down(e[i], 64 - i)>> : i \in top} = {<<i, Down(a, 64 - i)>> : i \in top}
            OBVIOUS
        <3> HIDE DEF top, e
        <3> QED
            BY <3>1, Zenon DEF Upper, XorOver
    <2> QED
        BY <2>2, <2>5, <2>6, <2>7, <2>8, <2>9 DEF S
<1>2. /\ c \in SUBSET (0 .. 59) /\ BitSet(a) /\ BitSet(w) /\ BitSet(c) /\ BitSet(top)
      /\ w = c (+) top
    <2>1. c \subseteq w /\ top \subseteq w
        OBVIOUS
    <2>2. BitSet(a) /\ BitSet(w) /\ BitSet(c) /\ BitSet(top)
        BY <2>1, WordBits
    <2>3. \A p : p \in w <=> p \in c (+) top
        <3>1. \A p \in w : p \in 0 .. 63 /\ (p \in 0 .. 59 <=> ~(p \in 60 .. 63))
            BY DEF Word64
        <3>2. \A p : p \in c (+) top <=> ~(p \in c <=> p \in top)
            BY DEF (+)
        <3> QED
            BY <3>1, <3>2
    <2> QED
        BY <2>2, <2>3
<1>3. S \in SUBSET Int /\ R \in SUBSET Int /\ IsFiniteSet(S) /\ IsFiniteSet(R)
    BY WindowsFinite, FS_Subset
<1>4. /\ \A i \in S : f[i] \in SUBSET Int
      /\ \A i \in R : f[i] \in SUBSET Int
      /\ \A k \in top : e[k] \in SUBSET Int
    BY DEF Conv, Word64
<1>5. ASSUME NEW p \in Int
      PROVE  ~(Odd(Sums(S, f, p)) <=> Odd(Sums(top, e, p))) <=> p \in Conv(a, w)
    <2>1. Sums(S, f, p) = Partial(a, c, 16, p)
        BY DEF Sums, Partial
    <2>2. Odd(Sums(S, f, p)) <=> p \in Conv(a, c)
        BY <1>2, <2>1, AllWindows DEF Conv
    <2>3. Sums(top, e, p) = Ways(top, a, p)
        BY DEF Sums, Ways
    <2>4. Odd(Sums(top, e, p)) <=> p \in Conv(a, top)
        <3>1. Conv(top, a) = Conv(a, top)
            BY <1>2, WaysCommute
        <3> QED
            BY <2>3, <3>1 DEF Conv
    <2>5. Conv(a, w) = Conv(a, c) (+) Conv(a, top)
        BY <1>2, Linear
    <2>6. p \in Conv(a, c) (+) Conv(a, top) <=> ~(p \in Conv(a, c) <=> p \in Conv(a, top))
        BY DEF (+)
    <2> QED
        BY <2>2, <2>4, <2>5, <2>6
<1>6. ASSUME NEW p \in Int, p >= 64 PROVE Sums(R, f, p) = Sums(S, f, p)
    <2>1. p - 0 \notin Conv(Window(a, 0), c)
        <3>1. ASSUME NEW j \in Window(a, 0), (p - 0) - j \in c PROVE FALSE
            BY <1>6, <3>1 DEF Window
        <3>2. Ways(Window(a, 0), c, p - 0) = {}
            BY <3>1 DEF Ways
        <3> QED
            BY <3>2, NoneIsEven DEF Conv
    <2> QED
        BY <2>1 DEF Sums
<1> HIDE DEF c, top, S, R, f, e
<1>7. \A A, V, p : p \in A (+) V <=> ~(p \in A <=> p \in V)
    BY DEF (+)
<1>8. ASSUME NEW p PROVE p \in low <=> p \in Int /\ p < 64 /\ p \in Conv(a, w)
    <2>1. p \in Lower(S, f) <=> p \in Int /\ p < 64 /\ Odd(Sums(S, f, p))
        BY <1>3, <1>4, LowerBits
    <2>2. p \in Lower(top, e) <=> p \in Int /\ p < 64 /\ Odd(Sums(top, e, p))
        BY <1>2, <1>4, LowerBits DEF BitSet
    <2> QED
        BY <1>5, <1>7, <2>1, <2>2
<1>9. ASSUME NEW p PROVE p \in high <=> p \in Int /\ p >= 0 /\ p + 64 \in Conv(a, w)
    <2>1. p \in Upper(R, f) <=> p \in Int /\ p >= 0 /\ Odd(Sums(R, f, p + 64))
        BY <1>3, <1>4, UpperBits
    <2>2. p \in Upper(top, e) <=> p \in Int /\ p >= 0 /\ Odd(Sums(top, e, p + 64))
        BY <1>2, <1>4, UpperBits DEF BitSet
    <2>3. p \in Int /\ p >= 0 => p + 64 \in Int /\ p + 64 >= 64
        OBVIOUS
    <2>4. p \in Int /\ p >= 0 => Sums(R, f, p + 64) = Sums(S, f, p + 64)
        BY <1>6, <2>3
    <2> QED
        BY <1>5, <1>7, <2>1, <2>2, <2>3, <2>4
<1> HIDE DEF low, high
<1>10. \A p : p \in Up(high, 64) <=> p \in Int /\ p >= 64 /\ p \in Conv(a, w)
    <2>1. high \in SUBSET Int
        BY <1>9
    <2>2. \A p : p \in Up(high, 64) <=> p \in Int /\ p - 64 \in high
        BY <2>1, Shifted
    <2>3. \A p \in Int : p - 64 \in Int /\ (p - 64) + 64 = p /\ (p - 64 >= 0 <=> p >= 64)
        OBVIOUS
    <2> QED
        BY <1>9, <2>2, <2>3
<1>11. \A p \in Int : p < 64 \/ p >= 64
    OBVIOUS
<1>12. \A p : p \in low \cup Up(high, 64) <=> p \in Conv(a, w)
    <2>1. Conv(a, w) \in SUBSET Int
        BY DEF Conv
    <2> QED
        BY <1>8, <1>10, <1>11, <2>1
<1> QED
    BY <1>1, <1>12

-----------------------------------------------------------------------------
(* The carry-less multiplier and its driver.                               *)

(* The accesses of s from the k-th on                                      *)
LEMMA From ==
    ASSUME NEW T, NEW s \in Seq(T), NEW k \in 1 .. Len(s), NEW p, p = SubSeq(s, k, Len(s))
    PROVE  /\ p # << >> /\ Len(p) = Len(s) - k + 1 /\ Head(p) = s[k]
           /\ Tail(p) = SubSeq(s, k + 1, Len(s)) /\ Tail(p) # p
           /\ k = Len(s) => Tail(p) = << >>
<1>1. p \in Seq(T) /\ Len(p) = Len(s) - k + 1 /\ \A i \in 1 .. Len(p) : p[i] = s[k + i - 1]
    OBVIOUS
<1>2. p # << >> /\ Head(p) = p[1] /\ p[1] = s[k]
    <2>1. 1 \in 1 .. Len(p) /\ k + 1 - 1 = k
        BY <1>1
    <2>2. p[1] = s[k]
        <3>1. PICK i \in 1 .. Len(p) : i = 1
            BY <2>1
        <3>2. p[i] = s[k + i - 1]
            BY <1>1
        <3> QED
            BY <2>1, <3>1, <3>2
    <2>3. p # << >>
        <3>1. Len(p) # 0
            BY <1>1
        <3> QED
            BY <3>1
    <2>4. Head(p) = p[1]
        BY <1>1, <2>3
    <2> QED
        BY <2>2, <2>3, <2>4
<1>3. /\ Tail(p) \in Seq(T) /\ Len(Tail(p)) = Len(s) - k
      /\ \A i \in 1 .. Len(s) - k : Tail(p)[i] = s[k + i]
    <2>1. Tail(p) \in Seq(T) /\ Len(Tail(p)) = Len(p) - 1
        BY <1>1, <1>2
    <2>2. ASSUME NEW i \in 1 .. Len(s) - k PROVE Tail(p)[i] = s[k + i]
        <3>1. Tail(p)[i] = p[i + 1] /\ i + 1 \in 1 .. Len(p) /\ k + (i + 1) - 1 = k + i
            BY <1>1, <1>2
        <3> QED
            BY <1>1, <3>1
    <2> QED
        BY <1>1, <2>1, <2>2
<1> DEFINE q == SubSeq(s, k + 1, Len(s))
<1>4. q \in Seq(T) /\ Len(q) = Len(s) - k /\ \A i \in 1 .. Len(s) - k : q[i] = s[k + i]
    <2>1. k + 1 \in 1 .. Len(s) + 1 /\ Len(s) \in 0 .. Len(s)
        OBVIOUS
    <2>2. q \in Seq(T) /\ Len(q) = Len(s) - (k + 1) + 1 /\ \A i \in 1 .. Len(q) : q[i] = s[(k + 1) + i - 1]
        OBVIOUS
    <2>3. Len(s) - (k + 1) + 1 = Len(s) - k
        OBVIOUS
    <2>4. \A i \in Int : (k + 1) + i - 1 = k + i
        OBVIOUS
    <2> HIDE DEF q
    <2> QED
        BY <2>2, <2>3, <2>4
<1> HIDE DEF q
<1>5. Tail(p) = q
    BY <1>3, <1>4, SMTT(30)
<1>6. Tail(p) # p
    <2>1. Len(s) - k + 1 # Len(s) - k
        OBVIOUS
    <2> QED
        BY <1>1, <1>3, <2>1
<1>7. k = Len(s) => Tail(p) = << >>
    <2>1. k = Len(s) => Len(Tail(p)) = 0
        BY <1>3
    <2> QED
        BY <1>3, <2>1, EmptySeq, Zenon
<1> QED
    BY <1>1, <1>2, <1>5, <1>6, <1>7 DEF q

(* A store in MEM writes the register of its device.                       *)
LEMMA StoresWrite ==
    ASSUME NEW r, NEW x, InMem, Head(plan) = Store(r, x), device \in {"gf_accel", "base_mul"}
    PROVE  Access.wdata = x /\ \A q : Writes(Access, device, q) <=> q = r
<1>1. Head(plan).kind = "store" /\ Head(plan).reg = r /\ Head(plan).data = x
    BY Kinds
<1>2. Access = Write(Address(8, BusNumber[device], r), x)
    BY <1>1 DEF Access
<1>3. /\ Access.address.region = 8 /\ Access.address.device = BusNumber[device]
      /\ Access.address.reg = r /\ Access.we /\ Access.wdata = x
    BY <1>2 DEF Write, Address
<1>4. BusNumber["gf_accel"] = 4 /\ BusNumber["base_mul"] = 3
    BY DEF BusNumber
<1>5. Devices[5] = "gf_accel" /\ Devices[4] = "base_mul" /\ Len(Devices) = 6
    BY DEF Devices
<1>6. Selected(Access.address) = device
    BY <1>3, <1>4, <1>5 DEF Selected
<1> QED
    BY <1>3, <1>6 DEF Writes

MulAccesses == {Store(r, z) : r \in 0 .. 3, z \in SUBSET Int} \cup {Load(r) : r \in 4 .. 7}

(* The bits of the k-th 32-bit word of a value                             *)
LEMMA WordOfBits ==
    ASSUME NEW x \in SUBSET Int, NEW k \in Int
    PROVE  WordOf(x, k) \in SUBSET (0 .. 31)
           /\ \A p : p \in WordOf(x, k) <=> p \in 0 .. 31 /\ p + 32 * k \in x
<1>1. \A p : p \in Down(x, 32 * k) <=> p \in Int /\ p >= 0 /\ p + 32 * k \in x
    BY ShiftedDown
<1> QED
    BY <1>1 DEF WordOf, Low

(* The accesses of base_mul_hw by position                                 *)
LEMMA MulPlan ==
    ASSUME NEW x \in Word64, NEW y \in Word64
    PROVE  LET s == base_mul_hw(x, y)
           IN  /\ s \in Seq(MulAccesses) /\ Len(s) = 8
               /\ s[1] = Store(0, WordOf(x, 0)) /\ s[2] = Store(1, WordOf(x, 1))
               /\ s[3] = Store(2, WordOf(y, 0)) /\ s[4] = Store(3, WordOf(y, 1))
               /\ s[5] = Load(4) /\ s[6] = Load(5) /\ s[7] = Load(6) /\ s[8] = Load(7)
<1>1. /\ 0 + 1 = 1 /\ 2 + 1 = 3 /\ x \in SUBSET Int /\ y \in SUBSET Int
    BY DEF Word64
<1>2. \A z \in SUBSET Int : WordOf(z, 0) \in SUBSET Int /\ WordOf(z, 1) \in SUBSET Int
    BY WordOfBits
<1> DEFINE u == mul_write(0, x)
           v == mul_write(2, y)
<1>3. u \in Seq(MulAccesses) /\ Len(u) = 2 /\ u[1] = Store(0, WordOf(x, 0)) /\ u[2] = Store(1, WordOf(x, 1))
    <2>1. Store(0, WordOf(x, 0)) \in MulAccesses /\ Store(1, WordOf(x, 1)) \in MulAccesses
        BY <1>1, <1>2 DEF MulAccesses
    <2> QED
        BY <1>1, <2>1 DEF mul_write
<1>4. v \in Seq(MulAccesses) /\ Len(v) = 2 /\ v[1] = Store(2, WordOf(y, 0)) /\ v[2] = Store(3, WordOf(y, 1))
    <2>1. Store(2, WordOf(y, 0)) \in MulAccesses /\ Store(3, WordOf(y, 1)) \in MulAccesses
        BY <1>1, <1>2 DEF MulAccesses
    <2> QED
        BY <1>1, <2>1 DEF mul_write
<1>5. /\ mul_read \in Seq(MulAccesses) /\ Len(mul_read) = 4
      /\ mul_read[1] = Load(4) /\ mul_read[2] = Load(5) /\ mul_read[3] = Load(6) /\ mul_read[4] = Load(7)
    <2>1. \A r \in 4 .. 7 : Load(r) \in MulAccesses
        BY DEF MulAccesses
    <2> QED
        BY <2>1 DEF mul_read
<1>6. base_mul_hw(x, y) = (u \o v) \o mul_read
    BY DEF base_mul_hw
<1> HIDE DEF u, v
<1>7. /\ u \o v \in Seq(MulAccesses) /\ Len(u \o v) = 4
      /\ (u \o v)[1] = u[1] /\ (u \o v)[2] = u[2] /\ (u \o v)[3] = v[1] /\ (u \o v)[4] = v[2]
    <2>1. /\ 2 + 2 = 4 /\ 2 + 1 = 3 /\ 1 \in 1 .. 2 /\ 2 \in 1 .. 2
        OBVIOUS
    <2>2. /\ u \o v \in Seq(MulAccesses) /\ Len(u \o v) = Len(u) + Len(v)
          /\ \A i \in 1 .. Len(u) : (u \o v)[i] = u[i]
          /\ \A i \in 1 .. Len(v) : (u \o v)[Len(u) + i] = v[i]
        BY <1>3, <1>4, Joined
    <2> QED
        BY <1>3, <1>4, <2>1, <2>2
<1>8. PICK w : w = u \o v
    OBVIOUS
<1>9. /\ w \o mul_read \in Seq(MulAccesses) /\ Len(w \o mul_read) = 8
      /\ \A i \in 1 .. 4 : (w \o mul_read)[i] = w[i] /\ (w \o mul_read)[4 + i] = mul_read[i]
    <2>1. 4 + 4 = 8
        OBVIOUS
    <2>2. /\ w \o mul_read \in Seq(MulAccesses) /\ Len(w \o mul_read) = Len(w) + Len(mul_read)
          /\ \A i \in 1 .. Len(w) : (w \o mul_read)[i] = w[i]
          /\ \A i \in 1 .. Len(mul_read) : (w \o mul_read)[Len(w) + i] = mul_read[i]
        <3>1. PICK t \in Seq(MulAccesses) : t = mul_read
            BY <1>5
        <3>2. w \in Seq(MulAccesses)
            BY <1>7, <1>8
        <3>3. /\ w \o t \in Seq(MulAccesses) /\ Len(w \o t) = Len(w) + Len(t)
              /\ \A i \in 1 .. Len(w) : (w \o t)[i] = w[i]
              /\ \A i \in 1 .. Len(t) : (w \o t)[Len(w) + i] = t[i]
            BY <3>2, Joined
        <3> QED
            BY <3>1, <3>3
    <2> QED
        BY <1>5, <1>7, <1>8, <2>1, <2>2
<1>10. /\ 1 \in 1 .. 4 /\ 2 \in 1 .. 4 /\ 3 \in 1 .. 4 /\ 4 \in 1 .. 4
       /\ 4 + 1 = 5 /\ 4 + 2 = 6 /\ 4 + 3 = 7 /\ 4 + 4 = 8
    OBVIOUS
<1> QED
    BY <1>3, <1>4, <1>5, <1>6, <1>7, <1>8, <1>9, <1>10

(* Writing a half of a register                                            *)
LEMMA HalfWritten ==
    ASSUME NEW x \in Word64, NEW z \in SUBSET (0 .. 31)
    PROVE  LET low == z \cup Up(WordOf(x, 1), 32)
               high == WordOf(x, 0) \cup Up(z, 32)
           IN  /\ low \in Word64 /\ WordOf(low, 0) = z
               /\ high \in Word64
               /\ \A y \in Word64 : WordOf(x, 0) = WordOf(y, 0) /\ z = WordOf(y, 1) => high = y
<1> DEFINE low == z \cup Up(WordOf(x, 1), 32)
           high == WordOf(x, 0) \cup Up(z, 32)
<1>1. x \in SUBSET Int /\ z \in SUBSET Int /\ 0 \in Int /\ 1 \in Int /\ 32 \in Int
    BY DEF Word64
<1>2. /\ WordOf(x, 0) \in SUBSET (0 .. 31) /\ WordOf(x, 1) \in SUBSET (0 .. 31)
    BY <1>1, WordOfBits
<1>3. /\ \A p : p \in Up(WordOf(x, 1), 32) <=> p \in Int /\ p - 32 \in WordOf(x, 1)
      /\ \A p : p \in Up(z, 32) <=> p \in Int /\ p - 32 \in z
    <2>1. WordOf(x, 1) \in SUBSET Int
        BY <1>2
    <2> QED
        BY <1>1, <2>1, Shifted
<1>4. \A p : p - 32 \in 0 .. 31 /\ p \in Int => p \in 32 .. 63
    OBVIOUS
<1>5. low \in Word64 /\ high \in Word64
    <2>1. \A p \in 0 .. 31 : p \in 0 .. 63
        OBVIOUS
    <2>2. \A p \in 32 .. 63 : p \in 0 .. 63
        OBVIOUS
    <2> QED
        BY <1>2, <1>3, <1>4, <2>1, <2>2 DEF Word64
<1>6. WordOf(low, 0) = z
    <2>1. \A p : p \in WordOf(low, 0) <=> p \in 0 .. 31 /\ p + 32 * 0 \in low
        <3>1. low \in SUBSET Int
            BY <1>5 DEF Word64
        <3> HIDE DEF low
        <3> QED
            BY <3>1, <1>1, WordOfBits
    <2>2. \A p \in 0 .. 31 : p + 32 * 0 = p /\ p \notin 32 .. 63
        OBVIOUS
    <2>3. \A p \in 0 .. 31 : p \in low <=> p \in z
        BY <1>2, <1>3, <1>4, <2>2
    <2> HIDE DEF low
    <2>4. \A p \in 0 .. 31 : p \in WordOf(low, 0) <=> p \in z
        BY <2>1, <2>2, <2>3
    <2>5. WordOf(low, 0) \subseteq 0 .. 31
        BY <2>1
    <2> QED
        BY <2>4, <2>5
<1>7. ASSUME NEW y \in Word64, WordOf(x, 0) = WordOf(y, 0), z = WordOf(y, 1) PROVE high = y
    <2>1. /\ \A p : p \in WordOf(y, 0) <=> p \in 0 .. 31 /\ p + 32 * 0 \in y
          /\ \A p : p \in WordOf(y, 1) <=> p \in 0 .. 31 /\ p + 32 * 1 \in y
        <3>1. y \in SUBSET Int
            BY DEF Word64
        <3> QED
            BY <3>1, <1>1, WordOfBits
    <2>2. /\ \A p \in 0 .. 31 : p + 32 * 0 = p
          /\ \A p \in Int : (p - 32) + 32 * 1 = p
          /\ \A p \in 0 .. 63 : p \in 0 .. 31 \/ p - 32 \in 0 .. 31
        OBVIOUS
    <2>3. \A p : p \in high <=> p \in WordOf(y, 0) \/ (p \in Int /\ p - 32 \in WordOf(y, 1))
        BY <1>3, <1>7
    <2> HIDE DEF high
    <2>4. \A p : p \in high => p \in y
        BY <2>1, <2>2, <2>3
    <2>5. \A p \in y : p \in high
        <3>1. SUFFICES ASSUME NEW p \in y PROVE p \in high
            OBVIOUS
        <3>2. p \in 0 .. 63 /\ p \in Int
            BY DEF Word64
        <3>3. CASE p \in 0 .. 31
            BY <2>1, <2>2, <2>3, <3>3
        <3>4. CASE p - 32 \in 0 .. 31
            BY <2>1, <2>2, <2>3, <3>2, <3>4
        <3> QED
            BY <2>2, <3>2, <3>3, <3>4
    <2> QED
        BY <2>4, <2>5
<1> QED
    BY <1>5, <1>6, <1>7

(* The k-th access of a multiplication is to come: what the registers hold *)
(* of the factors, and what has been loaded of the product.                *)
WordsLoaded(k) == IF k < 5 THEN 0 ELSE k - 5

Multiplying(x, y, k) ==
    /\ plan = SubSeq(base_mul_hw(x, y), k, 8)
    /\ k > 1 => WordOf(aReg, 0) = WordOf(x, 0)
    /\ k > 2 => aReg = x
    /\ k > 3 => WordOf(bReg, 0) = WordOf(y, 0)
    /\ k > 4 => bReg = y
    /\ loaded \in Seq(SUBSET Int) /\ Len(loaded) = WordsLoaded(k)
    /\ \A j \in 1 .. WordsLoaded(k) : loaded[j] = WordOf(Conv(x, y), j - 1)

MultiplierInv ==
    device = "base_mul" =>
        /\ aReg \in Word64 /\ bReg \in Word64
        /\ call = None => plan = << >>
        /\ call # None =>
              /\ answer = None
              /\ \E x, y \in Factors :
                    /\ call = <<"base_mul", x, y>>
                    /\ \E k \in 1 .. 8 : Multiplying(x, y, k)
        /\ ProductsAreRight

(* Without a store the factors stay.                                       *)
LEMMA MultiplierKeeps ==
    ASSUME device = "base_mul", ClockMultiplier, ~InMem \/ Head(plan).kind # "store"
    PROVE  aReg' = aReg /\ bReg' = bReg
    BY OnlyStoresWrite DEF ClockMultiplier

(* A store writes a half of a factor.                                      *)
LEMMA MultiplierWritten ==
    ASSUME device = "base_mul", ClockMultiplier, InMem,
           NEW r \in 0 .. 3, NEW z, Head(plan) = Store(r, z)
    PROVE  /\ r = 0 => aReg' = z \cup Up(WordOf(aReg, 1), 32) /\ bReg' = bReg
           /\ r = 1 => aReg' = WordOf(aReg, 0) \cup Up(z, 32) /\ bReg' = bReg
           /\ r = 2 => aReg' = aReg /\ bReg' = z \cup Up(WordOf(bReg, 1), 32)
           /\ r = 3 => aReg' = aReg /\ bReg' = WordOf(bReg, 0) \cup Up(z, 32)
<1>1. Access.wdata = z /\ \A q : Writes(Access, "base_mul", q) <=> q = r
    BY StoresWrite
<1> QED
    BY <1>1 DEF ClockMultiplier

(* A load gets a word of the product of what the registers hold.           *)
LEMMA ReadsMultiplier ==
    ASSUME device = "base_mul", NEW r
    PROVE  ReadData(r) = WordOf(karatNbit(64, aReg, bReg), r - 4)
<1>1. "base_mul" # "gf_accel"
    OBVIOUS
<1> QED
    BY <1>1, Zenon DEF ReadData

(* A cycle in which the driver waits                                       *)
LEMMA MultiplierWaits ==
    ASSUME device = "base_mul", MultiplierInv, device' = device, ClockMultiplier,
           ~InMem \/ Head(plan).kind # "store", UNCHANGED <<call, plan, loaded, answer>>
    PROVE  MultiplierInv'
<1>1. aReg' = aReg /\ bReg' = bReg
    BY MultiplierKeeps
<1> QED
    BY <1>1 DEF MultiplierInv, Multiplying, ProductsAreRight

(* A multiplication begins.                                                *)
LEMMA MultiplierCalls ==
    ASSUME device = "base_mul", MultiplierInv, device' = device, ClockMultiplier, CallMultiplier
    PROVE  MultiplierInv'
<1>1. PICK x \in Factors, y \in Factors : Call("base_mul", <<"base_mul", x, y>>, base_mul_hw(x, y))
    BY DEF CallMultiplier
<1>2. /\ call = None /\ call' = <<"base_mul", x, y>> /\ plan' = base_mul_hw(x, y)
      /\ loaded' = << >> /\ answer' = None
    BY <1>1 DEF Call
<1>3. plan = << >> /\ aReg \in Word64 /\ bReg \in Word64
    BY <1>2 DEF MultiplierInv
<1>4. aReg' = aReg /\ bReg' = bReg
    BY <1>3, MultiplierKeeps DEF InMem
<1>5. x \in Word64 /\ y \in Word64
    BY CallAssumption DEF Word64
<1>6. plan' = SubSeq(base_mul_hw(x, y), 1, 8)
    <2>1. PICK s \in Seq(MulAccesses) : s = base_mul_hw(x, y) /\ Len(s) = 8
        BY <1>5, MulPlan
    <2>2. s = SubSeq(s, 1, Len(s))
        OBVIOUS
    <2> QED
        BY <1>2, <2>1, <2>2
<1>7. 1 \in 1 .. 8 /\ Multiplying(x, y, 1)'
    <2>1. /\ 1 \in 1 .. 8 /\ 1 < 5 /\ ~(1 > 1) /\ ~(1 > 2) /\ ~(1 > 3) /\ ~(1 > 4)
          /\ ~\E j \in 1 .. 0 : TRUE
        OBVIOUS
    <2>2. WordsLoaded(1) = 0
        BY <2>1 DEF WordsLoaded
    <2>3. loaded' \in Seq(SUBSET Int) /\ Len(loaded') = 0
        BY <1>2
    <2> QED
        BY <1>6, <2>1, <2>2, <2>3 DEF Multiplying
<1>8. \E u, v \in Factors : call' = <<"base_mul", u, v>> /\ \E k \in 1 .. 8 : Multiplying(u, v, k)'
    BY <1>2, <1>7
<1>9. call' # None
    BY <1>2, CallAssumption
<1> QED
    BY <1>2, <1>3, <1>4, <1>8, <1>9 DEF MultiplierInv, ProductsAreRight

(* A store of the driver                                                   *)
LEMMA FactorStored ==
    ASSUME device = "base_mul", device' = device, ClockMultiplier, InMem,
           NEW x \in Word64, NEW y \in Word64, NEW k \in 1 .. 4, Multiplying(x, y, k),
           aReg \in Word64, bReg \in Word64,
           plan' = Tail(plan), loaded' = loaded
    PROVE  aReg' \in Word64 /\ bReg' \in Word64 /\ Multiplying(x, y, k + 1)'
<1> DEFINE s == base_mul_hw(x, y)
<1>1. /\ s \in Seq(MulAccesses) /\ Len(s) = 8
      /\ s[1] = Store(0, WordOf(x, 0)) /\ s[2] = Store(1, WordOf(x, 1))
      /\ s[3] = Store(2, WordOf(y, 0)) /\ s[4] = Store(3, WordOf(y, 1))
    BY MulPlan
<1>2. Head(plan) = s[k] /\ plan' = SubSeq(s, k + 1, 8)
    <2>1. k \in 1 .. Len(s) /\ plan = SubSeq(s, k, Len(s))
        BY <1>1 DEF Multiplying
    <2> HIDE DEF s
    <2> QED
        BY <1>1, <2>1, From
<1>3. /\ WordOf(x, 0) \in SUBSET (0 .. 31) /\ WordOf(x, 1) \in SUBSET (0 .. 31)
      /\ WordOf(y, 0) \in SUBSET (0 .. 31) /\ WordOf(y, 1) \in SUBSET (0 .. 31)
    <2>1. x \in SUBSET Int /\ y \in SUBSET Int /\ 0 \in Int /\ 1 \in Int
        BY DEF Word64
    <2> QED
        BY <2>1, WordOfBits
<1>4. /\ loaded' \in Seq(SUBSET Int) /\ Len(loaded') = 0
      /\ WordsLoaded(k + 1) = 0
    <2>1. k < 5 /\ (k + 1 < 5 \/ k + 1 = 5) /\ 5 - 5 = 0
        OBVIOUS
    <2> QED
        BY <2>1 DEF Multiplying, WordsLoaded
<1>5. /\ k > 1 => WordOf(aReg, 0) = WordOf(x, 0)
      /\ k > 2 => aReg = x
      /\ k > 3 => WordOf(bReg, 0) = WordOf(y, 0)
    BY DEF Multiplying
<1>6. ASSUME /\ aReg' \in Word64 /\ bReg' \in Word64
             /\ WordOf(aReg, 0)' = WordOf(x, 0)
             /\ k > 1 => aReg' = x
             /\ k > 2 => WordOf(bReg, 0)' = WordOf(y, 0)
             /\ k > 3 => bReg' = y
      PROVE  aReg' \in Word64 /\ bReg' \in Word64 /\ Multiplying(x, y, k + 1)'
    <2>1. (k + 1 > 2 <=> k > 1) /\ (k + 1 > 3 <=> k > 2) /\ (k + 1 > 4 <=> k > 3)
        OBVIOUS
    <2>2. ~\E j \in 1 .. 0 : TRUE
        OBVIOUS
    <2> HIDE DEF s
    <2> QED
        BY <1>2, <1>4, <1>6, <2>1, <2>2 DEF Multiplying, s
<1>7. k = 1 \/ k = 2 \/ k = 3 \/ k = 4
    OBVIOUS
<1>8. CASE k = 1
    <2>1. aReg' = WordOf(x, 0) \cup Up(WordOf(aReg, 1), 32) /\ bReg' = bReg
        BY <1>1, <1>2, <1>8, MultiplierWritten
    <2>2. aReg' \in Word64 /\ WordOf(aReg, 0)' = WordOf(x, 0)
        BY <1>3, <2>1, HalfWritten
    <2>3. ~(k > 1) /\ ~(k > 2) /\ ~(k > 3)
        BY <1>8
    <2> QED
        BY <1>6, <2>1, <2>2, <2>3
<1>9. CASE k = 2
    <2>1. aReg' = WordOf(aReg, 0) \cup Up(WordOf(x, 1), 32) /\ bReg' = bReg
        BY <1>1, <1>2, <1>9, MultiplierWritten
    <2>2. aReg' = x
        <3>1. WordOf(aReg, 0) = WordOf(x, 0)
            BY <1>5, <1>9
        <3>2. PICK z \in SUBSET (0 .. 31) : z = WordOf(x, 1)
            BY <1>3
        <3>3. WordOf(aReg, 0) \cup Up(z, 32) = x
            BY <3>1, <3>2, HalfWritten
        <3> QED
            BY <2>1, <3>2, <3>3
    <2>3. ~(k > 2) /\ ~(k > 3)
        BY <1>9
    <2> QED
        BY <1>6, <2>1, <2>2, <2>3
<1>10. CASE k = 3
    <2>1. aReg' = aReg /\ bReg' = WordOf(y, 0) \cup Up(WordOf(bReg, 1), 32)
        BY <1>1, <1>2, <1>10, MultiplierWritten
    <2>2. bReg' \in Word64 /\ WordOf(bReg, 0)' = WordOf(y, 0)
        BY <1>3, <2>1, HalfWritten
    <2>3. aReg = x /\ ~(k > 3)
        BY <1>5, <1>10
    <2> QED
        BY <1>6, <2>1, <2>2, <2>3
<1>11. CASE k = 4
    <2>1. aReg' = aReg /\ bReg' = WordOf(bReg, 0) \cup Up(WordOf(y, 1), 32)
        BY <1>1, <1>2, <1>11, MultiplierWritten
    <2>2. bReg' = y
        <3>1. WordOf(bReg, 0) = WordOf(y, 0)
            BY <1>5, <1>11
        <3>2. PICK z \in SUBSET (0 .. 31) : z = WordOf(y, 1)
            BY <1>3
        <3>3. WordOf(bReg, 0) \cup Up(z, 32) = y
            BY <3>1, <3>2, HalfWritten
        <3> QED
            BY <2>1, <3>2, <3>3
    <2>3. aReg = x
        BY <1>5, <1>11
    <2> QED
        BY <1>6, <2>1, <2>2, <2>3
<1> QED
    BY <1>7, <1>8, <1>9, <1>10, <1>11

(* An access leaves MEM: a store, a load, or the last load.                *)
LEMMA MultiplierProceeds ==
    ASSUME device = "base_mul", MultiplierInv, device' = device, ClockMultiplier, Proceed
    PROVE  MultiplierInv'
<1>1. InMem /\ plan # << >>
    BY DEF Proceed, MayLeave, InMem
<1>2. call # None /\ answer = None /\ aReg \in Word64 /\ bReg \in Word64
    BY <1>1 DEF MultiplierInv
<1>3. PICK x \in Factors, y \in Factors, k \in 1 .. 8 :
          call = <<"base_mul", x, y>> /\ Multiplying(x, y, k)
    BY <1>2 DEF MultiplierInv
<1> DEFINE s == base_mul_hw(x, y)
<1>4. x \in Word64 /\ y \in Word64
    BY CallAssumption DEF Word64
<1>5. /\ s \in Seq(MulAccesses) /\ Len(s) = 8
      /\ s[1] = Store(0, WordOf(x, 0)) /\ s[2] = Store(1, WordOf(x, 1))
      /\ s[3] = Store(2, WordOf(y, 0)) /\ s[4] = Store(3, WordOf(y, 1))
      /\ s[5] = Load(4) /\ s[6] = Load(5) /\ s[7] = Load(6) /\ s[8] = Load(7)
    BY <1>4, MulPlan
<1>6. /\ Head(plan) = s[k] /\ Tail(plan) = SubSeq(s, k + 1, 8) /\ Len(plan) = 8 - k + 1
      /\ k = 8 => Tail(plan) = << >>
    <2>1. k \in 1 .. Len(s) /\ plan = SubSeq(s, k, Len(s))
        BY <1>3, <1>5 DEF Multiplying
    <2> HIDE DEF s
    <2> QED
        BY <1>5, <2>1, From
<1>7. /\ call[1] = "base_mul" /\ call # <<"read">> /\ call # <<"reset">>
      /\ \A l : ~again(l)
    <2>1. <<"base_mul", x, y>>[1] = "base_mul" /\ <<"read">>[1] = "read" /\ <<"reset">>[1] = "reset"
        OBVIOUS
    <2> QED
        BY <1>3, <2>1 DEF again
<1> HIDE DEF s
<1>8. CASE k \in 1 .. 4
    <2>1. Head(plan).kind # "load" /\ Len(plan) > 1
        <3>1. k = 1 \/ k = 2 \/ k = 3 \/ k = 4
            BY <1>8
        <3>2. Head(plan).kind = "store"
            BY <1>5, <1>6, <3>1, Kinds
        <3> QED
            BY <1>6, <1>8, <3>2
    <2>2. plan' = Tail(plan) /\ loaded' = loaded /\ UNCHANGED <<call, answer>>
        BY <2>1 DEF Proceed
    <2>3. aReg' \in Word64 /\ bReg' \in Word64 /\ Multiplying(x, y, k + 1)'
        BY <1>1, <1>2, <1>3, <1>4, <1>8, <2>2, FactorStored
    <2>4. k + 1 \in 1 .. 8
        BY <1>8
    <2>5. \E u, v \in Factors : call' = <<"base_mul", u, v>> /\ \E n \in 1 .. 8 : Multiplying(u, v, n)'
        BY <1>3, <2>2, <2>3, <2>4
    <2> QED
        BY <1>2, <2>2, <2>3, <2>5 DEF MultiplierInv, ProductsAreRight
<1>9. CASE k \in 5 .. 8
    <2> DEFINE n == k - 5
               prod == Conv(x, y)
               l == Append(loaded, WordOf(prod, n))
    <2>1. k = 5 \/ k = 6 \/ k = 7 \/ k = 8
        BY <1>9
    <2>2. n \in 0 .. 3 /\ WordsLoaded(k) = n /\ k > 2 /\ k > 4
        BY <1>9 DEF WordsLoaded
    <2>3. Head(plan) = Load(n + 4)
        BY <1>5, <1>6, <2>1
    <2>4. Head(plan).kind = "load" /\ Head(plan).reg = n + 4
        BY <2>3, Kinds
    <2>5. aReg = x /\ bReg = y /\ aReg' = aReg /\ bReg' = bReg
        <3>1. Head(plan).kind # "store"
            BY <2>4
        <3> QED
            BY <1>3, <2>2, <3>1, MultiplierKeeps DEF Multiplying
    <2>6. ReadData(Head(plan).reg) = WordOf(prod, n)
        <3>1. (n + 4) - 4 = n
            BY <2>2
        <3>2. karatNbit(64, aReg, bReg) = prod
            BY <1>4, <2>5, Karatsuba
        <3> QED
            BY <2>4, <3>1, <3>2, ReadsMultiplier
    <2>7. prod \in SUBSET Int /\ WordOf(prod, n) \in SUBSET Int
        <3>1. prod \in SUBSET Int
            BY DEF Conv
        <3> QED
            BY <2>2, <3>1, WordOfBits
    <2>8. /\ loaded \in Seq(SUBSET Int) /\ Len(loaded) = n
          /\ \A j \in 1 .. n : loaded[j] = WordOf(prod, j - 1)
        BY <1>3, <2>2 DEF Multiplying
    <2> HIDE DEF prod
    <2>9. /\ l \in Seq(SUBSET Int) /\ Len(l) = n + 1
          /\ \A j \in 1 .. n + 1 : l[j] = WordOf(prod, j - 1)
        <3>1. /\ l \in Seq(SUBSET Int) /\ Len(l) = Len(loaded) + 1
              /\ \A i \in 1 .. Len(loaded) : l[i] = loaded[i]
              /\ l[Len(loaded) + 1] = WordOf(prod, n)
            BY <2>7, <2>8, Appended
        <3>2. ASSUME NEW j \in 1 .. n + 1 PROVE l[j] = WordOf(prod, j - 1)
            <4>1. CASE j \in 1 .. n
                BY <2>8, <3>1, <4>1
            <4>2. CASE j = n + 1
                <5>1. j - 1 = n
                    BY <2>2, <4>2
                <5> QED
                    BY <2>8, <3>1, <4>2, <5>1
            <4>3. j \in 1 .. n \/ j = n + 1
                <5>1. PICK m \in Int : m = n
                    BY <2>2
                <5>2. \A i \in 1 .. m + 1 : i \in 1 .. m \/ i = m + 1
                    OBVIOUS
                <5> HIDE DEF n
                <5> QED
                    BY <5>1, <5>2
            <4> QED
                BY <4>1, <4>2, <4>3
        <3> QED
            BY <2>8, <3>1, <3>2
    <2>10. CASE k # 8
        <3>1. Len(plan) > 1 /\ k + 1 \in 1 .. 8 /\ WordsLoaded(k + 1) = n + 1
            BY <1>6, <2>1, <2>10 DEF WordsLoaded
        <3>2. plan' = Tail(plan) /\ loaded' = l /\ UNCHANGED <<call, answer>>
            BY <2>4, <2>6, <3>1 DEF Proceed
        <3>3. Multiplying(x, y, k + 1)'
            <4> HIDE DEF n, l
            <4> QED
                BY <1>6, <2>5, <2>9, <3>1, <3>2 DEF Multiplying, s, prod
        <3>4. \E u, v \in Factors : call' = <<"base_mul", u, v>> /\ \E m \in 1 .. 8 : Multiplying(u, v, m)'
            BY <1>3, <3>1, <3>2, <3>3
        <3> QED
            BY <1>2, <2>5, <3>2, <3>4 DEF MultiplierInv, ProductsAreRight
    <2>11. CASE k = 8
        <3>1. ~(Len(plan) > 1) /\ n = 3
            BY <1>6, <2>11
        <3>2. /\ plan' = << >> /\ call' = None
              /\ answer' = [call |-> call, value |-> Returned(l)]
            BY <1>7, <2>4, <2>6, <3>1 DEF Proceed
        <3>3. Returned(l) = <<l[1] \cup Up(l[2], 32), l[3] \cup Up(l[4], 32)>>
            <4>1. "base_mul" # "gf_accel" /\ "base_mul" # "trng"
                OBVIOUS
            <4> HIDE DEF l
            <4> QED
                BY <1>7, <4>1, Zenon DEF Returned
        <3>4. /\ l[1] = WordOf(prod, 0) /\ l[2] = WordOf(prod, 1)
              /\ l[3] = WordOf(prod, 2) /\ l[4] = WordOf(prod, 3)
            <4>1. /\ 1 - 1 = 0 /\ 2 - 1 = 1 /\ 3 - 1 = 2 /\ 4 - 1 = 3
                  /\ 1 \in 1 .. 3 + 1 /\ 2 \in 1 .. 3 + 1 /\ 3 \in 1 .. 3 + 1 /\ 4 \in 1 .. 3 + 1
                OBVIOUS
            <4> HIDE DEF l, n
            <4> QED
                BY <2>9, <3>1, <4>1
        <3>5. answer'.value[1] \cup Up(answer'.value[2], 64) = Product(x, y, 64)
            <4> HIDE DEF l, n
            <4>1. PICK u, v : u = l[1] \cup Up(l[2], 32) /\ v = l[3] \cup Up(l[4], 32)
                OBVIOUS
            <4>2. answer'.value = <<u, v>>
                BY <3>2, <3>3, <4>1
            <4>3. answer'.value[1] = u /\ answer'.value[2] = v
                BY <4>2
            <4>4. PICK z \in SUBSET (0 .. 127) : z = prod /\ z = Product(x, y, 64)
                BY <1>4, ProductOfWords DEF prod
            <4>5. u = WordOf(z, 0) \cup Up(WordOf(z, 1), 32) /\ v = WordOf(z, 2) \cup Up(WordOf(z, 3), 32)
                BY <3>4, <4>1, <4>4
            <4>6. u \cup Up(v, 64) = z
                BY <4>5, WordsTogether
            <4> QED
                BY <4>3, <4>4, <4>6
        <3>6. answer'.call = call /\ call[2] = x /\ call[3] = y
            BY <1>3, <3>2
        <3> QED
            BY <1>2, <2>5, <3>2, <3>5, <3>6 DEF MultiplierInv, ProductsAreRight
    <2> QED
        BY <2>10, <2>11
<1> QED
    BY <1>8, <1>9

(***************************************************************************)
(* base_mul_hw (base_mul_hw.c) puts the factors into the multiplier's      *)
(* registers word by word and reads the product of just these, whatever    *)
(* the registers held before (base_mul_peripheral.vhd).                    *)
(***************************************************************************)
THEOREM MultiplierInvariance == Spec => []MultiplierInv
<1>1. Init => MultiplierInv
    <2>1. {} \in Word64
        BY DEF Word64
    <2> QED
        BY <2>1 DEF Init, MultiplierInv, ProductsAreRight
<1>2. MultiplierInv /\ [Next]_vars => MultiplierInv'
    <2> SUFFICES ASSUME MultiplierInv, [Next]_vars PROVE MultiplierInv'
        OBVIOUS
    <2>1. CASE UNCHANGED vars
        BY <2>1 DEF vars, driverVars, MultiplierInv, Multiplying, ProductsAreRight
    <2>2. CASE device # "base_mul"
        <3>1. device' = device
            BY DEF Next, SoftField, SoftMultiplier, Answered, vars
        <3> QED
            BY <2>2, <3>1 DEF MultiplierInv
    <2>3. CASE device = "base_mul" /\ Next
        <3>1. device' = device /\ ClockDevices /\ Instructions
            BY <2>3 DEF Next, SoftField, SoftMultiplier, Answered
        <3>2. ClockMultiplier
            BY <2>3, <3>1 DEF ClockDevices
        <3>3. ~CallField /\ ~CallSeed /\ ~CallCounter /\ ~Work
            BY <2>3 DEF CallField, CallSeed, CallCounter, Call, Work
        <3>4. Other \/ Hold \/ PollAgain =>
                  /\ UNCHANGED <<call, plan, loaded, answer>>
                  /\ ~InMem \/ Head(plan).kind # "store"
            <4>1. ASSUME Other, gap = 0 PROVE FALSE
                BY <4>1 DEF Other
            <4>2. Other => ~InMem
                BY <4>1 DEF InMem
            <4>3. PollAgain => Head(plan).kind # "store"
                <5>1. "poll" # "store"
                    OBVIOUS
                <5> QED
                    BY <5>1 DEF PollAgain
            <4> QED
                BY <4>2, <4>3 DEF Other, Hold, PollAgain
        <3>5. CallMultiplier \/ Proceed \/ Other \/ Hold \/ PollAgain
            BY <3>1, <3>3 DEF Instructions
        <3> QED
            BY <2>3, <3>1, <3>2, <3>4, <3>5, MultiplierCalls, MultiplierProceeds, MultiplierWaits
    <2> QED
        BY <2>1, <2>2, <2>3
<1> QED
    BY <1>1, <1>2, PTL DEF Spec

-----------------------------------------------------------------------------
(* The field unit and its driver.                                          *)

(* What the accesses of a call put into the registers.                     *)
ModeOf(c) == IF c[1] = "mul" THEN MUL_REDUCE
             ELSE IF c[1] = "square" THEN SQUARE_REDUCE
             ELSE IF c[1] = "reduce" THEN REDUCE_ONLY
             ELSE INVERSE

LowWord(c) == IF c[1] = "reduce" THEN WordOf(c[2], 0) ELSE c[2]

FieldPlan(c) == CASE c[1] = "mul"     -> gf_mul_hw(c[2], c[3])
                  [] c[1] = "square"  -> gf_square_hw(c[2])
                  [] c[1] = "reduce"  -> gf_reduce_hw(c[2])
                  [] c[1] = "inverse" -> gf_inverse_hw(c[2])

(* The stores of a call before the one that starts the unit.               *)
Operands(c) == IF c[1] \in {"mul", "reduce"} THEN 3 ELSE 2

FieldAccesses(c) ==
    {Store(r, z) : r \in {MODE, A_LOW, A_HIGH, B, CTRL},
                   z \in {ModeOf(c), LowWord(c), WordOf(c[2], 1), c[3], {0}}}
        \cup {gf_wait, Load(RESULT)}

(* What the registers hold in the states S1 to S11 of the inversion of a.  *)
ChainHolds(a) ==
    /\ fsm["a"] = a
    /\ state \in {2, 3} => fsm["inv"] = Power2(a)
    /\ state \in {4, 5, 6} => fsm["inv"] = Power4(a)
    /\ state = 7 => fsm["inv"] = Power15(a)
    /\ state = 8 => fsm["inv"] = Power30(a)
    /\ state = 9 => fsm["inv"] = Power60(a)
    /\ state = 10 => fsm["inv"] = Power120(a)
    /\ state = 11 => fsm["inv"] = Power127(a)
    /\ state \in {3, 4} => fsm["tmp1"] = Power3(a)
    /\ state = 6 => fsm["tmp1"] = Power11(a)
    /\ state \in {5, 6, 7, 8, 9, 10} => fsm["tmp2"] = Power7(a)

(* The unit rests, is at work, or is done.                                 *)
Idle == state = 0 /\ ctrl = FALSE

Running(c) ==
    /\ ctrl = TRUE
    /\ state = 0 \/ (c[1] = "inverse" /\ state \in 1 .. 11 /\ ChainHolds(Low(c[2], 16)))

Done(c) == Idle /\ fsm["result"] = UnitAnswer(c)

(* The k-th access of the call c is to come.                               *)
Computing(c, k) ==
    /\ plan = SubSeq(FieldPlan(c), k, Operands(c) + 3)
    /\ loaded = << >>
    /\ k > 1 => mode = ModeOf(c)
    /\ k > 2 => aLow = LowWord(c)
    /\ k > 3 /\ c[1] = "mul" => b = c[3]
    /\ k > 3 /\ c[1] = "reduce" => aHigh = WordOf(c[2], 1)
    /\ k <= Operands(c) + 1 => Idle
    /\ k = Operands(c) + 2 => Running(c) \/ Done(c)
    /\ k = Operands(c) + 3 => Done(c)

FieldRegisters == {"a", "inv", "tmp1", "tmp2", "result"}

FieldInv ==
    device = "gf_accel" =>
        /\ fsm = [r \in FieldRegisters |-> fsm[r]]
        /\ call = None => plan = << >> /\ Idle
        /\ call # None =>
              /\ answer = None /\ call \in FieldCalls
              /\ \E k \in 1 .. Operands(call) + 3 : Computing(call, k)
        /\ answer # None => answer.call \in FieldCalls /\ answer.value = UnitAnswer(answer.call)

(* A plan with three operand stores                                        *)
LEMMA WithThree ==
    ASSUME NEW T, NEW t \in Seq(T), Len(t) = 3, NEW x \in T, NEW y \in T, NEW z \in T
    PROVE  LET s == <<x, y, z>> \o t
           IN  /\ s \in Seq(T) /\ Len(s) = 6 /\ s[1] = x /\ s[2] = y /\ s[3] = z
               /\ s[4] = t[1] /\ s[5] = t[2] /\ s[6] = t[3]
<1>1. <<x, y, z>> \in Seq(T)
    OBVIOUS
<1>2. PICK u \in Seq(T) : u = <<x, y, z>> /\ Len(u) = 3 /\ u[1] = x /\ u[2] = y /\ u[3] = z
    BY <1>1
<1>3. /\ u \o t \in Seq(T) /\ Len(u \o t) = Len(u) + Len(t)
      /\ \A i \in 1 .. Len(u) : (u \o t)[i] = u[i]
      /\ \A i \in 1 .. Len(t) : (u \o t)[Len(u) + i] = t[i]
    <2>1. ASSUME NEW p \in Seq(T), NEW q \in Seq(T)
          PROVE  /\ p \o q \in Seq(T) /\ Len(p \o q) = Len(p) + Len(q)
                 /\ \A i \in 1 .. Len(p) : (p \o q)[i] = p[i]
                 /\ \A i \in 1 .. Len(q) : (p \o q)[Len(p) + i] = q[i]
        BY Joined
    <2> QED
        BY <2>1, Zenon
<1>4. /\ 3 + 3 = 6 /\ 3 + 1 = 4 /\ 3 + 2 = 5 /\ 1 \in 1 .. 3 /\ 2 \in 1 .. 3 /\ 3 \in 1 .. 3
    OBVIOUS
<1> QED
    BY <1>2, <1>3, <1>4

(* A plan with two operand stores                                          *)
LEMMA WithTwo ==
    ASSUME NEW T, NEW t \in Seq(T), Len(t) = 3, NEW x \in T, NEW y \in T
    PROVE  LET s == <<x, y>> \o t
           IN  /\ s \in Seq(T) /\ Len(s) = 5 /\ s[1] = x /\ s[2] = y
               /\ s[3] = t[1] /\ s[4] = t[2] /\ s[5] = t[3]
<1>1. <<x, y>> \in Seq(T)
    OBVIOUS
<1>2. PICK u \in Seq(T) : u = <<x, y>> /\ Len(u) = 2 /\ u[1] = x /\ u[2] = y
    BY <1>1
<1>3. /\ u \o t \in Seq(T) /\ Len(u \o t) = Len(u) + Len(t)
      /\ \A i \in 1 .. Len(u) : (u \o t)[i] = u[i]
      /\ \A i \in 1 .. Len(t) : (u \o t)[Len(u) + i] = t[i]
    <2>1. ASSUME NEW p \in Seq(T), NEW q \in Seq(T)
          PROVE  /\ p \o q \in Seq(T) /\ Len(p \o q) = Len(p) + Len(q)
                 /\ \A i \in 1 .. Len(p) : (p \o q)[i] = p[i]
                 /\ \A i \in 1 .. Len(q) : (p \o q)[Len(p) + i] = q[i]
        BY Joined
    <2> QED
        BY <2>1, Zenon
<1>4. /\ 2 + 3 = 5 /\ 2 + 1 = 3 /\ 2 + 2 = 4
      /\ 1 \in 1 .. 3 /\ 2 \in 1 .. 3 /\ 3 \in 1 .. 3 /\ 1 \in 1 .. 2 /\ 2 \in 1 .. 2
    OBVIOUS
<1> QED
    BY <1>2, <1>3, <1>4

(* The accesses of a call of the field unit by position                    *)
LEMMA FieldPlanIs ==
    ASSUME NEW c \in FieldCalls
    PROVE  LET s == FieldPlan(c)
               m == Operands(c)
           IN  /\ m \in {2, 3} /\ s \in Seq(FieldAccesses(c)) /\ Len(s) = m + 3
               /\ s[1] = Store(MODE, ModeOf(c)) /\ s[2] = Store(A_LOW, LowWord(c))
               /\ c[1] = "mul" => m = 3 /\ s[3] = Store(B, c[3])
               /\ c[1] = "reduce" => m = 3 /\ s[3] = Store(A_HIGH, WordOf(c[2], 1))
               /\ m = 3 => c[1] = "mul" \/ c[1] = "reduce"
               /\ s[m + 1] = Store(CTRL, {0}) /\ s[m + 2] = gf_wait /\ s[m + 3] = Load(RESULT)
<1> DEFINE T == FieldAccesses(c)
           t == gf_run
<1>1. c[1] \in {"mul", "square", "reduce", "inverse"}
    BY CallAssumption
<1>2. /\ \A r \in {MODE, A_LOW, A_HIGH, B, CTRL} :
            \A z \in {ModeOf(c), LowWord(c), WordOf(c[2], 1), c[3], {0}} : Store(r, z) \in T
      /\ gf_wait \in T /\ Load(RESULT) \in T
    BY DEF FieldAccesses
<1>3. /\ t \in Seq(T) /\ Len(t) = 3
      /\ t[1] = Store(CTRL, {0}) /\ t[2] = gf_wait /\ t[3] = Load(RESULT)
    <2>1. Store(CTRL, {0}) \in T
        BY <1>2
    <2> HIDE DEF T
    <2> QED
        BY <1>2, <2>1 DEF gf_run
<1>4. /\ Store(MODE, ModeOf(c)) \in T /\ Store(A_LOW, LowWord(c)) \in T
      /\ Store(B, c[3]) \in T /\ Store(A_HIGH, WordOf(c[2], 1)) \in T
    BY <1>2
<1>5. /\ 3 + 3 = 6 /\ 3 + 1 = 4 /\ 3 + 2 = 5 /\ 2 + 3 = 5 /\ 2 + 1 = 3 /\ 2 + 2 = 4
      /\ "mul" # "square" /\ "mul" # "reduce" /\ "mul" # "inverse"
      /\ "square" # "reduce" /\ "square" # "inverse" /\ "reduce" # "inverse"
    OBVIOUS
<1> HIDE DEF T, t
<1>6. CASE c[1] = "mul"
    <2>1. FieldPlan(c) = <<Store(MODE, ModeOf(c)), Store(A_LOW, LowWord(c)), Store(B, c[3])>> \o t
        BY <1>5, <1>6, Zenon DEF FieldPlan, gf_mul_hw, ModeOf, LowWord, t
    <2> QED
        BY <1>3, WithThree, <1>4, <1>5, <1>6, <2>1 DEF Operands, T
<1>7. CASE c[1] = "square"
    <2>1. FieldPlan(c) = <<Store(MODE, ModeOf(c)), Store(A_LOW, LowWord(c))>> \o t
        BY <1>5, <1>7, Zenon DEF FieldPlan, gf_square_hw, ModeOf, LowWord, t
    <2> QED
        BY <1>3, WithTwo, <1>4, <1>5, <1>7, <2>1 DEF Operands, T
<1>8. CASE c[1] = "reduce"
    <2>1. FieldPlan(c) =
              <<Store(MODE, ModeOf(c)), Store(A_LOW, LowWord(c)), Store(A_HIGH, WordOf(c[2], 1))>> \o t
        BY <1>5, <1>8, Zenon DEF FieldPlan, gf_reduce_hw, ModeOf, LowWord, t
    <2> QED
        BY <1>3, WithThree, <1>4, <1>5, <1>8, <2>1 DEF Operands, T
<1>9. CASE c[1] = "inverse"
    <2>1. FieldPlan(c) = <<Store(MODE, ModeOf(c)), Store(A_LOW, LowWord(c))>> \o t
        BY <1>5, <1>9, Zenon DEF FieldPlan, gf_inverse_hw, ModeOf, LowWord, t
    <2> QED
        BY <1>3, WithTwo, <1>4, <1>5, <1>9, <2>1 DEF Operands, T
<1> QED
    BY <1>1, <1>6, <1>7, <1>8, <1>9

(* One cycle of the unit: a store writes its register.                     *)
LEMMA FieldWritten ==
    ASSUME device = "gf_accel", ClockField(Access), InMem,
           NEW r \in {A_LOW, A_HIGH, B, MODE, CTRL}, NEW z, Head(plan) = Store(r, z)
    PROVE  /\ aLow' = IF r = A_LOW THEN z ELSE aLow
           /\ aHigh' = IF r = A_HIGH THEN z ELSE aHigh
           /\ b' = IF r = B THEN z ELSE b
           /\ mode' = IF r = MODE THEN z ELSE mode
           /\ r = CTRL /\ 0 \in z => ctrl' = TRUE
           /\ r # CTRL /\ Idle => ctrl' = FALSE
<1>1. Access.wdata = z /\ \A q : Writes(Access, "gf_accel", q) <=> q = r
    BY StoresWrite
<1>2. /\ aLow' = Written(Access, A_LOW, aLow) /\ aHigh' = Written(Access, A_HIGH, aHigh)
      /\ b' = Written(Access, B, b) /\ mode' = Written(Access, MODE, mode)
    BY DEF ClockField
<1>3. \A q, v : Written(Access, q, v) = IF r = q THEN z ELSE v
    BY <1>1 DEF Written
<1>4. r = CTRL /\ 0 \in z => ctrl' = TRUE
    BY <1>1 DEF ClockField, Control
<1>5. Len(Chain) = 11
    BY DEF Chain
<1>6. r # CTRL /\ Idle => ctrl' = FALSE
    BY <1>1, <1>5 DEF ClockField, Control, Idle
<1> QED
    BY <1>2, <1>3, <1>4, <1>6

(* Without a store only the state machine moves.                           *)
LEMMA FieldKeeps ==
    ASSUME device = "gf_accel", ClockField(Access), ~InMem \/ Head(plan).kind # "store"
    PROVE  /\ UNCHANGED <<aLow, aHigh, b, mode>>
           /\ ctrl' = IF (state = 0 /\ ctrl /\ mode # INVERSE) \/ state = 11 THEN FALSE ELSE ctrl
<1>1. \A q : ~Writes(Access, "gf_accel", q)
    BY OnlyStoresWrite
<1>2. Len(Chain) = 11
    BY DEF Chain
<1> QED
    BY <1>1, <1>2 DEF ClockField, Control, Written

(* An idle unit does nothing.                                              *)
LEMMA UnitRests ==
    ASSUME Machine, Idle
    PROVE  state' = 0 /\ fsm' = fsm
    BY DEF Machine, Idle

(* A step of the inversion                                                 *)
LEMMA ChainStep ==
    ASSUME NEW a, state \in 1 .. 11, ChainHolds(a), Machine,
           fsm = [r \in FieldRegisters |-> fsm[r]]
    PROVE  /\ fsm' = [r \in FieldRegisters |-> fsm'[r]]
           /\ state < 11 => state' = state + 1 /\ ChainHolds(a)'
           /\ state = 11 => state' = 0 /\ fsm'["result"] = Power254(a)
<1>1. /\ Len(Chain) = 11
      /\ Chain[1] = [to |-> "inv", of |-> <<"a", "a">>]
      /\ Chain[2] = [to |-> "tmp1", of |-> <<"inv", "a">>]
      /\ Chain[3] = [to |-> "inv", of |-> <<"inv", "inv">>]
      /\ Chain[4] = [to |-> "tmp2", of |-> <<"inv", "tmp1">>]
      /\ Chain[5] = [to |-> "tmp1", of |-> <<"inv", "tmp2">>]
      /\ Chain[6] = [to |-> "inv", of |-> <<"tmp1", "inv">>]
      /\ Chain[7] = [to |-> "inv", of |-> <<"inv", "inv">>]
      /\ Chain[8] = [to |-> "inv", of |-> <<"inv", "inv">>]
      /\ Chain[9] = [to |-> "inv", of |-> <<"inv", "inv">>]
      /\ Chain[10] = [to |-> "inv", of |-> <<"inv", "tmp2">>]
      /\ Chain[11] = [to |-> "result", of |-> <<"inv", "inv">>]
    BY DEF Chain
<1>2. ASSUME NEW t, NEW p, NEW q, Chain[state] = [to |-> t, of |-> <<p, q>>]
      PROVE  /\ p = q => fsm' = [fsm EXCEPT ![t] = Squared(fsm[p])]
             /\ p # q => fsm' = [fsm EXCEPT ![t] = Multiplied(fsm[p], fsm[q])]
             /\ state' = IF state = 11 THEN 0 ELSE state + 1
    <2>1. Chain[state].to = t /\ Chain[state].of[1] = p /\ Chain[state].of[2] = q
        BY <1>2
    <2>2. state # 0
        OBVIOUS
    <2>3. /\ fsm' = [fsm EXCEPT ![t] = IF p = q THEN Squared(fsm[p]) ELSE Multiplied(fsm[p], fsm[q])]
          /\ state' = IF state = 11 THEN 0 ELSE state + 1
        BY <1>1, <2>1, <2>2 DEF Machine
    <2> QED
        BY <2>3
<1>3. ASSUME NEW t \in FieldRegisters, NEW v, fsm' = [fsm EXCEPT ![t] = v]
      PROVE  /\ fsm' = [r \in FieldRegisters |-> fsm'[r]]
             /\ fsm'[t] = v /\ \A r \in FieldRegisters : r # t => fsm'[r] = fsm[r]
    BY <1>3
<1>4. ASSUME NEW t \in {"inv", "tmp1", "tmp2", "result"}, NEW v, fsm' = [fsm EXCEPT ![t] = v]
      PROVE  /\ fsm' = [r \in FieldRegisters |-> fsm'[r]]
             /\ fsm'[t] = v /\ fsm'["a"] = a
             /\ t # "inv" => fsm'["inv"] = fsm["inv"]
             /\ t # "tmp1" => fsm'["tmp1"] = fsm["tmp1"]
             /\ t # "tmp2" => fsm'["tmp2"] = fsm["tmp2"]
    <2>1. t \in FieldRegisters /\ t # "a" /\ {"a", "inv", "tmp1", "tmp2"} \subseteq FieldRegisters
        BY DEF FieldRegisters
    <2>2. fsm["a"] = a
        BY DEF ChainHolds
    <2> QED
        BY <1>3, <1>4, <2>1, <2>2
<1>5. /\ "a" # "inv" /\ "inv" # "a" /\ "tmp1" # "inv" /\ "inv" # "tmp1" /\ "inv" # "tmp2" /\ "tmp1" # "tmp2"
      /\ "result" # "inv" /\ "result" # "tmp1" /\ "result" # "tmp2"
    OBVIOUS
<1>6. CASE state = 1
    <2>1. fsm["a"] = a
        BY <1>6 DEF ChainHolds
    <2>2. fsm' = [fsm EXCEPT !["inv"] = Squared(a)] /\ state' = 2
        BY <1>1, <1>2, <1>6, <2>1
    <2>3. fsm' = [fsm EXCEPT !["inv"] = Power2(a)]
        BY <2>2 DEF Power2
    <2> QED
        BY <1>4, <1>5, <1>6, <2>1, <2>2, <2>3 DEF ChainHolds
<1>7. CASE state = 2
    <2>1. fsm["inv"] = Power2(a) /\ fsm["a"] = a
        BY <1>7 DEF ChainHolds
    <2>2. fsm' = [fsm EXCEPT !["tmp1"] = Multiplied(Power2(a), a)] /\ state' = 3
        BY <1>1, <1>2, <1>5, <1>7, <2>1
    <2>3. fsm' = [fsm EXCEPT !["tmp1"] = Power3(a)]
        BY <2>2 DEF Power3
    <2> QED
        BY <1>4, <1>5, <1>7, <2>1, <2>2, <2>3 DEF ChainHolds
<1>8. CASE state = 3
    <2>1. fsm["inv"] = Power2(a) /\ fsm["tmp1"] = Power3(a)
        BY <1>8 DEF ChainHolds
    <2>2. fsm' = [fsm EXCEPT !["inv"] = Squared(Power2(a))] /\ state' = 4
        BY <1>1, <1>2, <1>8, <2>1
    <2>3. fsm' = [fsm EXCEPT !["inv"] = Power4(a)]
        BY <2>2 DEF Power4
    <2> QED
        BY <1>4, <1>5, <1>8, <2>1, <2>2, <2>3 DEF ChainHolds
<1>9. CASE state = 4
    <2>1. fsm["inv"] = Power4(a) /\ fsm["tmp1"] = Power3(a)
        BY <1>9 DEF ChainHolds
    <2>2. fsm' = [fsm EXCEPT !["tmp2"] = Multiplied(Power4(a), Power3(a))] /\ state' = 5
        BY <1>1, <1>2, <1>5, <1>9, <2>1
    <2>3. fsm' = [fsm EXCEPT !["tmp2"] = Power7(a)]
        BY <2>2 DEF Power7
    <2> QED
        BY <1>4, <1>5, <1>9, <2>1, <2>2, <2>3 DEF ChainHolds
<1>10. CASE state = 5
    <2>1. fsm["inv"] = Power4(a) /\ fsm["tmp2"] = Power7(a)
        BY <1>10 DEF ChainHolds
    <2>2. fsm' = [fsm EXCEPT !["tmp1"] = Multiplied(Power4(a), Power7(a))] /\ state' = 6
        BY <1>1, <1>2, <1>5, <1>10, <2>1
    <2>3. fsm' = [fsm EXCEPT !["tmp1"] = Power11(a)]
        BY <2>2 DEF Power11
    <2> QED
        BY <1>4, <1>5, <1>10, <2>1, <2>2, <2>3 DEF ChainHolds
<1>11. CASE state = 6
    <2>1. fsm["tmp1"] = Power11(a) /\ fsm["inv"] = Power4(a) /\ fsm["tmp2"] = Power7(a)
        BY <1>11 DEF ChainHolds
    <2>2. fsm' = [fsm EXCEPT !["inv"] = Multiplied(Power11(a), Power4(a))] /\ state' = 7
        BY <1>1, <1>2, <1>5, <1>11, <2>1
    <2>3. fsm' = [fsm EXCEPT !["inv"] = Power15(a)]
        BY <2>2 DEF Power15
    <2> QED
        BY <1>4, <1>5, <1>11, <2>1, <2>2, <2>3 DEF ChainHolds
<1>12. CASE state = 7
    <2>1. fsm["inv"] = Power15(a) /\ fsm["tmp2"] = Power7(a)
        BY <1>12 DEF ChainHolds
    <2>2. fsm' = [fsm EXCEPT !["inv"] = Squared(Power15(a))] /\ state' = 8
        BY <1>1, <1>2, <1>12, <2>1
    <2>3. fsm' = [fsm EXCEPT !["inv"] = Power30(a)]
        BY <2>2 DEF Power30
    <2> QED
        BY <1>4, <1>5, <1>12, <2>1, <2>2, <2>3 DEF ChainHolds
<1>13. CASE state = 8
    <2>1. fsm["inv"] = Power30(a) /\ fsm["tmp2"] = Power7(a)
        BY <1>13 DEF ChainHolds
    <2>2. fsm' = [fsm EXCEPT !["inv"] = Squared(Power30(a))] /\ state' = 9
        BY <1>1, <1>2, <1>13, <2>1
    <2>3. fsm' = [fsm EXCEPT !["inv"] = Power60(a)]
        BY <2>2 DEF Power60
    <2> QED
        BY <1>4, <1>5, <1>13, <2>1, <2>2, <2>3 DEF ChainHolds
<1>14. CASE state = 9
    <2>1. fsm["inv"] = Power60(a) /\ fsm["tmp2"] = Power7(a)
        BY <1>14 DEF ChainHolds
    <2>2. fsm' = [fsm EXCEPT !["inv"] = Squared(Power60(a))] /\ state' = 10
        BY <1>1, <1>2, <1>14, <2>1
    <2>3. fsm' = [fsm EXCEPT !["inv"] = Power120(a)]
        BY <2>2 DEF Power120
    <2> QED
        BY <1>4, <1>5, <1>14, <2>1, <2>2, <2>3 DEF ChainHolds
<1>15. CASE state = 10
    <2>1. fsm["inv"] = Power120(a) /\ fsm["tmp2"] = Power7(a)
        BY <1>15 DEF ChainHolds
    <2>2. fsm' = [fsm EXCEPT !["inv"] = Multiplied(Power120(a), Power7(a))] /\ state' = 11
        BY <1>1, <1>2, <1>5, <1>15, <2>1
    <2>3. fsm' = [fsm EXCEPT !["inv"] = Power127(a)]
        BY <2>2 DEF Power127
    <2> QED
        BY <1>4, <1>5, <1>15, <2>1, <2>2, <2>3 DEF ChainHolds
<1>16. CASE state = 11
    <2>1. fsm["inv"] = Power127(a)
        BY <1>16 DEF ChainHolds
    <2>2. fsm' = [fsm EXCEPT !["result"] = Squared(Power127(a))] /\ state' = 0
        BY <1>1, <1>2, <1>16, <2>1
    <2>3. fsm' = [fsm EXCEPT !["result"] = Power254(a)]
        BY <2>2 DEF Power254
    <2> QED
        BY <1>4, <1>5, <1>16, <2>1, <2>2, <2>3 DEF ChainHolds
<1> QED
    BY <1>6, <1>7, <1>8, <1>9, <1>10, <1>11, <1>12, <1>13, <1>14, <1>15, <1>16

(* A cycle of a unit at work, while no store is in MEM                     *)
LEMMA UnitRuns ==
    ASSUME device = "gf_accel", ClockField(Access), ~InMem \/ Head(plan).kind # "store",
           fsm = [r \in FieldRegisters |-> fsm[r]],
           NEW c \in FieldCalls, Running(c) \/ Done(c), mode = ModeOf(c), aLow = LowWord(c),
           c[1] = "mul" => b = c[3], c[1] = "reduce" => aHigh = WordOf(c[2], 1)
    PROVE  /\ fsm' = [r \in FieldRegisters |-> fsm'[r]]
           /\ Running(c)' \/ Done(c)'
           /\ Done(c) => Done(c)'
<1>1. ctrl' = IF (state = 0 /\ ctrl /\ mode # INVERSE) \/ state = 11 THEN FALSE ELSE ctrl
    BY FieldKeeps
<1>2. Machine
    BY DEF ClockField
<1>3. c[1] \in {"mul", "square", "reduce", "inverse"}
    BY CallAssumption
<1>4. /\ "mul" # "square" /\ "mul" # "reduce" /\ "mul" # "inverse"
      /\ "square" # "reduce" /\ "square" # "inverse" /\ "reduce" # "inverse"
    OBVIOUS
<1>5. c[1] = "inverse" <=> mode = INVERSE
    BY <1>3, <1>4 DEF ModeOf, MUL_REDUCE, SQUARE_REDUCE, REDUCE_ONLY, INVERSE
<1>6. CASE Done(c)
    <2>1. state' = 0 /\ fsm' = fsm
        BY <1>2, <1>6, UnitRests DEF Done
    <2>2. ctrl' = FALSE
        BY <1>1, <1>6 DEF Done, Idle
    <2> QED
        BY <1>6, <2>1, <2>2 DEF Done, Idle
<1>7. CASE Running(c) /\ state = 0 /\ c[1] # "inverse"
    <2>1. Combinational = UnitAnswer(c)
        <3>1. /\ MUL_REDUCE # SQUARE_REDUCE /\ MUL_REDUCE # REDUCE_ONLY
              /\ SQUARE_REDUCE # REDUCE_ONLY
            BY DEF MUL_REDUCE, SQUARE_REDUCE, REDUCE_ONLY
        <3>2. CASE c[1] = "mul"
            <4>1. mode = MUL_REDUCE /\ aLow = c[2] /\ b = c[3]
                BY <1>4, <3>2 DEF ModeOf, LowWord
            <4>2. UnitAnswer(c) = Multiplied(c[2], c[3])
                BY <1>4, <3>2, Zenon DEF UnitAnswer
            <4>3. Combinational = Multiplied(aLow, b)
                BY <3>1, <4>1, Zenon DEF Combinational
            <4> QED
                BY <4>1, <4>2, <4>3
        <3>3. CASE c[1] = "square"
            <4>1. mode = SQUARE_REDUCE /\ aLow = c[2]
                BY <1>4, <3>3 DEF ModeOf, LowWord
            <4>2. UnitAnswer(c) = Squared(c[2])
                BY <1>4, <3>3, Zenon DEF UnitAnswer
            <4>3. Combinational = Squared(aLow)
                BY <3>1, <4>1, Zenon DEF Combinational
            <4> QED
                BY <4>1, <4>2, <4>3
        <3>4. CASE c[1] = "reduce"
            <4>1. mode = REDUCE_ONLY /\ aLow = WordOf(c[2], 0) /\ aHigh = WordOf(c[2], 1)
                BY <1>4, <3>4 DEF ModeOf, LowWord
            <4>2. UnitAnswer(c) = gf_reduce_core(Up(WordOf(c[2], 1), 32) \cup WordOf(c[2], 0))
                BY <1>4, <3>4, Zenon DEF UnitAnswer
            <4>3. Combinational = gf_reduce_core(Up(aHigh, 32) \cup aLow)
                BY <3>1, <4>1, Zenon DEF Combinational
            <4> QED
                BY <4>1, <4>2, <4>3
        <3> QED
            BY <1>3, <1>7, <3>2, <3>3, <3>4
    <2>2. state' = 0 /\ fsm' = [fsm EXCEPT !["result"] = Combinational]
        BY <1>2, <1>5, <1>7 DEF Machine, Running
    <2>3. fsm' = [r \in FieldRegisters |-> fsm'[r]] /\ fsm'["result"] = Combinational
        <3>1. "result" \in FieldRegisters
            BY DEF FieldRegisters
        <3> QED
            BY <2>2, <3>1
    <2>4. ctrl' = FALSE
        BY <1>1, <1>5, <1>7 DEF Running
    <2>5. ~Done(c)
        BY <1>7 DEF Done, Idle, Running
    <2> QED
        BY <2>1, <2>2, <2>3, <2>4, <2>5 DEF Done, Idle
<1>8. CASE Running(c) /\ state = 0 /\ c[1] = "inverse"
    <2>1. state' = 1 /\ fsm' = [fsm EXCEPT !["a"] = Low(c[2], 16)]
        <3>1. aLow = c[2]
            BY <1>4, <1>8 DEF LowWord
        <3> QED
            BY <1>2, <1>5, <1>8, <3>1 DEF Machine, Running
    <2>2. fsm' = [r \in FieldRegisters |-> fsm'[r]] /\ fsm'["a"] = Low(c[2], 16)
        <3>1. "a" \in FieldRegisters
            BY DEF FieldRegisters
        <3> QED
            BY <2>1, <3>1
    <2>3. ctrl' = TRUE
        BY <1>1, <1>5, <1>8 DEF Running
    <2>4. ChainHolds(Low(c[2], 16))'
        BY <2>1, <2>2 DEF ChainHolds
    <2>5. ~Done(c)
        BY <1>8 DEF Done, Idle, Running
    <2> QED
        BY <1>8, <2>1, <2>2, <2>3, <2>4, <2>5 DEF Running
<1>9. CASE Running(c) /\ state # 0
    <2>1. /\ c[1] = "inverse" /\ state \in 1 .. 11 /\ ChainHolds(Low(c[2], 16)) /\ ctrl = TRUE
        BY <1>9 DEF Running
    <2>2. /\ fsm' = [r \in FieldRegisters |-> fsm'[r]]
          /\ state < 11 => state' = state + 1 /\ ChainHolds(Low(c[2], 16))'
          /\ state = 11 => state' = 0 /\ fsm'["result"] = Power254(Low(c[2], 16))
        <3>1. PICK a : a = Low(c[2], 16)
            OBVIOUS
        <3>2. ChainHolds(a)
            BY <2>1, <3>1
        <3>3. /\ fsm' = [r \in FieldRegisters |-> fsm'[r]]
              /\ state < 11 => state' = state + 1 /\ ChainHolds(a)'
              /\ state = 11 => state' = 0 /\ fsm'["result"] = Power254(a)
            BY <1>2, <2>1, <3>2, ChainStep
        <3> QED
            BY <3>1, <3>3
    <2>3. ~Done(c)
        BY <1>9 DEF Done, Idle
    <2>4. CASE state < 11
        <3>1. ctrl' = TRUE /\ state' \in 1 .. 11
            BY <1>1, <2>1, <2>2, <2>4
        <3> QED
            BY <2>1, <2>2, <2>3, <2>4, <3>1 DEF Running
    <2>5. CASE state = 11
        <3>1. ctrl' = FALSE
            BY <1>1, <2>5
        <3>2. UnitAnswer(c) = Power254(Low(c[2], 16))
            BY <1>4, <2>1, Zenon DEF UnitAnswer
        <3> QED
            BY <2>2, <2>3, <2>5, <3>1, <3>2 DEF Done, Idle
    <2> QED
        BY <2>1, <2>4, <2>5
<1> QED
    BY <1>6, <1>7, <1>8, <1>9

(* The access under way is the k-th of the call.                           *)
LEMMA FieldAhead ==
    ASSUME NEW c \in FieldCalls, NEW k \in 1 .. Operands(c) + 3,
           plan = SubSeq(FieldPlan(c), k, Operands(c) + 3)
    PROVE  /\ plan # << >> /\ Head(plan) = FieldPlan(c)[k] /\ Len(plan) = Operands(c) + 3 - k + 1
           /\ Tail(plan) = SubSeq(FieldPlan(c), k + 1, Operands(c) + 3)
           /\ k = Operands(c) + 3 => Tail(plan) = << >>
<1>1. PICK s : s = FieldPlan(c)
    OBVIOUS
<1>2. s \in Seq(FieldAccesses(c)) /\ Len(s) = Operands(c) + 3
    BY <1>1, FieldPlanIs
<1>3. k \in 1 .. Len(s) /\ plan = SubSeq(s, k, Len(s))
    BY <1>1, <1>2
<1>4. /\ plan # << >> /\ Len(plan) = Len(s) - k + 1 /\ Head(plan) = s[k]
      /\ Tail(plan) = SubSeq(s, k + 1, Len(s)) /\ (k = Len(s) => Tail(plan) = << >>)
    BY <1>2, <1>3, From, ZenonT(30)
<1>5. Operands(c) + 3 = Len(s)
    BY <1>2
<1>6. plan # << >> /\ Head(plan) = FieldPlan(c)[k]
    BY <1>1, <1>4
<1>7. Len(plan) = Operands(c) + 3 - k + 1
    <2>1. PICK m \in {2, 3} : m = Operands(c)
        BY FieldPlanIs
    <2>2. Len(s) = m + 3
        BY <1>5, <2>1
    <2> QED
        BY <1>4, <2>1, <2>2
<1>8. Tail(plan) = SubSeq(FieldPlan(c), k + 1, Operands(c) + 3)
    BY <1>1, <1>4, <1>5
<1>9. k = Operands(c) + 3 => Tail(plan) = << >>
    BY <1>4, <1>5
<1> QED
    BY <1>6, <1>7, <1>8, <1>9

(* A call of the field unit begins.                                        *)
LEMMA FieldCallsBegin ==
    ASSUME device = "gf_accel", FieldInv, device' = device, ClockField(Access), CallField
    PROVE  FieldInv'
<1>1. PICK c \in FieldCalls : Call("gf_accel", c, FieldPlan(c))
    BY DEF CallField, FieldPlan
<1>2. /\ call = None /\ call' = c /\ plan' = FieldPlan(c) /\ loaded' = << >> /\ answer' = None
    BY <1>1 DEF Call
<1>3. plan = << >> /\ Idle /\ fsm = [r \in FieldRegisters |-> fsm[r]]
    BY <1>2 DEF FieldInv
<1>4. state' = 0 /\ fsm' = fsm /\ ctrl' = FALSE
    <2>1. ~InMem
        BY <1>3 DEF InMem
    <2>2. ctrl' = IF (state = 0 /\ ctrl /\ mode # INVERSE) \/ state = 11 THEN FALSE ELSE ctrl
        BY <2>1, FieldKeeps
    <2> QED
        BY <1>3, <2>2, UnitRests DEF ClockField, Idle
<1>5. plan' = SubSeq(FieldPlan(c), 1, Operands(c) + 3) /\ Operands(c) \in {2, 3}
    <2>1. PICK s : s = FieldPlan(c)
        OBVIOUS
    <2>2. /\ s \in Seq(FieldAccesses(c)) /\ Len(s) = Operands(c) + 3 /\ Operands(c) \in {2, 3}
        BY <2>1, FieldPlanIs
    <2>3. s = SubSeq(s, 1, Len(s))
        BY <2>2
    <2> QED
        BY <1>2, <2>1, <2>2, <2>3
<1>6. 1 \in 1 .. Operands(c) + 3 /\ Computing(c, 1)'
    <2>1. PICK m \in {2, 3} : m = Operands(c)
        BY <1>5
    <2>2. /\ 1 \in 1 .. m + 3 /\ 1 # m + 2 /\ 1 # m + 3
          /\ ~(1 > 1) /\ ~(1 > 2) /\ ~(1 > 3)
        BY <2>1
    <2> QED
        BY <1>2, <1>4, <1>5, <2>1, <2>2 DEF Computing, Idle
<1>7. call' # None
    BY <1>2, CallAssumption
<1> QED
    BY <1>2, <1>3, <1>4, <1>6, <1>7 DEF FieldInv

(* The call waits: nothing is stored, the unit goes on.                    *)
LEMMA FieldWaits ==
    ASSUME device = "gf_accel", FieldInv, device' = device, ClockField(Access),
           ~InMem \/ Head(plan).kind # "store", UNCHANGED <<call, plan, loaded, answer>>
    PROVE  FieldInv'
<1>1. /\ UNCHANGED <<aLow, aHigh, b, mode>>
      /\ ctrl' = IF (state = 0 /\ ctrl /\ mode # INVERSE) \/ state = 11 THEN FALSE ELSE ctrl
    BY FieldKeeps
<1>2. Machine
    BY DEF ClockField
<1>3. Idle => Idle' /\ fsm' = fsm
    BY <1>1, <1>2, UnitRests DEF Idle
<1>4. fsm = [r \in FieldRegisters |-> fsm[r]]
    BY DEF FieldInv
<1>5. CASE call = None
    BY <1>3, <1>4, <1>5 DEF FieldInv
<1>6. CASE call # None
    <2>1. PICK k \in 1 .. Operands(call) + 3 : Computing(call, k)
        BY <1>6 DEF FieldInv
    <2>2. call \in FieldCalls /\ answer = None
        BY <1>6 DEF FieldInv
    <2>3. PICK c \in FieldCalls : c = call
        BY <2>2
    <2>4. PICK m \in {2, 3} : m = Operands(c)
        BY FieldPlanIs
    <2>5. k \in 1 .. m + 3 /\ Computing(c, k)
        BY <2>1, <2>3, <2>4
    <2>6. CASE k <= m + 1
        <3>1. Idle' /\ fsm' = fsm /\ k # m + 2 /\ k # m + 3
            BY <1>3, <2>4, <2>5, <2>6 DEF Computing
        <3>2. Computing(c, k)'
            BY <1>1, <2>4, <2>5, <3>1 DEF Computing
        <3> QED
            BY <1>4, <2>1, <2>2, <2>3, <3>1, <3>2 DEF FieldInv
    <2>7. CASE ~(k <= m + 1)
        <3>1. /\ k > 1 /\ k > 2 /\ k > 3 /\ (k = m + 2 \/ k = m + 3)
            BY <2>4, <2>5, <2>7
        <3>2. /\ mode = ModeOf(c) /\ aLow = LowWord(c)
              /\ c[1] = "mul" => b = c[3]
              /\ c[1] = "reduce" => aHigh = WordOf(c[2], 1)
              /\ Running(c) \/ Done(c)
            BY <2>4, <2>5, <3>1 DEF Computing
        <3>3. /\ fsm' = [r \in FieldRegisters |-> fsm'[r]]
              /\ Running(c)' \/ Done(c)'
              /\ Done(c) => Done(c)'
            BY <1>4, <3>2, UnitRuns
        <3>4. Computing(c, k)'
            BY <1>1, <2>4, <2>5, <2>7, <3>1, <3>3 DEF Computing
        <3>5. call' \in FieldCalls /\ answer' = None /\ \E j \in 1 .. Operands(call') + 3 : Computing(call, j)'
            BY <2>1, <2>2, <2>3, <3>4
        <3> QED
            BY <1>6, <3>3, <3>5 DEF FieldInv
    <2> QED
        BY <2>6, <2>7
<1> QED
    BY <1>5, <1>6

(* The next access is a store: of an operand, or of the start bit.         *)
LEMMA OperandStored ==
    ASSUME device = "gf_accel", ClockField(Access), InMem,
           NEW c \in FieldCalls, NEW k \in 1 .. Operands(c) + 1, Computing(c, k),
           plan' = Tail(plan), loaded' = loaded
    PROVE  fsm' = fsm /\ Computing(c, k + 1)'
<1> DEFINE s == FieldPlan(c)
<1>1. PICK m \in {2, 3} : m = Operands(c)
    BY FieldPlanIs
<1>2. /\ s[1] = Store(MODE, ModeOf(c)) /\ s[2] = Store(A_LOW, LowWord(c))
      /\ c[1] = "mul" => m = 3 /\ s[3] = Store(B, c[3])
      /\ c[1] = "reduce" => m = 3 /\ s[3] = Store(A_HIGH, WordOf(c[2], 1))
      /\ m = 3 => c[1] = "mul" \/ c[1] = "reduce"
      /\ s[m + 1] = Store(CTRL, {0})
    BY <1>1, FieldPlanIs
<1> HIDE DEF s
<1>3. Head(plan) = s[k] /\ plan' = SubSeq(s, k + 1, m + 3)
    <2>1. k \in 1 .. Operands(c) + 3
        BY <1>1
    <2> QED
        BY <1>1, <2>1, FieldAhead DEF Computing, s
<1>4. Idle /\ loaded' = << >>
    BY <1>1 DEF Computing
<1>5. state' = 0 /\ fsm' = fsm
    BY <1>4, UnitRests DEF ClockField
<1>6. /\ k > 1 => mode = ModeOf(c)
      /\ k > 2 => aLow = LowWord(c)
      /\ k > 3 /\ c[1] = "mul" => b = c[3]
      /\ k > 3 /\ c[1] = "reduce" => aHigh = WordOf(c[2], 1)
    BY DEF Computing
<1>7. /\ MODE # A_LOW /\ MODE # A_HIGH /\ MODE # B /\ MODE # CTRL /\ A_LOW # A_HIGH
      /\ A_LOW # B /\ A_LOW # CTRL /\ A_HIGH # B /\ A_HIGH # CTRL /\ B # CTRL
    BY DEF MODE, A_LOW, A_HIGH, B, CTRL
<1>8. ASSUME NEW r \in {A_LOW, A_HIGH, B, MODE, CTRL}, NEW z, s[k] = Store(r, z)
      PROVE  /\ aLow' = IF r = A_LOW THEN z ELSE aLow
             /\ aHigh' = IF r = A_HIGH THEN z ELSE aHigh
             /\ b' = IF r = B THEN z ELSE b
             /\ mode' = IF r = MODE THEN z ELSE mode
             /\ r = CTRL /\ 0 \in z => ctrl' = TRUE
             /\ r # CTRL => ctrl' = FALSE
    BY <1>3, <1>4, <1>8, FieldWritten
<1>9. k + 1 > 1 /\ (k + 1 > 2 <=> k > 1) /\ (k + 1 > 3 <=> k > 2)
    OBVIOUS
<1>10. ASSUME /\ mode' = ModeOf(c)
              /\ k > 1 => aLow' = LowWord(c)
              /\ k > 2 /\ c[1] = "mul" => b' = c[3]
              /\ k > 2 /\ c[1] = "reduce" => aHigh' = WordOf(c[2], 1)
              /\ k <= m => ctrl' = FALSE
              /\ k = m + 1 => ctrl' = TRUE
       PROVE  Computing(c, k + 1)'
    <2>1. /\ k + 1 <= m + 1 => k <= m
          /\ k + 1 = m + 2 => k = m + 1
          /\ k + 1 # m + 3
        BY <1>1
    <2> QED
        BY <1>1, <1>3, <1>4, <1>5, <1>9, <1>10, <2>1 DEF Computing, Running, Idle, s
<1>11. CASE k = 1
    <2>1. k <= m /\ k # m + 1 /\ ~(k > 1) /\ ~(k > 2)
        BY <1>1, <1>11
    <2> QED
        BY <1>2, <1>5, <1>7, <1>8, <1>10, <1>11, <2>1
<1>12. CASE k = 2
    <2>1. k <= m /\ k # m + 1 /\ k > 1 /\ ~(k > 2)
        BY <1>1, <1>12
    <2> QED
        BY <1>2, <1>5, <1>6, <1>7, <1>8, <1>10, <1>12, <2>1
<1>13. CASE k = 3 /\ m = 3
    <2>1. k <= m /\ k # m + 1 /\ k > 1 /\ k > 2 /\ "mul" # "reduce"
        BY <1>13
    <2> QED
        BY <1>2, <1>5, <1>6, <1>7, <1>8, <1>10, <1>13, <2>1
<1>14. CASE k = m + 1
    <2>1. ~(k <= m) /\ k > 1 /\ k > 2 /\ (m = 3 => k > 3) /\ 0 \in {0}
        BY <1>1, <1>14
    <2>2. s[k] = Store(CTRL, {0})
        BY <1>2, <1>14
    <2>3. /\ UNCHANGED <<aLow, aHigh, b, mode>> /\ ctrl' = TRUE
        BY <1>7, <1>8, <2>1, <2>2
    <2> QED
        BY <1>2, <1>5, <1>6, <1>10, <1>14, <2>1, <2>3
<1> QED
    <2>1. k = 1 \/ k = 2 \/ (k = 3 /\ m = 3) \/ k = m + 1
        BY <1>1
    <2> QED
        BY <1>11, <1>12, <1>13, <1>14, <2>1

(* An access leaves MEM: a store, a poll that saw ctrl clear, the load.    *)
LEMMA FieldProceeds ==
    ASSUME device = "gf_accel", FieldInv, device' = device, ClockField(Access), Proceed
    PROVE  FieldInv'
<1>1. InMem /\ plan # << >>
    BY DEF Proceed, MayLeave, InMem
<1>2. call # None
    BY <1>1 DEF FieldInv
<1>3. PICK c \in FieldCalls : c = call
    BY <1>2 DEF FieldInv
<1>4. answer = None /\ c # None
    BY <1>2, <1>3 DEF FieldInv
<1>5. PICK m \in {2, 3} : m = Operands(c)
    BY FieldPlanIs
<1>6. PICK k \in 1 .. m + 3 : Computing(c, k)
    BY <1>2, <1>3, <1>5 DEF FieldInv
<1>7. fsm = [r \in FieldRegisters |-> fsm[r]]
    BY DEF FieldInv
<1> DEFINE s == FieldPlan(c)
<1>8. /\ Head(plan) = s[k] /\ Len(plan) = m + 3 - k + 1 /\ Tail(plan) = SubSeq(s, k + 1, m + 3)
      /\ k = m + 3 => Tail(plan) = << >>
    BY <1>5, <1>6, FieldAhead DEF Computing
<1>9. /\ s[1] = Store(MODE, ModeOf(c)) /\ s[2] = Store(A_LOW, LowWord(c))
      /\ c[1] = "mul" => m = 3 /\ s[3] = Store(B, c[3])
      /\ c[1] = "reduce" => m = 3 /\ s[3] = Store(A_HIGH, WordOf(c[2], 1))
      /\ m = 3 => c[1] = "mul" \/ c[1] = "reduce"
      /\ s[m + 1] = Store(CTRL, {0}) /\ s[m + 2] = gf_wait /\ s[m + 3] = Load(RESULT)
    BY <1>5, FieldPlanIs
<1>10. \A l : ~again(l)
    <2>1. c # <<"read">>
        <3>1. <<"read">>[1] = "read" /\ c[1] # "read"
            BY CallAssumption
        <3> QED
            BY <3>1
    <2> QED
        BY <1>3, <2>1 DEF again
<1> HIDE DEF s
<1>11. CASE k \in 1 .. m + 1
    <2>1. Head(plan).kind # "load" /\ Len(plan) > 1
        <3>1. k = 1 \/ k = 2 \/ (k = 3 /\ m = 3) \/ k = m + 1
            BY <1>11
        <3>2. Head(plan).kind = "store"
            BY <1>8, <1>9, <3>1, Kinds
        <3> QED
            BY <1>8, <1>11, <3>2
    <2>2. plan' = Tail(plan) /\ loaded' = loaded /\ UNCHANGED <<call, answer>>
        BY <2>1 DEF Proceed
    <2>3. fsm' = fsm /\ Computing(c, k + 1)'
        BY <1>1, <1>5, <1>6, <1>11, <2>2, OperandStored
    <2>4. k + 1 \in 1 .. m + 3
        BY <1>11
    <2> QED
        BY <1>3, <1>4, <1>5, <1>7, <2>2, <2>3, <2>4 DEF FieldInv
<1>12. CASE ~(k \in 1 .. m + 1)
    <2>1. k > 1 /\ k > 2 /\ k > 3 /\ (k = m + 2 \/ k = m + 3)
        BY <1>12
    <2>2. /\ mode = ModeOf(c) /\ aLow = LowWord(c) /\ loaded = << >>
          /\ c[1] = "mul" => b = c[3]
          /\ c[1] = "reduce" => aHigh = WordOf(c[2], 1)
          /\ Running(c) \/ Done(c)
        BY <1>5, <1>6, <2>1 DEF Computing
    <2>3. Head(plan).kind # "store"
        <3>1. gf_wait.kind = "poll" /\ Load(RESULT).kind = "load"
            BY DEF gf_wait, Poll, Load
        <3> QED
            BY <1>8, <1>9, <2>1, <3>1
    <2>4. /\ fsm' = [r \in FieldRegisters |-> fsm'[r]]
          /\ Done(c) => Done(c)'
        BY <1>1, <1>7, <2>2, <2>3, UnitRuns
    <2>5. UNCHANGED <<aLow, aHigh, b, mode>>
        BY <1>1, <2>3, FieldKeeps
    <2>6. CASE k = m + 2
        <3>1. /\ Head(plan).kind = "poll" /\ Head(plan).bit = 0 /\ Head(plan).want = FALSE
              /\ Head(plan).reg = CTRL
            <4>1. Head(plan) = gf_wait
                BY <1>8, <1>9, <2>6
            <4> QED
                BY <4>1 DEF gf_wait, Poll
        <3>2. (0 \in ReadData(CTRL)) = FALSE
            BY <3>1 DEF Proceed
        <3>3. ReadData(CTRL) = IF ctrl THEN {0} ELSE {}
            <4>1. RESULT # CTRL
                BY DEF RESULT, CTRL
            <4> QED
                BY <4>1, Zenon DEF ReadData
        <3>4. Done(c)
            <4>1. ctrl # TRUE
                <5>1. ctrl = TRUE => 0 \in ReadData(CTRL)
                    BY <3>3
                <5> QED
                    BY <3>2, <5>1
            <4> QED
                BY <2>2, <4>1 DEF Running
        <3>5. Len(plan) > 1 /\ "poll" # "load"
            BY <1>8, <2>6
        <3>6. plan' = Tail(plan) /\ loaded' = loaded /\ UNCHANGED <<call, answer>>
            BY <3>1, <3>5 DEF Proceed
        <3>7. k + 1 = m + 3 /\ k + 1 \in 1 .. m + 3
            BY <2>6
        <3>8. Computing(c, k + 1)'
            <4>1. ~(k + 1 <= m + 1) /\ k + 1 # m + 2
                BY <2>6
            <4> QED
                BY <1>5, <1>8, <2>2, <2>4, <2>5, <3>4, <3>6, <3>7, <4>1 DEF Computing, s
        <3> QED
            BY <1>3, <1>4, <1>5, <2>4, <3>6, <3>7, <3>8 DEF FieldInv
    <2>7. CASE k = m + 3
        <3>1. Head(plan).kind = "load" /\ Head(plan).reg = RESULT
            <4>1. Head(plan) = Load(RESULT)
                BY <1>8, <1>9, <2>7
            <4> QED
                BY <4>1 DEF Load
        <3>2. Done(c)
            BY <1>5, <1>6, <2>7 DEF Computing
        <3>3. ReadData(RESULT) = UnitAnswer(c)
            <4>1. RESULT # CTRL
                BY DEF RESULT, CTRL
            <4>2. ReadData(RESULT) = fsm["result"]
                BY <4>1, Zenon DEF ReadData
            <4> QED
                BY <3>2, <4>2 DEF Done
        <3> DEFINE l == Append(loaded, ReadData(RESULT))
        <3>4. l[1] = UnitAnswer(c)
            <4>1. PICK v : v = UnitAnswer(c)
                OBVIOUS
            <4>2. Append(<< >>, v)[1] = v
                OBVIOUS
            <4> QED
                BY <2>2, <3>3, <4>1, <4>2
        <3>5. ~(Len(plan) > 1)
            BY <1>8, <2>7
        <3>6. /\ plan' = << >> /\ call' = None
              /\ answer' = [call |-> call, value |-> Returned(l)]
            BY <1>10, <3>1, <3>5 DEF Proceed
        <3>7. Returned(l) = l[1]
            <4>1. /\ "gf_accel" # "base_mul" /\ "gf_accel" # "trng"
                  /\ call # <<"read">> /\ call # <<"reset">>
                <5>1. /\ <<"read">>[1] = "read" /\ <<"reset">>[1] = "reset"
                      /\ c[1] # "read" /\ c[1] # "reset"
                    BY CallAssumption
                <5> QED
                    BY <1>3, <5>1
            <4> HIDE DEF l
            <4> QED
                BY <4>1, Zenon DEF Returned
        <3>8. Idle'
            BY <2>4, <3>2 DEF Done
        <3>9. answer'.call = c /\ answer'.value = UnitAnswer(c)
            BY <1>3, <3>4, <3>6, <3>7
        <3> QED
            BY <2>4, <3>6, <3>8, <3>9 DEF FieldInv
    <2> QED
        BY <2>1, <2>6, <2>7
<1> QED
    BY <1>11, <1>12

(***************************************************************************)
(* A call of the field unit returns what the combinational units make of   *)
(* its own operands, or the last power of the chain of states S1 to S11    *)
(* for an inverse, whatever the registers held before (gf_accel.c,         *)
(* gf_accel_peripheral.vhd): ctrl is clear only when that is latched.      *)
(***************************************************************************)
THEOREM FieldInvariance == Spec => []FieldInv
<1>1. Init => FieldInv
    <2>1. ASSUME Init PROVE fsm = [r \in FieldRegisters |-> fsm[r]] /\ Idle
        BY <2>1 DEF Init, ResetField, FieldRegisters, Idle
    <2> QED
        BY <2>1 DEF Init, FieldInv
<1>2. FieldInv /\ [Next]_vars => FieldInv'
    <2> SUFFICES ASSUME FieldInv, [Next]_vars PROVE FieldInv'
        OBVIOUS
    <2>1. CASE UNCHANGED vars
        BY <2>1 DEF vars, fieldVars, driverVars, FieldInv, Computing, Running, Done, Idle, ChainHolds
    <2>2. CASE device # "gf_accel"
        <3>1. device' = device
            BY DEF Next, SoftField, SoftMultiplier, Answered, vars
        <3> QED
            BY <2>2, <3>1 DEF FieldInv
    <2>3. CASE device = "gf_accel" /\ Next
        <3>1. device' = device /\ ClockDevices /\ Instructions
            BY <2>3 DEF Next, SoftField, SoftMultiplier, Answered
        <3>2. ClockField(Access)
            BY <2>3, <3>1 DEF ClockDevices
        <3>3. ~CallMultiplier /\ ~CallSeed /\ ~CallCounter /\ ~Work
            BY <2>3 DEF CallMultiplier, CallSeed, CallCounter, Call, Work
        <3>4. Other \/ Hold \/ PollAgain =>
                  /\ UNCHANGED <<call, plan, loaded, answer>>
                  /\ ~InMem \/ Head(plan).kind # "store"
            <4>1. Other => ~InMem
                <5>1. ASSUME Other, gap = 0 PROVE FALSE
                    BY <5>1 DEF Other
                <5> QED
                    BY <5>1 DEF InMem
            <4>2. PollAgain => Head(plan).kind # "store"
                <5>1. "poll" # "store"
                    OBVIOUS
                <5> QED
                    BY <5>1 DEF PollAgain
            <4> QED
                BY <4>1, <4>2 DEF Other, Hold, PollAgain
        <3>5. CallField \/ Proceed \/ Other \/ Hold \/ PollAgain
            BY <3>1, <3>3 DEF Instructions
        <3> QED
            BY <2>3, <3>1, <3>2, <3>4, <3>5, FieldCallsBegin, FieldProceeds, FieldWaits
    <2> QED
        BY <2>1, <2>2, <2>3
<1> QED
    BY <1>1, <1>2, PTL DEF Spec

-----------------------------------------------------------------------------
(* What the runs check of any device.                                      *)

(* A call belongs to the device that is followed.                          *)
Own(c) ==
    \/ device = "gf_accel" /\ c \in FieldCalls
    \/ device = "base_mul" /\ c[1] = "base_mul"
    \/ device = "cycle" /\ c[1] \in {"read", "reset"}
    \/ device = "trng" /\ c[1] = "seed"
    \/ device = "software" /\ c[1] \in {"mul", "square", "inverse", "base_mul"}

CallsAreOwn == /\ call = None => plan = << >>
               /\ call # None => Own(call)
               /\ answer # None => Own(answer.call)

(* What the functions of gf.c and gf2x.c return.                           *)
SoftAnswer(a) ==
    \/ \E n \in Elements :
          \/ \E y \in Multipliers :
                a = [call |-> <<"mul", BitsOf(n), BitsOf(y)>>, value |-> gf_mul(BitsOf(n), BitsOf(y))]
          \/ a = [call |-> <<"square", BitsOf(n)>>, value |-> gf_square(BitsOf(n))]
          \/ a = [call |-> <<"inverse", BitsOf(n)>>, value |-> gf_inverse(BitsOf(n))]
    \/ \E x, y \in Factors : a = [call |-> <<"base_mul", x, y>>, value |-> Gf2x!base_mul(x, y)]

SoftInv == device = "software" /\ answer # None => SoftAnswer(answer)

(* Only the device that is followed is called, and answers.                *)
LEMMA OwnCalls == Spec => []CallsAreOwn
<1>1. Init => CallsAreOwn
    BY DEF Init, CallsAreOwn
<1>2. CallsAreOwn /\ [Next]_vars => CallsAreOwn'
    <2> SUFFICES ASSUME CallsAreOwn, [Next]_vars PROVE CallsAreOwn'
        OBVIOUS
    <2>1. device' = device
        BY DEF Next, SoftField, SoftMultiplier, Answered, vars
    <2>2. CASE UNCHANGED <<call, answer, plan>>
        BY <2>1, <2>2 DEF CallsAreOwn, Own
    <2>3. ASSUME NEW on, NEW what, NEW accesses, Call(on, what, accesses), what # None,
                 device = on => Own(what)
          PROVE  CallsAreOwn'
        BY <2>1, <2>3 DEF Call, CallsAreOwn, Own
    <2>4. CASE CallField
        <3>1. PICK c, accesses : c \in FieldCalls /\ Call("gf_accel", c, accesses)
            BY <2>4 DEF CallField
        <3> QED
            BY <2>3, <3>1, CallAssumption DEF Own
    <2>5. CASE CallMultiplier
        <3>1. PICK x \in Factors, y \in Factors :
                  Call("base_mul", <<"base_mul", x, y>>, base_mul_hw(x, y))
            BY <2>5 DEF CallMultiplier
        <3>2. <<"base_mul", x, y>>[1] = "base_mul"
            OBVIOUS
        <3> QED
            BY <2>3, <3>1, <3>2, CallAssumption DEF Own
    <2>6. CASE CallCounter
        <3>1. <<"read">>[1] = "read" /\ <<"reset">>[1] = "reset"
            OBVIOUS
        <3> QED
            BY <2>3, <2>6, <3>1, CallAssumption DEF CallCounter, Own
    <2>7. CASE CallSeed
        <3>1. <<"seed">>[1] = "seed"
            OBVIOUS
        <3> QED
            BY <2>3, <2>7, <3>1, CallAssumption DEF CallSeed, Own
    <2>8. CASE Proceed
        <3>1. call # None
            BY <2>8 DEF CallsAreOwn, Proceed, MayLeave, InMem
        <3>2. \/ UNCHANGED <<call, answer>>
              \/ call' = None /\ plan' = << >> /\ answer'.call = call
            BY <2>8 DEF Proceed
        <3> QED
            BY <2>1, <3>1, <3>2 DEF CallsAreOwn, Own
    <2>9. CASE SoftField \/ SoftMultiplier
        <3>1. PICK c, v : /\ c[1] \in {"mul", "square", "inverse", "base_mul"}
                          /\ device = "software" /\ UNCHANGED <<call, plan>>
                          /\ answer' = [call |-> c, value |-> v]
            <4>1. /\ \A x, y : <<"mul", x, y>>[1] = "mul" /\ <<"base_mul", x, y>>[1] = "base_mul"
                  /\ \A x : <<"square", x>>[1] = "square" /\ <<"inverse", x>>[1] = "inverse"
                OBVIOUS
            <4> QED
                BY <2>9, <4>1 DEF SoftField, SoftMultiplier, Answered
        <3>2. answer'.call = c
            BY <3>1
        <3> QED
            BY <2>1, <3>1, <3>2 DEF CallsAreOwn, Own
    <2>10. CASE Work \/ Other \/ Hold \/ PollAgain
        BY <2>2, <2>10 DEF Work, Other, Hold, PollAgain
    <2>11. CASE UNCHANGED vars
        BY <2>2, <2>11 DEF vars, driverVars
    <2> QED
        BY <2>4, <2>5, <2>6, <2>7, <2>8, <2>9, <2>10, <2>11 DEF Next, Instructions
<1> QED
    BY <1>1, <1>2, PTL DEF Spec

(* The software returns what its functions compute.                        *)
LEMMA SoftAnswers == Spec => []SoftInv
<1>1. Init => SoftInv
    BY DEF Init, SoftInv
<1>2. SoftInv /\ [Next]_vars => SoftInv'
    <2> SUFFICES ASSUME SoftInv, [Next]_vars PROVE SoftInv'
        OBVIOUS
    <2>1. device' = device
        BY DEF Next, SoftField, SoftMultiplier, Answered, vars
    <2>2. CASE SoftField
        <3>1. PICK n \in Elements :
                  \/ \E y \in Multipliers :
                        Answered(<<"mul", BitsOf(n), BitsOf(y)>>, gf_mul(BitsOf(n), BitsOf(y)))
                  \/ Answered(<<"square", BitsOf(n)>>, gf_square(BitsOf(n)))
                  \/ Answered(<<"inverse", BitsOf(n)>>, gf_inverse(BitsOf(n)))
            BY <2>2 DEF SoftField
        <3>2. SoftAnswer(answer')
            BY <3>1 DEF SoftAnswer, Answered
        <3> QED
            BY <3>2 DEF SoftInv, SoftAnswer
    <2>3. CASE SoftMultiplier
        <3>1. SoftAnswer(answer')
            BY <2>3 DEF SoftMultiplier, SoftAnswer, Answered
        <3> QED
            BY <3>1 DEF SoftInv, SoftAnswer
    <2>4. CASE device # "software"
        BY <2>1, <2>4 DEF SoftInv
    <2>5. CASE UNCHANGED vars
        BY <2>5 DEF vars, driverVars, SoftInv, SoftAnswer
    <2> QED
        BY <2>2, <2>3, <2>4, <2>5 DEF Next
<1> QED
    BY <1>1, <1>2, PTL DEF Spec

(***************************************************************************)
(* read_cycles returns what the counter stood at at some time between the  *)
(* call and the return, for halves of every length: the repetition         *)
(* (cycle_counter.c) makes one value of two loads of a moving counter.     *)
(***************************************************************************)
THEOREM ReadsAreMoments == Spec => []ReadIsAMoment
<1>1. CounterInv /\ CallsAreOwn => ReadIsAMoment
    <2> SUFFICES ASSUME CounterInv, CallsAreOwn, answer # None, answer.call = <<"read">>
                 PROVE  ReadIsAMoment
        BY DEF ReadIsAMoment
    <2>1. <<"read">>[1] = "read"
        OBVIOUS
    <2>2. device = "cycle"
        BY <2>1, CallAssumption DEF CallsAreOwn, Own
    <2> QED
        BY <2>2 DEF CounterInv
<1> QED
    BY <1>1, CounterInvariance, OwnCalls, PTL

(***************************************************************************)
(* init_seed fills a seed of any length with bytes that the generator gave *)
(* once each, none of them the same random byte as another (trng.c).       *)
(***************************************************************************)
THEOREM SeedsAreFresh == Spec => []BytesAreFresh
<1>1. RandomInv /\ CallsAreOwn => BytesAreFresh
    <2> SUFFICES ASSUME RandomInv, CallsAreOwn, answer # None, answer.call = <<"seed">>
                 PROVE  BytesAreFresh
        BY DEF BytesAreFresh
    <2>1. <<"seed">>[1] = "seed"
        OBVIOUS
    <2>2. device = "trng"
        BY <2>1, CallAssumption DEF CallsAreOwn, Own
    <2> QED
        BY <2>2 DEF RandomInv
<1> QED
    BY <1>1, RandomInvariance, OwnCalls, PTL

(***************************************************************************)
(* base_mul gives the carry-less product of any two words, from the        *)
(* multiplier, whatever it held before and however long its accesses take, *)
(* and from the window method of gf2x.c.                                   *)
(***************************************************************************)
THEOREM EveryProductIsRight == Spec => []ProductsAreRight
<1>1. MultiplierInv /\ SoftInv /\ CallsAreOwn => ProductsAreRight
    <2> SUFFICES ASSUME MultiplierInv, SoftInv, CallsAreOwn, answer # None,
                        answer.call[1] = "base_mul"
                 PROVE  ProductsAreRight
        BY DEF ProductsAreRight
    <2>1. device = "base_mul" \/ device = "software"
        BY CallAssumption DEF CallsAreOwn, Own
    <2>2. CASE device = "base_mul"
        BY <2>2 DEF MultiplierInv
    <2>3. CASE device = "software"
        <3>1. SoftAnswer(answer)
            BY <2>3 DEF SoftInv
        <3>2. PICK x \in Factors, y \in Factors :
                  answer = [call |-> <<"base_mul", x, y>>, value |-> Gf2x!base_mul(x, y)]
            <4>1. /\ \A n, y, v : [call |-> <<"mul", n, y>>, value |-> v].call[1] = "mul"
                  /\ \A n, v : [call |-> <<"square", n>>, value |-> v].call[1] = "square"
                  /\ \A n, v : [call |-> <<"inverse", n>>, value |-> v].call[1] = "inverse"
                  /\ "mul" # "base_mul" /\ "square" # "base_mul" /\ "inverse" # "base_mul"
                OBVIOUS
            <4> QED
                BY <3>1, <4>1 DEF SoftAnswer
        <3>3. x \in Word64 /\ y \in Word64
            BY CallAssumption DEF Word64
        <3>4. Gf2x!base_mul(x, y)[1] \cup Up(Gf2x!base_mul(x, y)[2], 64) = Product(x, y, 64)
            BY <3>3, BaseMulMultiplies, ProductOfWords
        <3>5. answer.call[2] = x /\ answer.call[3] = y /\ answer.value = Gf2x!base_mul(x, y)
            BY <3>2
        <3> QED
            BY <3>4, <3>5 DEF ProductsAreRight
    <2> QED
        BY <2>1, <2>2, <2>3
<1> QED
    BY <1>1, MultiplierInvariance, SoftAnswers, OwnCalls, PTL

(***************************************************************************)
(* Every answer of gf_mul, gf_square, gf_reduce, gf_inverse and base_mul   *)
(* is right if the arithmetic is: UnitsAgree is a statement about bytes    *)
(* and tables, without time, which TLC evaluates.  The registers, the      *)
(* polling and the state machine never mix the operands of two calls and   *)
(* never give an answer too early.                                         *)
(***************************************************************************)
THEOREM AnswersFollowTheUnits == UnitsAgree => (Spec => []AnswersAreRight)
<1> SUFFICES ASSUME UnitsAgree PROVE Spec => []AnswersAreRight
    OBVIOUS
<1>1. FieldInv /\ SoftInv /\ CallsAreOwn /\ ProductsAreRight => AnswersAreRight
    <2> SUFFICES ASSUME FieldInv, SoftInv, CallsAreOwn, answer # None,
                        answer.call[1] \in FieldNames
                 PROVE  answer.value = FieldValue(answer.call)
        BY DEF AnswersAreRight
    <2>1. device = "gf_accel" \/ device = "software"
        BY DEF CallsAreOwn, Own, FieldNames
    <2>2. CASE device = "gf_accel"
        BY <2>2 DEF FieldInv, UnitsAgree
    <2>3. CASE device = "software"
        <3>1. SoftAnswer(answer)
            BY <2>3 DEF SoftInv
        <3>2. ASSUME NEW x, NEW y, NEW v, answer = [call |-> <<"base_mul", x, y>>, value |-> v]
              PROVE  FALSE
            <4>1. answer.call[1] = "base_mul"
                BY <3>2
            <4> QED
                BY <4>1 DEF FieldNames
        <3>3. PICK n \in Elements :
                  \/ \E y \in Multipliers :
                        answer = [call |-> <<"mul", BitsOf(n), BitsOf(y)>>,
                                  value |-> gf_mul(BitsOf(n), BitsOf(y))]
                  \/ answer = [call |-> <<"square", BitsOf(n)>>, value |-> gf_square(BitsOf(n))]
                  \/ answer = [call |-> <<"inverse", BitsOf(n)>>, value |-> gf_inverse(BitsOf(n))]
            BY <3>1, <3>2 DEF SoftAnswer
        <3>4. \A c, v : answer = [call |-> c, value |-> v] => answer.call = c /\ answer.value = v
            OBVIOUS
        <3> QED
            BY <3>3, <3>4 DEF UnitsAgree
    <2> QED
        BY <2>1, <2>2, <2>3
<1> QED
    BY <1>1, FieldInvariance, SoftAnswers, OwnCalls, EveryProductIsRight, PTL

=============================================================================
