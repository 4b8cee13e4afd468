---------------------------- MODULE Accelerators ----------------------------
(***************************************************************************)
(* The peripherals that answer: the field unit, the carry-less multiplier,  *)
(* the cycle counter and the random number generator, with their drivers.   *)
(* A driver is a sequence of accesses that pass the stage MEM of the core.  *)
(* A load is held there for pairs of cycles and gets the value of the last  *)
(* (Console); a store passes in one, for no driver has a division next to   *)
(* its stores.  Around an access there are other instructions.              *)
(*                                                                         *)
(* A behaviour follows one device, chosen in Init: the devices share only   *)
(* the bus, which selects one of them.  On "software" there is no device,   *)
(* and gf.c and gf2x.c compute.                                             *)
(***************************************************************************)
EXTENDS FieldUnit

CONSTANTS Followed,     \* the devices followed
          FieldCalls,   \* calls of the field unit, as <<name, x, y>>
          Elements, Multipliers,   \* bytes for gf.c, and what they are multiplied by
          Factors,      \* words multiplied
          HALF,         \* bits of half the cycle counter, 32 in the program
          Starts,       \* what it may stand at when it is first called
          SEED_LEN,     \* bytes of the seed
          MaxHold,      \* cycles that a load stays in MEM, at the most
          MaxOther,     \* cycles between two accesses of a call, at the most
          MaxCalls,     \* bound of a behaviour
          None

(* An iteration of read_cycles is shorter than a turn of the lower half.     *)
ASSUME TimingAssumption ==
    /\ MaxHold \in Nat /\ MaxHold >= 2 /\ MaxHold % 2 = 0 /\ MaxOther \in Nat \ {0}
    /\ 2^HALF \in Nat /\ 3 * (MaxHold + MaxOther) < 2^HALF

VARIABLES device,
          aReg, bReg,        \* of the multiplier
          counter,           \* of the cycles
          enable, flag, byte, sampling, valid,   \* of the generator
          call,              \* the call under way
          plan,              \* its accesses to come, Head(plan) being the next
          gap,               \* other instructions before that
          held,              \* cycles it has been in MEM
          stray,             \* the ALU result in MEM is, unintended, a register's address
          loaded,            \* what the call has loaded
          answer,            \* history: a call that has returned, with its value
          began,             \* history: the counter when the call began
          calls              \* history: how many there were

countVars == <<counter, began>>
randomVars == <<enable, flag, byte, sampling, valid>>
driverVars == <<call, plan, gap, held, stray, loaded, answer, calls>>
vars == <<device, fieldVars, aReg, bReg, countVars, randomVars, driverVars>>

Gf2x == INSTANCE CarrylessMul WITH WORD <- 64, WINDOW <- 4

-----------------------------------------------------------------------------
(* Accesses                                                                 *)
Store(reg, data) == [kind |-> "store", reg |-> reg, data |-> data]
Load(reg) == [kind |-> "load", reg |-> reg]
Poll(reg, bit, want) == [kind |-> "poll", reg |-> reg, bit |-> bit, want |-> want]

BusNumber == [cycle |-> 2, base_mul |-> 3, gf_accel |-> 4, trng |-> 5]

InMem == plan # << >> /\ gap = 0

Access ==
    IF InMem
    THEN LET address == Address(8, BusNumber[device], Head(plan).reg)
         IN  IF Head(plan).kind = "store" THEN Write(address, Head(plan).data) ELSE Read(address)
    ELSE IF stray THEN Read(Address(8, BusNumber[device], 1))
    ELSE Read(Address(0, 0, 0))

-----------------------------------------------------------------------------
(* base_mul_peripheral.vhd, with registers 0 to 3 for the factors and 4 to 7 *)
(* for the product; karatNbit multiplies halves.                            *)
karatNbit(N, x, y) ==
    LET high(z) == Down(z, N \div 2)
        low(z) == Low(z, N \div 2)
        product1 == addshift(high(x), high(y))
        product2 == addshift(low(x), low(y))
        product3 == addshift(high(x) (+) low(x), high(y) (+) low(y))
    IN  Up(product1, N) (+) product2 (+) Up(product3 (+) product2 (+) product1, N \div 2)

WordOf(x, k) == Low(Down(x, 32 * k), 32)

ClockMultiplier ==
    LET written(x, low, high) ==
            IF Writes(Access, "base_mul", low) THEN Access.wdata \cup Up(WordOf(x, 1), 32)
            ELSE IF Writes(Access, "base_mul", high) THEN WordOf(x, 0) \cup Up(Access.wdata, 32)
            ELSE x
    IN  aReg' = written(aReg, 0, 1) /\ bReg' = written(bReg, 2, 3)

(* cycle_counter.vhd                                                        *)
LOW == 0
HIGH == 1

Turn == 2^HALF * 2^HALF

ASSUME CallAssumption ==
    /\ Starts \subseteq 0 .. Turn - 1 /\ SEED_LEN \in Nat
    /\ \A c \in FieldCalls : c[1] \in {"mul", "square", "reduce", "inverse"}
    /\ Factors \subseteq SUBSET (0 .. 63)
    /\ None \notin {<<"read">>, <<"reset">>, <<"seed">>} \cup FieldCalls
    /\ None \notin {<<"base_mul", x, y>> : x \in Factors, y \in Factors}

ClockCounter ==
    counter' = IF Writes(Access, "cycle", LOW) THEN 0 ELSE (counter + 1) % Turn

(* trng_peripheral.vhd around neoTRNG, which gives a byte at any time while   *)
(* it samples.  A byte is "fresh", or "used" once a load has returned it, or *)
(* "reset" if it is none.                                                   *)
STATUS == 0
DATA == 1

neoTRNG ==
    /\ sampling' = enable
    /\ valid' \in IF sampling /\ ~valid THEN BOOLEAN ELSE {FALSE}

(* A load of the data leaves MEM with it.                                   *)
Taken == InMem /\ Head(plan) = Load(DATA) /\ plan' # plan

\* Mutant: the flag stays when the data is read.
CaptureUncleared ==
    LET captured == valid /\ ~flag
    IN  /\ byte' = IF captured THEN "fresh"
                   ELSE IF Taken THEN "used" ELSE byte
        /\ flag' = (captured \/ flag)

\* Mutant: any read clears the flag.
CaptureAnyRead ==
    LET captured == valid /\ ~flag
        read == Selected(Access.address) = "trng" /\ ~Access.we
    IN  /\ byte' = IF captured THEN "fresh"
                   ELSE IF Taken THEN "used" ELSE byte
        /\ flag' = ((captured \/ flag) /\ ~read)

(* A byte that comes while the flag is set is dropped.  A read of the data   *)
(* clears the flag, also in the cycle that would set it.                    *)
Capture ==
    LET captured == valid /\ ~flag
    IN  /\ byte' = IF captured THEN "fresh"
                   ELSE IF Taken THEN "used" ELSE byte
        /\ flag' = ((captured \/ flag) /\ ~Reads(Access, "trng", DATA))

ClockGenerator ==
    /\ neoTRNG
    /\ Capture
    /\ enable' = IF Writes(Access, "trng", STATUS) THEN 0 \in Access.wdata ELSE enable

ClockDevices ==
    /\ IF device = "gf_accel" THEN ClockField(Access) ELSE UNCHANGED fieldVars
    /\ IF device = "base_mul" THEN ClockMultiplier ELSE UNCHANGED <<aReg, bReg>>
    /\ IF device = "cycle" THEN ClockCounter ELSE UNCHANGED counter
    /\ IF device = "trng" THEN ClockGenerator ELSE UNCHANGED randomVars

(* What a load gets: a word as the set of its ones, or half the counter, or a *)
(* random byte.                                                             *)
ReadData(reg) ==
    CASE device = "gf_accel" /\ reg = CTRL -> IF ctrl THEN {0} ELSE {}
      [] device = "gf_accel" /\ reg = RESULT -> fsm["result"]
      [] device = "base_mul" -> WordOf(karatNbit(64, aReg, bReg), reg - 4)
      [] device = "cycle" /\ reg = LOW -> counter % 2^HALF
      [] device = "cycle" /\ reg = HIGH -> counter \div 2^HALF
      [] device = "trng" /\ reg = STATUS -> (IF enable THEN {0} ELSE {}) \cup (IF flag THEN {1} ELSE {})
      [] device = "trng" /\ reg = DATA -> byte

-----------------------------------------------------------------------------
(* The drivers: what they access                                            *)
gf_wait == Poll(CTRL, 0, FALSE)
gf_run == << Store(CTRL, {0}), gf_wait, Load(RESULT) >>

gf_mul_hw(x, y) == << Store(MODE, MUL_REDUCE), Store(A_LOW, x), Store(B, y) >> \o gf_run
gf_square_hw(x) == << Store(MODE, SQUARE_REDUCE), Store(A_LOW, x) >> \o gf_run
gf_reduce_hw(x) ==
    << Store(MODE, REDUCE_ONLY), Store(A_LOW, WordOf(x, 0)), Store(A_HIGH, WordOf(x, 1)) >> \o gf_run
gf_inverse_hw(x) == << Store(MODE, INVERSE), Store(A_LOW, x) >> \o gf_run

mul_write(reg, x) == << Store(reg, WordOf(x, 0)), Store(reg + 1, WordOf(x, 1)) >>
mul_read == << Load(4), Load(5), Load(6), Load(7) >>
base_mul_hw(x, y) == mul_write(0, x) \o mul_write(2, y) \o mul_read

read_cycles == << Load(HIGH), Load(LOW), Load(HIGH) >>
reset_cycle_counter == << Store(LOW, {}) >>

trng_init == << Load(STATUS), Store(STATUS, {0}) >>
trng_get_byte == << Poll(STATUS, 1, TRUE), Load(DATA) >>
trng_stop == << Load(STATUS), Store(STATUS, {}) >>

trng_get_bytes(len) == [i \in 1 .. 2 * len |-> trng_get_byte[IF i % 2 = 1 THEN 1 ELSE 2]]

init_seed == trng_init \o trng_get_bytes(SEED_LEN) \o trng_stop

Init ==
    /\ device \in Followed
    /\ ResetField /\ aReg = {} /\ bReg = {}
    /\ counter \in (IF device = "cycle" THEN Starts ELSE {0})
    /\ enable = FALSE /\ flag = FALSE /\ byte = "reset" /\ sampling = FALSE /\ valid = FALSE
    /\ call = None /\ plan = << >> /\ gap = 0 /\ held = 0 /\ stray = FALSE /\ loaded = << >>
    /\ answer = None /\ began = 0 /\ calls = 0

-----------------------------------------------------------------------------
(* The instructions                                                         *)
Call(on, what, accesses) ==
    /\ device = on /\ call = None /\ calls < MaxCalls
    /\ call' = what /\ plan' = accesses /\ gap' \in 0..MaxOther
    /\ held' = 1 /\ stray' = FALSE /\ loaded' = << >>
    /\ answer' = None
    /\ began' = counter
    /\ calls' = calls + 1

CallField ==
    \E c \in FieldCalls :
        Call("gf_accel", c, CASE c[1] = "mul"     -> gf_mul_hw(c[2], c[3])
                              [] c[1] = "square"  -> gf_square_hw(c[2])
                              [] c[1] = "reduce"  -> gf_reduce_hw(c[2])
                              [] c[1] = "inverse" -> gf_inverse_hw(c[2]))

CallMultiplier ==
    \E x, y \in Factors : Call("base_mul", <<"base_mul", x, y>>, base_mul_hw(x, y))

CallCounter == \/ Call("cycle", <<"read">>, read_cycles)
               \/ Call("cycle", <<"reset">>, reset_cycle_counter)

CallSeed == Call("trng", <<"seed">>, init_seed)

(* Between calls an ALU result may look like the address of a register, which *)
(* matters only where a read has an effect.                                 *)
Work ==
    /\ device = "trng" /\ call = None
    /\ stray' \in BOOLEAN
    /\ UNCHANGED <<call, plan, gap, held, loaded, answer, began, calls>>

Other ==
    /\ call # None /\ gap > 0
    /\ gap' = gap - 1
    /\ UNCHANGED <<call, plan, held, stray, loaded, answer, began, calls>>

Hold ==
    /\ InMem /\ Head(plan).kind # "store" /\ held < MaxHold
    /\ held' = held + 1
    /\ UNCHANGED <<call, plan, gap, stray, loaded, answer, began, calls>>

MayLeave == InMem /\ (Head(plan).kind # "store" => held % 2 = 0)

(* A loop repeats until its bit is as wanted; the branch takes time.        *)
PollAgain ==
    /\ MayLeave /\ Head(plan).kind = "poll"
    /\ (Head(plan).bit \in ReadData(Head(plan).reg)) # Head(plan).want
    /\ gap' \in 1..MaxOther /\ held' = 1
    /\ UNCHANGED <<call, plan, stray, loaded, answer, began, calls>>

\* Mutant: the high word is not compared.
againNever(l) == FALSE

(* do ... while (hi1 != hi2)                                                *)
again(l) == call = <<"read">> /\ l[1] # l[3]

(* What a call returns, made of what it loaded                              *)
Returned(l) ==
    CASE device = "gf_accel" -> l[1]
      [] device = "base_mul" -> <<l[1] \cup Up(l[2], 32), l[3] \cup Up(l[4], 32)>>
      [] call = <<"read">> -> l[1] * 2^HALF + l[2]
      [] call = <<"reset">> -> None
      [] device = "trng" -> SubSeq(l, 2, 1 + SEED_LEN)

Proceed ==
    /\ MayLeave
    /\ Head(plan).kind = "poll" =>
          (Head(plan).bit \in ReadData(Head(plan).reg)) = Head(plan).want
    /\ LET l == IF Head(plan).kind = "load" THEN Append(loaded, ReadData(Head(plan).reg)) ELSE loaded
       IN  IF Len(plan) > 1
           THEN plan' = Tail(plan) /\ loaded' = l /\ UNCHANGED <<call, answer>>
           ELSE IF again(l)
           THEN plan' = read_cycles /\ loaded' = << >> /\ UNCHANGED <<call, answer>>
           ELSE /\ plan' = << >> /\ loaded' = << >> /\ call' = None
                /\ answer' = [call |-> call, value |-> Returned(l)]
    /\ gap' \in (IF plan' = << >> THEN {0}
                 ELSE IF Head(plan).kind = "poll" THEN 1..MaxOther ELSE 0..MaxOther)
    /\ held' = 1
    /\ UNCHANGED <<stray, began, calls>>

Instructions ==
    \/ CallField \/ CallMultiplier \/ CallCounter \/ CallSeed
    \/ Work \/ Other \/ Hold \/ PollAgain \/ Proceed

(* gf.c and gf2x.c without the accelerators                                 *)
Answered(c, value) ==
    /\ device = "software" /\ answer = None
    /\ answer' = [call |-> c, value |-> value]
    /\ UNCHANGED <<device, fieldVars, aReg, bReg, countVars, randomVars,
                   call, plan, gap, held, stray, loaded, calls>>

SoftField ==
    \E n \in Elements :
        LET x == BitsOf(n)
        IN  \/ \E y \in Multipliers : Answered(<<"mul", x, BitsOf(y)>>, gf_mul(x, BitsOf(y)))
            \/ Answered(<<"square", x>>, gf_square(x))
            \/ Answered(<<"inverse", x>>, gf_inverse(x))

SoftMultiplier ==
    \E x, y \in Factors : Answered(<<"base_mul", x, y>>, Gf2x!base_mul(x, y))

Next == \/ device # "software" /\ Instructions /\ ClockDevices /\ UNCHANGED device
        \/ SoftField \/ SoftMultiplier

(* The clock runs during a call, and a generator that samples gives bytes.   *)
(* (The first is WF_vars(call # None /\ Next), a step that is enabled in    *)
(* every state with call # None; spelled out, it spares TLC to evaluate     *)
(* ENABLED.)                                                                *)
Spec ==
    /\ Init /\ [][Next]_vars
    /\ <>[](call # None) => []<><<call # None>>_vars
    /\ WF_vars(device = "trng" /\ Next /\ valid')

-----------------------------------------------------------------------------
(* gf_mul, gf_square, gf_reduce, gf_inverse and base_mul give the product,    *)
(* the square, the remainder, the inverse and the carry-less product, in     *)
(* software and from the peripherals, whatever they computed before.        *)
FieldNames == {"mul", "square", "reduce", "inverse"}

FieldValue(c) ==
    CASE c[1] = "mul"     -> BitsOf(ElementOf(c[2]) ** ElementOf(c[3]))
      [] c[1] = "square"  -> BitsOf(ElementOf(c[2]) ** ElementOf(c[2]))
      [] c[1] = "reduce"  -> BitsOf(ElementOf(c[2]))
      [] c[1] = "inverse" -> BitsOf(Inv(ElementOf(c[2])))

ProductsAreRight ==
    answer # None /\ answer.call[1] = "base_mul" =>
        answer.value[1] \cup Up(answer.value[2], 64) = Product(answer.call[2], answer.call[3], 64)

AnswersAreRight ==
    /\ answer # None /\ answer.call[1] \in FieldNames => answer.value = FieldValue(answer.call)
    /\ ProductsAreRight

(* The arithmetic alone: that the units of the accelerator, and the functions *)
(* of gf.c, are right on the operands of the calls.                         *)
UnitAnswer(c) ==
    CASE c[1] = "mul"     -> Multiplied(c[2], c[3])
      [] c[1] = "square"  -> Squared(c[2])
      [] c[1] = "reduce"  -> gf_reduce_core(Up(WordOf(c[2], 1), 32) \cup WordOf(c[2], 0))
      [] c[1] = "inverse" -> Power254(Low(c[2], 16))

UnitsAgree ==
    /\ \A c \in FieldCalls : UnitAnswer(c) = FieldValue(c)
    /\ \A n \in Elements :
          /\ \A y \in Multipliers :
                gf_mul(BitsOf(n), BitsOf(y)) = FieldValue(<<"mul", BitsOf(n), BitsOf(y)>>)
          /\ gf_square(BitsOf(n)) = FieldValue(<<"square", BitsOf(n)>>)
          /\ gf_inverse(BitsOf(n)) = FieldValue(<<"inverse", BitsOf(n)>>)

(* read_cycles returns what the counter stood at at some time between the     *)
(* call and the return, although it reads it in halves.                     *)
ReadIsAMoment ==
    answer # None /\ answer.call = <<"read">> =>
        (answer.value - began) % Turn <= (counter - began) % Turn

(* init_seed fills the seed with random bytes of which none was returned     *)
(* before, in this call or an earlier one.                                  *)
BytesAreFresh ==
    answer # None /\ answer.call = <<"seed">> =>
        answer.value = [k \in 1..SEED_LEN |-> "fresh"]

(* Every call returns: the field unit clears ctrl, read_cycles finds its      *)
(* halves to agree, and the generator's flag is seen.                       *)
CallsReturn == call # None ~> call = None
==============================================================================
