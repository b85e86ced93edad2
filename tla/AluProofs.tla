------------------------------ MODULE AluProofs ------------------------------
(***************************************************************************)
(* The arithmetic and logic instructions, for every program, operand and   *)
(* flag: results and flags keep their widths, and additions and            *)
(* subtractions set the flags that programs compare by.                    *)
(***************************************************************************)
EXTENDS Alu, SequenceTheorems, TLAPS

-----------------------------------------------------------------------------
(* Bits. *)

LEMMA BitIsBit ==
  ASSUME NEW n \in Int, NEW k \in 0..16
  PROVE  Bit(n, k) \in 0..1
<1>1. Power(k) \in Nat \ {0}
  BY DEF Power
<1>2. n \div Power(k) \in Int
  BY <1>1
<1> QED
  BY <1>2 DEF Bit

(* The sign of a number of w bits. *)
LEMMA SignBit ==
  ASSUME NEW w \in {8, 16}, NEW v \in 0..Power(w)-1
  PROVE  Bit(v, w-1) = Flag(Signed(v, w) < 0)
<1>1. CASE w = 8
  BY <1>1 DEF Bit, Power, Flag, Signed
<1>2. CASE w = 16
  BY <1>2 DEF Bit, Power, Flag, Signed
<1> QED
  BY <1>1, <1>2

-----------------------------------------------------------------------------
(* Carries.  The third of the bits k of a, b and of their sum or           *)
(* difference tells whether the lower k bits overflow.                     *)

LEMMA SumParity ==
  ASSUME NEW p \in Int, NEW q \in Int, NEW k \in 0..1
  PROVE  ((p % 2) + (q % 2) + ((p + q + k) % 2)) % 2 = k
OBVIOUS

LEMMA DifferenceParity ==
  ASSUME NEW p \in Int, NEW q \in Int, NEW k \in 0..1
  PROVE  ((p % 2) + (q % 2) + ((p - q - k) % 2)) % 2 = k
OBVIOUS

Carried == {4, 7, 8, 12, 15, 16}

LEMMA SumSplits ==
  ASSUME NEW a \in Int, NEW b \in Int, NEW c \in 0..1, NEW k \in Carried
  PROVE  (a + b + c) \div Power(k)
           = (a \div Power(k)) + (b \div Power(k))
             + Flag((a % Power(k)) + (b % Power(k)) + c >= Power(k))
<1>1. CASE k = 4
  BY <1>1 DEF Power, Flag
<1>2. CASE k = 7
  BY <1>2 DEF Power, Flag
<1>3. CASE k = 8
  BY <1>3 DEF Power, Flag
<1>4. CASE k = 12
  BY <1>4 DEF Power, Flag
<1>5. CASE k = 15
  BY <1>5 DEF Power, Flag
<1>6. CASE k = 16
  BY <1>6 DEF Power, Flag
<1> QED
  BY <1>1, <1>2, <1>3, <1>4, <1>5, <1>6 DEF Carried

LEMMA DifferenceSplits ==
  ASSUME NEW a \in Int, NEW b \in Int, NEW c \in 0..1, NEW k \in Carried
  PROVE  (a - b - c) \div Power(k)
           = (a \div Power(k)) - (b \div Power(k))
             - Flag((a % Power(k)) < (b % Power(k)) + c)
<1>1. CASE k = 4
  BY <1>1 DEF Power, Flag
<1>2. CASE k = 7
  BY <1>2 DEF Power, Flag
<1>3. CASE k = 8
  BY <1>3 DEF Power, Flag
<1>4. CASE k = 12
  BY <1>4 DEF Power, Flag
<1>5. CASE k = 15
  BY <1>5 DEF Power, Flag
<1>6. CASE k = 16
  BY <1>6 DEF Power, Flag
<1> QED
  BY <1>1, <1>2, <1>3, <1>4, <1>5, <1>6 DEF Carried

LEMMA QuotientIsInt ==
  ASSUME NEW n \in Int, NEW k \in Carried
  PROVE  n \div Power(k) \in Int
<1>1. Power(k) \in Nat \ {0}
  BY DEF Power, Carried
<1> QED
  BY <1>1

LEMMA CarryOfSum ==
  ASSUME NEW a \in Int, NEW b \in Int, NEW c \in 0..1, NEW k \in Carried
  PROVE  Carry(a, b, a + b + c, k) = Flag((a % Power(k)) + (b % Power(k)) + c >= Power(k))
<1> DEFINE over == Flag((a % Power(k)) + (b % Power(k)) + c >= Power(k))
           p == a \div Power(k)
           q == b \div Power(k)
<1>1. over \in 0..1 /\ p \in Int /\ q \in Int
  BY QuotientIsInt DEF Flag
<1>2. (a + b + c) \div Power(k) = p + q + over
  BY SumSplits
<1>3. Carry(a, b, a + b + c, k) = ((p % 2) + (q % 2) + ((p + q + over) % 2)) % 2
  BY <1>2 DEF Carry, Bit
<1> HIDE DEF over, p, q
<1>4. Carry(a, b, a + b + c, k) = over
  BY <1>1, <1>3, SumParity
<1> QED
  BY <1>4 DEF over

LEMMA CarryOfDifference ==
  ASSUME NEW a \in Int, NEW b \in Int, NEW c \in 0..1, NEW k \in Carried
  PROVE  Carry(a, b, a - b - c, k) = Flag((a % Power(k)) < (b % Power(k)) + c)
<1> DEFINE under == Flag((a % Power(k)) < (b % Power(k)) + c)
           p == a \div Power(k)
           q == b \div Power(k)
<1>1. under \in 0..1 /\ p \in Int /\ q \in Int
  BY QuotientIsInt DEF Flag
<1>2. (a - b - c) \div Power(k) = p - q - under
  BY DifferenceSplits
<1>3. Carry(a, b, a - b - c, k) = ((p % 2) + (q % 2) + ((p - q - under) % 2)) % 2
  BY <1>2 DEF Carry, Bit
<1> HIDE DEF under, p, q
<1>4. Carry(a, b, a - b - c, k) = under
  BY <1>1, <1>3, DifferenceParity
<1> QED
  BY <1>4 DEF under

-----------------------------------------------------------------------------
(* Sums and differences of w bits. *)

Size(w) == 0..Power(w)-1

LEMMA ResultIsSmall ==
  ASSUME NEW w \in {8, 16}, NEW z \in Int
  PROVE  z % Power(w) \in Size(w) /\ Size(8) = Byte /\ Size(16) = Word
BY DEF Power, Size, Byte, Word

LEMMA SmallRemainder ==
  ASSUME NEW w \in {8, 16}, NEW n \in Size(w)
  PROVE  n \in Int /\ n % Power(w) = n
<1>1. CASE w = 8
  BY <1>1 DEF Power, Size
<1>2. CASE w = 16
  BY <1>2 DEF Power, Size
<1> QED
  BY <1>1, <1>2

(* Signed and unsigned overflow of a sum in terms of its carries. *)
LEMMA SumOverflows ==
  ASSUME NEW w \in {8, 16}, NEW a \in Size(w), NEW b \in Size(w), NEW c \in 0..1
  PROVE  /\ Carry(a, b, a + b + c, w-4) = Flag(Low(a, w) + Low(b, w) + c >= Power(w-4))
         /\ Carry(a, b, a + b + c, w) = Flag(a + b + c >= Power(w))
         /\ Overflow(a, b, a + b + c, w) = Flag(~Fits(Signed(a, w) + Signed(b, w) + c, w))
<1> DEFINE into == Carry(a, b, a + b + c, w-1)
           out == Carry(a, b, a + b + c, w)
<1>1. a \in Int /\ b \in Int /\ {w-4, w-1, w} \subseteq Carried
  BY DEF Size, Power, Carried
<1>2. Carry(a, b, a + b + c, w-4) = Flag(Low(a, w) + Low(b, w) + c >= Power(w-4))
  BY <1>1, CarryOfSum DEF Low
<1>3. a % Power(w) = a /\ b % Power(w) = b
  BY SmallRemainder
<1>4. out = Flag(a + b + c >= Power(w))
  <2>1. out = Flag((a % Power(w)) + (b % Power(w)) + c >= Power(w))
    BY <1>1, CarryOfSum
  <2> QED
    BY <1>3, <2>1 DEF Flag
<1>5. into = Flag((a % Power(w-1)) + (b % Power(w-1)) + c >= Power(w-1))
  BY <1>1, CarryOfSum
<1>6. Overflow(a, b, a + b + c, w) = (into + out) % 2
  BY DEF Overflow
<1> HIDE DEF into, out
<1>7. CASE w = 8
  BY <1>2, <1>4, <1>5, <1>6, <1>7 DEF Flag, Fits, Signed, Power, Size, out
<1>8. CASE w = 16
  BY <1>2, <1>4, <1>5, <1>6, <1>8 DEF Flag, Fits, Signed, Power, Size, out
<1> QED
  BY <1>7, <1>8

LEMMA DifferenceOverflows ==
  ASSUME NEW w \in {8, 16}, NEW a \in Size(w), NEW b \in Size(w), NEW c \in 0..1
  PROVE  /\ Carry(a, b, a - b - c, w-4) = Flag(Low(a, w) < Low(b, w) + c)
         /\ Carry(a, b, a - b - c, w) = Flag(a < b + c)
         /\ Overflow(a, b, a - b - c, w) = Flag(~Fits(Signed(a, w) - Signed(b, w) - c, w))
<1> DEFINE into == Carry(a, b, a - b - c, w-1)
           out == Carry(a, b, a - b - c, w)
<1>1. a \in Int /\ b \in Int /\ {w-4, w-1, w} \subseteq Carried
  BY DEF Size, Power, Carried
<1>2. Carry(a, b, a - b - c, w-4) = Flag(Low(a, w) < Low(b, w) + c)
  BY <1>1, CarryOfDifference DEF Low
<1>3. a % Power(w) = a /\ b % Power(w) = b
  BY SmallRemainder
<1>4. out = Flag(a < b + c)
  <2>1. out = Flag((a % Power(w)) < (b % Power(w)) + c)
    BY <1>1, CarryOfDifference
  <2> QED
    BY <1>3, <2>1 DEF Flag
<1>5. into = Flag((a % Power(w-1)) < (b % Power(w-1)) + c)
  BY <1>1, CarryOfDifference
<1>6. Overflow(a, b, a - b - c, w) = (into + out) % 2
  BY DEF Overflow
<1> HIDE DEF into, out
<1>7. CASE w = 8
  BY <1>2, <1>4, <1>5, <1>6, <1>7 DEF Flag, Fits, Signed, Power, Size, out
<1>8. CASE w = 16
  BY <1>2, <1>4, <1>5, <1>6, <1>8 DEF Flag, Fits, Signed, Power, Size, out
<1> QED
  BY <1>7, <1>8

LEMMA SumIsExact ==
  ASSUME NEW w \in {8, 16}, NEW a \in Size(w), NEW b \in Size(w), NEW c \in 0..1
  PROVE  LET r == Sum(w, a, b, c)
         IN  /\ r.v = (a + b + c) % Power(w)
             /\ \A n \in Documented : r.f[n] = SumFlags(w, a, b, c, r.v)[n]
<1> DEFINE z == a + b + c
           r == Sum(w, a, b, c)
<1>1. r.v = z % Power(w) /\ r.v \in Size(w)
  <2>1. z \in Int
    BY SmallRemainder
  <2>2. z % Power(w) \in Size(w)
    BY <2>1, ResultIsSmall
  <2> QED
    BY <2>2 DEF Sum, Result
<1>2. /\ r.f["S"] = Bit(r.v, w-1) /\ r.f["Z"] = Flag(r.v = 0) /\ r.f["N"] = 0
      /\ r.f["H"] = Carry(a, b, z, w-4) /\ r.f["PV"] = Overflow(a, b, z, w)
      /\ r.f["C"] = Carry(a, b, z, w)
  BY DEF Sum, Result, FlagsOf, Flag
<1>3. r.f["S"] = Flag(Signed(r.v, w) < 0)
  BY <1>1, <1>2, SignBit DEF Size
<1>4. /\ r.f["H"] = SumFlags(w, a, b, c, r.v).H
      /\ r.f["PV"] = SumFlags(w, a, b, c, r.v).PV
      /\ r.f["C"] = SumFlags(w, a, b, c, r.v).C
  BY <1>2, SumOverflows DEF SumFlags
<1>5. /\ r.f["S"] = SumFlags(w, a, b, c, r.v).S
      /\ r.f["Z"] = SumFlags(w, a, b, c, r.v).Z
      /\ r.f["N"] = SumFlags(w, a, b, c, r.v).N
  BY <1>2, <1>3 DEF SumFlags
<1> HIDE DEF r
<1>6. \A n \in Documented : r.f[n] = SumFlags(w, a, b, c, r.v)[n]
  BY <1>4, <1>5 DEF Documented, SumFlags
<1> QED
  BY <1>1, <1>6 DEF r

LEMMA DifferenceIsExact ==
  ASSUME NEW w \in {8, 16}, NEW a \in Size(w), NEW b \in Size(w), NEW c \in 0..1
  PROVE  LET r == Difference(w, a, b, c)
         IN  /\ r.v = (a - b - c) % Power(w)
             /\ \A n \in Documented : r.f[n] = DifferenceFlags(w, a, b, c, r.v)[n]
<1> DEFINE z == a - b - c
           r == Difference(w, a, b, c)
<1>1. r.v = z % Power(w) /\ r.v \in Size(w)
  <2>1. z \in Int
    BY SmallRemainder
  <2>2. z % Power(w) \in Size(w)
    BY <2>1, ResultIsSmall
  <2> QED
    BY <2>2 DEF Difference, Result
<1>2. /\ r.f["S"] = Bit(r.v, w-1) /\ r.f["Z"] = Flag(r.v = 0) /\ r.f["N"] = 1
      /\ r.f["H"] = Carry(a, b, z, w-4) /\ r.f["PV"] = Overflow(a, b, z, w)
      /\ r.f["C"] = Carry(a, b, z, w)
  BY DEF Difference, Result, FlagsOf, Flag
<1>3. r.f["S"] = Flag(Signed(r.v, w) < 0)
  BY <1>1, <1>2, SignBit DEF Size
<1>4. /\ r.f["H"] = DifferenceFlags(w, a, b, c, r.v).H
      /\ r.f["PV"] = DifferenceFlags(w, a, b, c, r.v).PV
      /\ r.f["C"] = DifferenceFlags(w, a, b, c, r.v).C
  BY <1>2, DifferenceOverflows DEF DifferenceFlags
<1>5. /\ r.f["S"] = DifferenceFlags(w, a, b, c, r.v).S
      /\ r.f["Z"] = DifferenceFlags(w, a, b, c, r.v).Z
      /\ r.f["N"] = DifferenceFlags(w, a, b, c, r.v).N
  BY <1>2, <1>3 DEF DifferenceFlags
<1> HIDE DEF r
<1>6. \A n \in Documented : r.f[n] = DifferenceFlags(w, a, b, c, r.v)[n]
  BY <1>4, <1>5 DEF Documented, DifferenceFlags
<1> QED
  BY <1>1, <1>6 DEF r

-----------------------------------------------------------------------------
(* Results are bytes or words, and flags are bits. *)

Outcomes(S) == [v : S, f : FlagBits]

LEMMA FlagsTyped ==
  ASSUME NEW w \in {8, 16}, NEW v \in Int,
         NEW h \in 0..1, NEW pv \in 0..1, NEW n \in 0..1, NEW c \in 0..1
  PROVE  FlagsOf(w, v, h, pv, n, c) \in FlagBits
<1>1. Bit(v, w-1) \in 0..1 /\ Bit(v, w-3) \in 0..1 /\ Bit(v, w-5) \in 0..1
  BY BitIsBit
<1> QED
  BY <1>1 DEF FlagsOf, FlagBits, FlagNames

LEMMA KeepTyped ==
  ASSUME TypeOK, NEW w \in {8, 16}, NEW v \in Int, NEW h \in 0..1, NEW n \in 0..1, NEW c \in 0..1
  PROVE  KeepSZP(w, v, h, n, c) \in FlagBits
<1>1. Bit(v, w-3) \in 0..1 /\ Bit(v, w-5) \in 0..1
  BY BitIsBit
<1> QED
  BY <1>1 DEF KeepSZP, FlagBits, FlagNames, TypeOK

LEMMA ParityIsBit ==
  ASSUME NEW v \in Int
  PROVE  Parity(v) \in 0..1
<1>1. \A k \in Bits : Bit(v, k) \in 0..1
  BY BitIsBit DEF Bits
<1> QED
  BY <1>1 DEF Parity, Bits

LEMMA FromBitsIsByte ==
  ASSUME NEW b \in [Bits -> 0..1]
  PROVE  FromBits(b) \in Byte
BY DEF FromBits, Byte, Bits

LEMMA BitwiseTyped ==
  ASSUME NEW v \in Byte, NEW h \in 0..1
  PROVE  Bitwise(v, h) \in Outcomes(Byte)
BY ParityIsBit, FlagsTyped DEF Bitwise, Byte, Outcomes

LEMMA ShiftedTyped ==
  ASSUME NEW z \in 0..511, NEW c \in 0..1
  PROVE  Shifted(z, c) \in Outcomes(Byte)
<1>1. z % 256 \in Byte /\ z % 256 \in Int
  BY DEF Byte
<1>2. Parity(z % 256) \in 0..1
  BY <1>1, ParityIsBit
<1>3. FlagsOf(8, z % 256, 0, Parity(z % 256), 0, c) \in FlagBits
  BY <1>1, <1>2, FlagsTyped
<1> QED
  BY <1>1, <1>3 DEF Shifted, Outcomes

LEMMA ResultTyped ==
  ASSUME NEW w \in {8, 16}, NEW a \in Int, NEW b \in Int, NEW z \in Int, NEW n \in 0..1
  PROVE  Result(w, a, b, z, n) \in Outcomes(Size(w))
<1>1. ASSUME NEW k \in 0..16
      PROVE  Carry(a, b, z, k) \in 0..1
  BY BitIsBit DEF Carry
<1>2. {w-4, w-1, w} \subseteq 0..16
  OBVIOUS
<1>3. /\ Carry(a, b, z, w-4) \in 0..1 /\ Carry(a, b, z, w-1) \in 0..1 /\ Carry(a, b, z, w) \in 0..1
  BY <1>1, <1>2
<1>4. Overflow(a, b, z, w) \in 0..1
  BY <1>3 DEF Overflow
<1>5. z % Power(w) \in Size(w) /\ z % Power(w) \in Int
  BY ResultIsSmall, SmallRemainder
<1> QED
  BY <1>3, <1>4, <1>5, FlagsTyped DEF Result, Outcomes

LEMMA SumTyped ==
  ASSUME NEW w \in {8, 16}, NEW a \in Int, NEW b \in Int, NEW c \in Int
  PROVE  Sum(w, a, b, c) \in Outcomes(Size(w)) /\ Difference(w, a, b, c) \in Outcomes(Size(w))
<1>1. a + b + c \in Int /\ a - b - c \in Int
  OBVIOUS
<1> QED
  BY <1>1, ResultTyped DEF Sum, Difference

LEMMA ByteSums ==
  ASSUME NEW a \in Byte, NEW b \in Byte, NEW c \in 0..1
  PROVE  Sum(8, a, b, c) \in Outcomes(Byte) /\ Difference(8, a, b, c) \in Outcomes(Byte)
<1>1. a \in Int /\ b \in Int /\ c \in Int
  BY DEF Byte
<1> QED
  BY <1>1, SumTyped, ResultIsSmall

LEMMA WordIsInt ==
  ASSUME NEW a \in Word
  PROVE  a \in Int
BY DEF Word

LEMMA WordSums ==
  ASSUME NEW a \in Word, NEW b \in Word, NEW c \in 0..1
  PROVE  Sum(16, a, b, c) \in Outcomes(Word) /\ Difference(16, a, b, c) \in Outcomes(Word)
<1>1. a \in Int /\ b \in Int /\ c \in Int
  BY WordIsInt
<1> QED
  BY <1>1, SumTyped, ResultIsSmall

LEMMA RotatedTyped ==
  ASSUME NEW v \in Byte, NEW in \in 0..1
  PROVE  LeftWith(v, in) \in 0..511 /\ RightWith(v, in) \in 0..511
BY DEF LeftWith, RightWith, Byte

-----------------------------------------------------------------------------
(* An instruction keeps the types. *)

LEMMA OperandTyped ==
  ASSUME TypeOK
  PROVE  /\ A \in Byte /\ A \in Int /\ Operand \in Byte /\ Operand \in Int
         /\ F \in FlagBits /\ F.C \in 0..1 /\ F.N \in 0..1 /\ F.H \in 0..1
BY DEF TypeOK, Operand, Byte, FlagBits, FlagNames

InWidth == A \in Byte /\ F \in FlagBits /\ x \in Byte /\ HL \in Word /\ rr \in Word

LEMMA NextExecutes ==
  ASSUME Next
  PROVE  \E name \in Names : Executes(name)
<1>1. CASE Arithmetic
  BY <1>1 DEF Names, Arithmetic, ToA, ToOperand, Add, Adc, Sub, Sbc, Cp, And, Xor, Or, Inc, Dec
<1>2. CASE Accumulator
  BY <1>2 DEF Names, Accumulator, ToA, Neg, Cpl, Scf, Ccf, Daa, Rlca, Rla, Rrca, Rra
<1>3. CASE Shift
  BY <1>3 DEF Names, Shift, ToOperand, Digits, Rlc, Rl, Sla, Sll, Rrc, Rr, Sra, Srl, Rld, Rrd
<1>4. CASE SingleBit
  <2>1. CASE BitTest
    BY <2>1 DEF Names, ToOperand, BitTest
  <2>2. CASE SetBit
    BY <2>2 DEF Names, ToOperand, SetBit
  <2>3. CASE ResBit
    BY <2>3 DEF Names, ToOperand, ResBit
  <2> QED
    BY <1>4, <2>1, <2>2, <2>3 DEF SingleBit
<1>5. CASE WordArithmetic
  <2>1. CASE AddHL
    <3>1. Executes("ADD HL")
      BY <2>1 DEF ToHL, AddHL
    <3> QED
      BY <3>1 DEF Names
  <2>2. CASE AdcHL \/ SbcHL
    <3>1. Executes("ADC HL") \/ Executes("SBC HL")
      BY <2>2 DEF ToHL, AdcHL, SbcHL
    <3> QED
      BY <3>1 DEF Names
  <2>3. CASE IncHL \/ DecHL
    <3>1. Executes("INC HL") \/ Executes("DEC HL")
      BY <2>3 DEF ToHL, IncHL, DecHL
    <3> QED
      BY <3>1 DEF Names
  <2> QED
    BY <1>5, <2>1, <2>2, <2>3 DEF WordArithmetic
<1> QED
  BY <1>1, <1>2, <1>3, <1>4, <1>5 DEF Next

LEMMA ExecutesTyped ==
  ASSUME TypeOK, Next, InWidth'
  PROVE  TypeOK'
<1>1. PICK name \in Names : Executes(name)
  BY NextExecutes
<1>2. Tail(program) \in Seq(Instruction)
  BY <1>1 DEF TypeOK, Executes
<1>3. Current \in Registers
  BY DEF Current, Registers, TypeOK
<1> QED
  BY <1>1, <1>2, <1>3, OperandTyped DEF Executes, TypeOK, InWidth

LEMMA ToAInWidth ==
  ASSUME TypeOK, NEW name, NEW r \in Outcomes(Byte), ToA(name, r)
  PROVE  InWidth'
BY DEF TypeOK, InWidth, ToA, Outcomes

LEMMA ToOperandInWidth ==
  ASSUME TypeOK, NEW name, NEW r \in Outcomes(Byte), ToOperand(name, r)
  PROVE  InWidth'
BY DEF TypeOK, InWidth, ToOperand, Outcomes

LEMMA ToHLInWidth ==
  ASSUME TypeOK, NEW name, NEW r \in Outcomes(Word), ToHL(name, r)
  PROVE  InWidth'
BY DEF TypeOK, InWidth, ToHL, Outcomes

LEMMA ArithmeticTyped ==
  ASSUME TypeOK, Arithmetic
  PROVE  InWidth'
<1>1. /\ A \in Byte /\ A \in Int /\ Operand \in Byte /\ Operand \in Int /\ F.C \in 0..1
      /\ x \in Byte /\ HL \in Word /\ rr \in Word
  BY OperandTyped DEF TypeOK
<1>2. CASE Add
  BY <1>1, <1>2, ByteSums, ToAInWidth DEF Add
<1>3. CASE Adc
  BY <1>1, <1>3, ByteSums, ToAInWidth DEF Adc
<1>4. CASE Sub
  BY <1>1, <1>4, ByteSums, ToAInWidth DEF Sub
<1>5. CASE Sbc
  BY <1>1, <1>5, ByteSums, ToAInWidth DEF Sbc
<1>6. CASE Cp
  <2> DEFINE f == [Difference(8, A, Operand, 0).f EXCEPT
                     !.Y = Bit(Operand, 5), !.X = Bit(Operand, 3)]
  <2>1. Difference(8, A, Operand, 0).f \in FlagBits
    BY <1>1, ByteSums DEF Outcomes
  <2>2. Bit(Operand, 5) \in 0..1 /\ Bit(Operand, 3) \in 0..1
    BY <1>1, BitIsBit DEF Byte
  <2>3. f \in FlagBits
    BY <2>1, <2>2 DEF FlagBits, FlagNames
  <2> QED
    BY <1>1, <1>6, <2>3, ToAInWidth DEF Cp, Outcomes
<1>7. CASE And \/ Xor \/ Or
  <2>1. \A k \in Bits : Bit(A, k) \in 0..1 /\ Bit(Operand, k) \in 0..1
    BY <1>1, BitIsBit DEF Bits, Byte
  <2>2. FromBits([k \in Bits |-> Bit(A, k) * Bit(Operand, k)]) \in Byte
    BY <2>1, FromBitsIsByte
  <2>3. FromBits([k \in Bits |-> (Bit(A, k) + Bit(Operand, k)) % 2]) \in Byte
    BY <2>1, FromBitsIsByte
  <2>4. FromBits([k \in Bits |-> IF Bit(A, k) + Bit(Operand, k) > 0 THEN 1 ELSE 0]) \in Byte
    BY FromBitsIsByte
  <2>5. CASE And
    BY <2>2, <2>5, BitwiseTyped, ToAInWidth DEF And
  <2>6. CASE Xor
    BY <2>3, <2>6, BitwiseTyped, ToAInWidth DEF Xor
  <2>7. CASE Or
    BY <2>4, <2>7, BitwiseTyped, ToAInWidth DEF Or
  <2> QED
    BY <1>7, <2>5, <2>6, <2>7
<1>8. CASE Inc \/ Dec
  <2>1. ASSUME NEW r \in Outcomes(Byte)
        PROVE  KeepC(r) \in Outcomes(Byte)
    BY <1>1 DEF KeepC, FlagBits, FlagNames, Outcomes
  <2>2. /\ Sum(8, Operand, 0, 1) \in Outcomes(Byte)
        /\ Difference(8, Operand, 0, 1) \in Outcomes(Byte)
    <3>1. 0 \in Byte /\ 1 \in 0..1
      BY DEF Byte
    <3> QED
      BY <1>1, <3>1, ByteSums
  <2>3. CASE Inc
    BY <2>1, <2>2, <2>3, ToOperandInWidth DEF Inc
  <2>4. CASE Dec
    BY <2>1, <2>2, <2>4, ToOperandInWidth DEF Dec
  <2> QED
    BY <1>8, <2>3, <2>4
<1> QED
  BY <1>2, <1>3, <1>4, <1>5, <1>6, <1>7, <1>8 DEF Arithmetic

LEMMA AccumulatorTyped ==
  ASSUME TypeOK, Accumulator
  PROVE  InWidth'
<1>1. /\ A \in Byte /\ A \in Int /\ 255 - A \in Byte /\ 255 - A \in Int
      /\ x \in Byte /\ HL \in Word /\ rr \in Word
      /\ F.C \in 0..1 /\ 1 - F.C \in 0..1 /\ F.N \in 0..1 /\ F.H \in 0..1
  BY DEF TypeOK, Byte, FlagBits, FlagNames
<1>2. \A k \in Bits : Bit(A, k) \in 0..1
  BY <1>1, BitIsBit DEF Bits
<1>3. CASE Neg
  <2>1. 0 \in Byte /\ 0 \in 0..1
    BY DEF Byte
  <2> QED
    BY <1>1, <1>3, <2>1, ByteSums, ToAInWidth DEF Neg
<1>4. CASE Cpl
  BY <1>1, <1>4, KeepTyped, ToAInWidth DEF Cpl, Outcomes
<1>5. CASE Scf
  BY <1>1, <1>5, KeepTyped, ToAInWidth DEF Scf, Outcomes
<1>6. CASE Ccf
  BY <1>1, <1>6, KeepTyped, ToAInWidth DEF Ccf, Outcomes
<1>7. CASE Daa
  <2>1. DaaResult \in Byte /\ DaaResult \in Int
    <3>1. DaaAdjustment \in Int
      BY DEF DaaAdjustment
    <3> QED
      BY <1>1, <3>1 DEF DaaResult, Byte
  <2>2. Parity(DaaResult) \in 0..1 /\ (Bit(DaaResult, 4) + Bit(A, 4)) % 2 \in 0..1
    BY <1>1, <2>1, ParityIsBit, BitIsBit
  <2> DEFINE f == FlagsOf(8, DaaResult, (Bit(DaaResult, 4) + Bit(A, 4)) % 2, Parity(DaaResult),
                          F.N, IF A > 153 \/ F.C = 1 THEN 1 ELSE 0)
  <2>3. f \in FlagBits
    BY <1>1, <2>1, <2>2, FlagsTyped
  <2> QED
    BY <1>7, <2>1, <2>3, ToAInWidth DEF Daa, Outcomes
<1>8. CASE Rlca \/ Rla \/ Rrca \/ Rra
  <2>1. ASSUME NEW z \in 0..511, NEW c \in 0..1
        PROVE  AccumulatorShifted(z, c) \in Outcomes(Byte)
    <3>1. z % 256 \in Byte /\ z % 256 \in Int
      BY <2>1 DEF Byte
    <3>2. KeepSZP(8, z % 256, 0, 0, c) \in FlagBits
      BY <2>1, <3>1, KeepTyped
    <3> QED
      BY <3>1, <3>2 DEF AccumulatorShifted, Outcomes
  <2>2. Bit(A, 7) \in 0..1 /\ Bit(A, 0) \in 0..1
    BY <1>2 DEF Bits
  <2>3. ASSUME NEW in \in 0..1, NEW c \in 0..1
        PROVE  /\ AccumulatorShifted(LeftWith(A, in), c) \in Outcomes(Byte)
               /\ AccumulatorShifted(RightWith(A, in), c) \in Outcomes(Byte)
    BY <1>1, <2>1, RotatedTyped
  <2>4. CASE Rlca
    BY <1>1, <2>2, <2>4, <2>3, ToAInWidth DEF Rlca
  <2>5. CASE Rla
    BY <1>1, <2>2, <2>5, <2>3, ToAInWidth DEF Rla
  <2>6. CASE Rrca
    BY <1>1, <2>2, <2>6, <2>3, ToAInWidth DEF Rrca
  <2>7. CASE Rra
    BY <1>1, <2>2, <2>7, <2>3, ToAInWidth DEF Rra
  <2> QED
    BY <1>8, <2>4, <2>5, <2>6, <2>7
<1> QED
  BY <1>3, <1>4, <1>5, <1>6, <1>7, <1>8 DEF Accumulator

LEMMA HalvesMakeByte ==
  ASSUME NEW p \in Byte, NEW q \in Byte
  PROVE  /\ (p \div 16)*16 + (q \div 16) \in Byte /\ (p % 16)*16 + (q % 16) \in Byte
         /\ (p \div 16)*16 + (q % 16) \in Byte /\ (p % 16)*16 + (q \div 16) \in Byte
<1>1. ASSUME NEW i \in 0..15, NEW j \in 0..15
      PROVE  i * 16 + j \in Byte
  BY DEF Byte
<1>2. p \div 16 \in 0..15 /\ q \div 16 \in 0..15 /\ p % 16 \in 0..15 /\ q % 16 \in 0..15
  BY DEF Byte
<1> QED
  BY <1>1, <1>2

LEMMA ShiftTyped ==
  ASSUME TypeOK, Shift
  PROVE  InWidth'
<1>1. /\ A \in Byte /\ x \in Byte /\ HL \in Word /\ rr \in Word
      /\ Operand \in Byte /\ F.C \in 0..1 /\ 0 \in 0..1 /\ 1 \in 0..1
  BY OperandTyped DEF TypeOK
<1>2. Bit(Operand, 7) \in 0..1 /\ Bit(Operand, 0) \in 0..1
  BY OperandTyped, BitIsBit
<1>3. ASSUME NEW v \in Byte, NEW in \in 0..1, NEW c \in 0..1
      PROVE  /\ Shifted(LeftWith(v, in), c) \in Outcomes(Byte)
             /\ Shifted(RightWith(v, in), c) \in Outcomes(Byte)
  BY RotatedTyped, ShiftedTyped
<1>4. CASE Rlc
  BY <1>1, <1>2, <1>3, <1>4, ToOperandInWidth DEF Rlc
<1>5. CASE Rl
  BY <1>1, <1>2, <1>3, <1>5, ToOperandInWidth DEF Rl
<1>6. CASE Sla
  BY <1>1, <1>2, <1>3, <1>6, ToOperandInWidth DEF Sla
<1>7. CASE Sll
  BY <1>1, <1>2, <1>3, <1>7, ToOperandInWidth DEF Sll
<1>8. CASE Rrc
  BY <1>1, <1>2, <1>3, <1>8, ToOperandInWidth DEF Rrc
<1>9. CASE Rr
  BY <1>1, <1>2, <1>3, <1>9, ToOperandInWidth DEF Rr
<1>10. CASE Sra
  BY <1>1, <1>2, <1>3, <1>10, ToOperandInWidth DEF Sra
<1>11. CASE Srl
  BY <1>1, <1>2, <1>3, <1>11, ToOperandInWidth DEF Srl
<1>12. CASE Rld \/ Rrd
  <2>1. /\ (A \div 16)*16 + (x \div 16) \in Byte /\ (x % 16)*16 + (A % 16) \in Byte
        /\ (A \div 16)*16 + (x % 16) \in Byte /\ (A % 16)*16 + (x \div 16) \in Byte
    BY <1>1, HalvesMakeByte
  <2>2. ASSUME NEW name, NEW high \in Byte, NEW low \in Byte, Digits(name, high, low)
        PROVE  InWidth'
    <3>1. high \in Int /\ Parity(high) \in 0..1
      BY ParityIsBit DEF Byte
    <3>2. FlagsOf(8, high, 0, Parity(high), 0, F.C) \in FlagBits
      BY <1>1, <3>1, FlagsTyped
    <3> QED
      BY <1>1, <2>2, <3>2 DEF Digits, InWidth
  <2>3. CASE Rld
    BY <2>1, <2>2, <2>3 DEF Rld
  <2>4. CASE Rrd
    BY <2>1, <2>2, <2>4 DEF Rrd
  <2> QED
    BY <1>12, <2>3, <2>4
<1> QED
  BY <1>4, <1>5, <1>6, <1>7, <1>8, <1>9, <1>10, <1>11, <1>12 DEF Shift

(* A bit that is clear can be added, and one that is set subtracted. *)
LEMMA BitFits ==
  ASSUME NEW v \in Byte, NEW k \in Bits
  PROVE  v + Power(k) * (1 - Bit(v, k)) \in Byte /\ v - Power(k) * Bit(v, k) \in Byte
<1>1. CASE k = 0
  BY <1>1 DEF Byte, Bit, Power
<1>2. CASE k = 1
  BY <1>2 DEF Byte, Bit, Power
<1>3. CASE k = 2
  BY <1>3 DEF Byte, Bit, Power
<1>4. CASE k = 3
  BY <1>4 DEF Byte, Bit, Power
<1>5. CASE k = 4
  BY <1>5 DEF Byte, Bit, Power
<1>6. CASE k = 5
  BY <1>6 DEF Byte, Bit, Power
<1>7. CASE k = 6
  BY <1>7 DEF Byte, Bit, Power
<1>8. CASE k = 7
  BY <1>8 DEF Byte, Bit, Power
<1> QED
  BY <1>1, <1>2, <1>3, <1>4, <1>5, <1>6, <1>7, <1>8 DEF Bits

LEMMA NamedTyped ==
  ASSUME TypeOK, program # <<>>
  PROVE  Named \in Bits
<1>1. Head(program) \in Instruction
  BY DEF TypeOK
<1> QED
  BY <1>1 DEF Named, Instruction

LEMMA SingleBitTyped ==
  ASSUME TypeOK, SingleBit
  PROVE  InWidth'
<1>1. Named \in Bits
  <2>1. program # <<>>
    BY NextExecutes DEF Next, Executes
  <2> QED
    BY <2>1, NamedTyped
<1>2. Operand \in Byte /\ Operand \in Int /\ F \in FlagBits /\ F.C \in 0..1
  BY OperandTyped
<1>3. CASE BitTest
  <2> DEFINE z == 1 - Bit(Operand, Named)
             f == FlagsOf(8, Operand, 1, z, 0, F.C)
             g == [f EXCEPT !.Z = z, !.S = IF Named = 7 THEN 1 - z ELSE 0]
  <2>1. z \in 0..1 /\ 1 - z \in 0..1
    BY <1>1, <1>2, BitIsBit DEF Bits
  <2>2. f \in FlagBits
    BY <1>2, <2>1, FlagsTyped
  <2> HIDE DEF z, f
  <2>3. g \in FlagBits
    <3>1. (IF Named = 7 THEN 1 - z ELSE 0) \in 0..1
      BY <2>1
    <3>2. [f EXCEPT !.Z = z] \in FlagBits
      BY <2>1, <2>2 DEF FlagBits, FlagNames
    <3> QED
      BY <3>1, <3>2 DEF FlagBits, FlagNames
  <2>4. [v |-> Operand, f |-> g] \in Outcomes(Byte)
    BY <1>2, <2>3 DEF Outcomes
  <2>5. ToOperand("BIT", [v |-> Operand, f |-> g])
    BY <1>3 DEF BitTest, z, f
  <2> QED
    BY <2>4, <2>5, ToOperandInWidth
<1>4. CASE SetBit
  BY <1>1, <1>2, <1>4, BitFits, ToOperandInWidth DEF SetBit, Outcomes
<1>5. CASE ResBit
  BY <1>1, <1>2, <1>5, BitFits, ToOperandInWidth DEF ResBit, Outcomes
<1> QED
  BY <1>3, <1>4, <1>5 DEF SingleBit

LEMMA WordArithmeticTyped ==
  ASSUME TypeOK, WordArithmetic
  PROVE  InWidth'
<1>1. HL \in Word /\ rr \in Word /\ F \in FlagBits /\ F.C \in 0..1 /\ 0 \in 0..1
  BY OperandTyped DEF TypeOK
<1>2. CASE AddHL
  <2> DEFINE r == Sum(16, HL, rr, 0)
             f == KeepSZP(16, r.v, r.f.H, 0, r.f.C)
  <2>1. r \in Outcomes(Word)
    BY <1>1, WordSums
  <2>2. ToHL("ADD HL", [v |-> r.v, f |-> f])
    BY <1>2 DEF AddHL
  <2> HIDE DEF r
  <2>3. r.v \in Word /\ r.v \in Int /\ r.f.H \in 0..1 /\ r.f.C \in 0..1
    <3>1. r.v \in Word /\ r.f \in FlagBits
      BY <2>1 DEF Outcomes
    <3> QED
      BY <3>1, WordIsInt DEF FlagBits, FlagNames
  <2>4. f \in FlagBits
    BY <2>3, KeepTyped
  <2>5. [v |-> r.v, f |-> f] \in Outcomes(Word)
    BY <2>3, <2>4 DEF Outcomes
  <2> QED
    BY <2>2, <2>5, ToHLInWidth
<1>3. CASE AdcHL
  BY <1>1, <1>3, WordSums, ToHLInWidth DEF AdcHL
<1>4. CASE SbcHL
  BY <1>1, <1>4, WordSums, ToHLInWidth DEF SbcHL
<1>5. CASE IncHL \/ DecHL
  <2>1. (HL + 1) % Power(16) \in Word /\ (HL - 1) % Power(16) \in Word
    <3>1. HL + 1 \in Int /\ HL - 1 \in Int
      BY <1>1, WordIsInt
    <3> QED
      BY <3>1, ResultIsSmall
  <2>2. /\ [v |-> (HL + 1) % Power(16), f |-> F] \in Outcomes(Word)
        /\ [v |-> (HL - 1) % Power(16), f |-> F] \in Outcomes(Word)
    BY <1>1, <2>1 DEF Outcomes
  <2>3. CASE IncHL
    BY <2>2, <2>3, ToHLInWidth DEF IncHL
  <2>4. CASE DecHL
    BY <2>2, <2>4, ToHLInWidth DEF DecHL
  <2> QED
    BY <1>5, <2>3, <2>4
<1> QED
  BY <1>2, <1>3, <1>4, <1>5 DEF WordArithmetic

LEMMA InitTyped == Init => TypeOK
BY CasesAssumption DEF Init, TypeOK, Registers, Byte

LEMMA NextTyped == TypeOK /\ [Next]_vars => TypeOK'
<1> SUFFICES ASSUME TypeOK, [Next]_vars PROVE TypeOK'
  OBVIOUS
<1>1. CASE Next
  <2>1. InWidth'
    BY <1>1, ArithmeticTyped, AccumulatorTyped, ShiftTyped, SingleBitTyped, WordArithmeticTyped
       DEF Next
  <2> QED
    BY <1>1, <2>1, ExecutesTyped
<1>2. CASE UNCHANGED vars
  BY <1>2 DEF vars, registers, TypeOK
<1> QED
  BY <1>1, <1>2

(* No instruction leaves a number outside the width of its register, nor a *)
(* flag that is not a bit.                                                 *)
THEOREM TypeCorrect == Spec => []TypeOK
BY InitTyped, NextTyped, PTL DEF Spec

-----------------------------------------------------------------------------
(* The flags of arithmetic. *)

(* The history names the instruction that was executed. *)
LEMMA LastTells ==
  ASSUME Next
  PROVE  /\ before'.start = Current /\ before'.operand = Operand
         /\ before'.name = "ADD" => Add
         /\ before'.name = "ADC" => Adc
         /\ before'.name = "SUB" => Sub
         /\ before'.name = "SBC" => Sbc
         /\ before'.name = "CP" => Cp
         /\ before'.name = "INC" => Inc
         /\ before'.name = "DEC" => Dec
         /\ before'.name = "NEG" => Neg
         /\ before'.name = "DAA" => Daa
         /\ before'.name = "ADD HL" => AddHL
         /\ before'.name = "ADC HL" => AdcHL
         /\ before'.name = "SBC HL" => SbcHL
<1>1. PICK name \in Names : Executes(name)
  BY NextExecutes
<1>2. before'.start = Current /\ before'.operand = Operand
  BY <1>1 DEF Executes
<1>3. ASSUME NEW n, Executes(n)
      PROVE  before'.name = n
  BY <1>3 DEF Executes
<1>4. CASE Arithmetic
  <2>1. /\ Add => Executes("ADD")
        /\ Adc => Executes("ADC")
        /\ Sub => Executes("SUB")
        /\ Sbc => Executes("SBC")
        /\ Cp => Executes("CP")
        /\ And => Executes("AND")
        /\ Xor => Executes("XOR")
        /\ Or => Executes("OR")
        /\ Inc => Executes("INC")
        /\ Dec => Executes("DEC")
    BY DEF ToA, ToOperand, Add, Adc, Sub, Sbc, Cp, And, Xor, Or, Inc, Dec
  <2> QED
    BY <1>2, <1>3, <1>4, <2>1 DEF Arithmetic
<1>5. CASE Accumulator
  <2>1. /\ Neg => Executes("NEG")
        /\ Cpl => Executes("CPL")
        /\ Scf => Executes("SCF")
        /\ Ccf => Executes("CCF")
        /\ Daa => Executes("DAA")
        /\ Rlca => Executes("RLCA")
        /\ Rla => Executes("RLA")
        /\ Rrca => Executes("RRCA")
        /\ Rra => Executes("RRA")
    BY DEF ToA, Neg, Cpl, Scf, Ccf, Daa, Rlca, Rla, Rrca, Rra
  <2> QED
    BY <1>2, <1>3, <1>5, <2>1 DEF Accumulator
<1>6. CASE Shift
  <2>1. /\ Rlc => Executes("RLC")
        /\ Rl => Executes("RL")
        /\ Sla => Executes("SLA")
        /\ Sll => Executes("SLL")
        /\ Rrc => Executes("RRC")
        /\ Rr => Executes("RR")
        /\ Sra => Executes("SRA")
        /\ Srl => Executes("SRL")
        /\ Rld => Executes("RLD")
        /\ Rrd => Executes("RRD")
    BY DEF ToOperand, Digits, Rlc, Rl, Sla, Sll, Rrc, Rr, Sra, Srl, Rld, Rrd
  <2> QED
    BY <1>2, <1>3, <1>6, <2>1 DEF Shift
<1>7. CASE SingleBit
  <2>1. /\ BitTest => Executes("BIT")
        /\ SetBit => Executes("SET")
        /\ ResBit => Executes("RES")
    BY DEF ToOperand, BitTest, SetBit, ResBit
  <2> QED
    BY <1>2, <1>3, <1>7, <2>1 DEF SingleBit
<1>8. CASE WordArithmetic
  <2>1. /\ AddHL => Executes("ADD HL")
        /\ AdcHL => Executes("ADC HL")
        /\ SbcHL => Executes("SBC HL")
        /\ IncHL => Executes("INC HL")
        /\ DecHL => Executes("DEC HL")
    BY DEF ToHL, AddHL, AdcHL, SbcHL, IncHL, DecHL
  <2> QED
    BY <1>2, <1>3, <1>8, <2>1 DEF WordArithmetic
<1> QED
  BY <1>4, <1>5, <1>6, <1>7, <1>8 DEF Next

(* Bytes and words are the numbers of 8 and 16 bits. *)
LEMMA Sizes ==
  ASSUME TypeOK
  PROVE  /\ A \in Size(8) /\ Operand \in Size(8) /\ HL \in Size(16) /\ rr \in Size(16)
         /\ 0 \in Size(8) /\ 1 \in Size(8) /\ 0 \in 0..1 /\ F.C \in 0..1
         /\ A \in Int /\ Operand \in Int
<1>1. Size(8) = Byte /\ Size(16) = Word
  BY ResultIsSmall
<1>2. 0 \in Byte /\ 1 \in Byte /\ 0 \in 0..1
  BY DEF Byte
<1> QED
  BY <1>1, <1>2, OperandTyped DEF TypeOK

LEMMA BeforeTells ==
  ASSUME Next
  PROVE  /\ before'.operand = Operand
         /\ before'.start.A = A /\ before'.start.F = F
         /\ before'.start.HL = HL /\ before'.start.rr = rr
<1>1. before'.start = Current /\ before'.operand = Operand
  BY LastTells
<1> QED
  BY <1>1 DEF Current

LEMMA SumStep ==
  ASSUME TypeOK, Next
  PROVE  SumExact'
<1>1. CASE before'.name = "ADD"
  <2>1. A' = Sum(8, A, Operand, 0).v /\ F' = Sum(8, A, Operand, 0).f
    BY <1>1, LastTells DEF Add, ToA
  <2>2. CarryIn' = 0
    BY <1>1 DEF CarryIn, LastIs
  <2>3. /\ A' = (A + Operand + 0) % Power(8)
        /\ \A n \in Documented : F'[n] = SumFlags(8, A, Operand, 0, A')[n]
    BY <2>1, Sizes, SumIsExact
  <2> QED
    BY <2>2, <2>3, BeforeTells DEF SumExact, Agree
<1>2. CASE before'.name = "ADC"
  <2>1. A' = Sum(8, A, Operand, F.C).v /\ F' = Sum(8, A, Operand, F.C).f
    BY <1>2, LastTells DEF Adc, ToA
  <2>2. CarryIn' = F.C
    BY <1>2, BeforeTells DEF CarryIn, LastIs
  <2>3. /\ A' = (A + Operand + F.C) % Power(8)
        /\ \A n \in Documented : F'[n] = SumFlags(8, A, Operand, F.C, A')[n]
    BY <2>1, Sizes, SumIsExact
  <2> QED
    BY <2>2, <2>3, BeforeTells DEF SumExact, Agree
<1> QED
  BY <1>1, <1>2 DEF SumExact, LastIs

LEMMA DifferenceStep ==
  ASSUME TypeOK, Next
  PROVE  DifferenceExact'
<1>1. CASE before'.name = "SUB"
  <2>1. A' = Difference(8, A, Operand, 0).v /\ F' = Difference(8, A, Operand, 0).f
    BY <1>1, LastTells DEF Sub, ToA
  <2>2. CarryIn' = 0 /\ ~LastIs({"CP"})'
    BY <1>1 DEF CarryIn, LastIs
  <2>3. /\ A' = (A - Operand - 0) % Power(8)
        /\ \A n \in Documented : F'[n] = DifferenceFlags(8, A, Operand, 0, A')[n]
    BY <2>1, Sizes, DifferenceIsExact
  <2> QED
    BY <2>2, <2>3, BeforeTells DEF DifferenceExact, Agree
<1>2. CASE before'.name = "SBC"
  <2>1. A' = Difference(8, A, Operand, F.C).v /\ F' = Difference(8, A, Operand, F.C).f
    BY <1>2, LastTells DEF Sbc, ToA
  <2>2. CarryIn' = F.C /\ ~LastIs({"CP"})'
    BY <1>2, BeforeTells DEF CarryIn, LastIs
  <2>3. /\ A' = (A - Operand - F.C) % Power(8)
        /\ \A n \in Documented : F'[n] = DifferenceFlags(8, A, Operand, F.C, A')[n]
    BY <2>1, Sizes, DifferenceIsExact
  <2> QED
    BY <2>2, <2>3, BeforeTells DEF DifferenceExact, Agree
<1>3. CASE before'.name = "CP"
  <2> DEFINE r == Difference(8, A, Operand, 0)
  <2>1. A' = A /\ F' = [r.f EXCEPT !.Y = Bit(Operand, 5), !.X = Bit(Operand, 3)]
    BY <1>3, LastTells DEF Cp, ToA
  <2>2. CarryIn' = 0 /\ LastIs({"CP"})'
    BY <1>3 DEF CarryIn, LastIs
  <2>3. r.v = (A - Operand - 0) % Power(8)
        /\ \A n \in Documented : r.f[n] = DifferenceFlags(8, A, Operand, 0, r.v)[n]
    BY Sizes, DifferenceIsExact
  <2>4. r.f \in FlagBits
    BY Sizes, OperandTyped, ByteSums DEF Outcomes
  <2> HIDE DEF r
  <2>5. \A n \in Documented : F'[n] = r.f[n]
    BY <2>1, <2>4 DEF Documented, FlagBits, FlagNames
  <2> QED
    BY <2>1, <2>2, <2>3, <2>5, BeforeTells DEF DifferenceExact, Agree
<1> QED
  BY <1>1, <1>2, <1>3 DEF DifferenceExact, LastIs

LEMMA NegationStep ==
  ASSUME TypeOK, Next
  PROVE  NegationExact'
<1>1. CASE before'.name = "NEG"
  <2>1. A' = Difference(8, 0, A, 0).v /\ F' = Difference(8, 0, A, 0).f
    BY <1>1, LastTells DEF Neg, ToA
  <2>2. 0 - A - 0 = -A
    BY Sizes
  <2>3. /\ A' = (0 - A - 0) % Power(8)
        /\ \A n \in Documented : F'[n] = DifferenceFlags(8, 0, A, 0, A')[n]
    BY <2>1, Sizes, DifferenceIsExact
  <2> QED
    BY <2>2, <2>3, BeforeTells DEF NegationExact, Agree
<1> QED
  BY <1>1 DEF NegationExact, LastIs

LEMMA WordDifferenceStep ==
  ASSUME TypeOK, Next
  PROVE  WordDifferenceExact'
<1>1. CASE before'.name = "SBC HL"
  <2>1. HL' = Difference(16, HL, rr, F.C).v /\ F' = Difference(16, HL, rr, F.C).f
    BY <1>1, LastTells DEF SbcHL, ToHL
  <2>2. CarryIn' = F.C
    BY <1>1, BeforeTells DEF CarryIn, LastIs
  <2>3. /\ HL' = (HL - rr - F.C) % Power(16)
        /\ \A n \in Documented : F'[n] = DifferenceFlags(16, HL, rr, F.C, HL')[n]
    BY <2>1, Sizes, DifferenceIsExact
  <2> QED
    BY <2>2, <2>3, BeforeTells DEF WordDifferenceExact, Agree
<1> QED
  BY <1>1 DEF WordDifferenceExact, LastIs

(* To add 1 is to add the carry to 0, and to subtract it the same. *)
LEMMA OneIsCarry ==
  ASSUME NEW b \in Size(8), NEW r
  PROVE  \A n \in Documented \ {"C"} :
           /\ SumFlags(8, b, 0, 1, r)[n] = SumFlags(8, b, 1, 0, r)[n]
           /\ DifferenceFlags(8, b, 0, 1, r)[n] = DifferenceFlags(8, b, 1, 0, r)[n]
<1>1. /\ Low(0, 8) = 0 /\ Low(1, 8) = 1 /\ Low(b, 8) \in Int
      /\ Signed(0, 8) = 0 /\ Signed(1, 8) = 1 /\ Signed(b, 8) \in Int
  BY DEF Low, Signed, Power, Size
<1>2. /\ Low(b, 8) + Low(0, 8) + 1 = Low(b, 8) + Low(1, 8) + 0
      /\ Low(0, 8) + 1 = Low(1, 8) + 0
      /\ Signed(b, 8) + Signed(0, 8) + 1 = Signed(b, 8) + Signed(1, 8) + 0
      /\ Signed(b, 8) - Signed(0, 8) - 1 = Signed(b, 8) - Signed(1, 8) - 0
  BY <1>1
<1>3. /\ SumFlags(8, b, 0, 1, r).H = SumFlags(8, b, 1, 0, r).H
      /\ SumFlags(8, b, 0, 1, r).PV = SumFlags(8, b, 1, 0, r).PV
      /\ SumFlags(8, b, 0, 1, r).S = SumFlags(8, b, 1, 0, r).S
      /\ SumFlags(8, b, 0, 1, r).Z = SumFlags(8, b, 1, 0, r).Z
      /\ SumFlags(8, b, 0, 1, r).N = SumFlags(8, b, 1, 0, r).N
  BY <1>2 DEF SumFlags
<1>4. /\ DifferenceFlags(8, b, 0, 1, r).H = DifferenceFlags(8, b, 1, 0, r).H
      /\ DifferenceFlags(8, b, 0, 1, r).PV = DifferenceFlags(8, b, 1, 0, r).PV
      /\ DifferenceFlags(8, b, 0, 1, r).S = DifferenceFlags(8, b, 1, 0, r).S
      /\ DifferenceFlags(8, b, 0, 1, r).Z = DifferenceFlags(8, b, 1, 0, r).Z
      /\ DifferenceFlags(8, b, 0, 1, r).N = DifferenceFlags(8, b, 1, 0, r).N
  BY <1>2 DEF DifferenceFlags
<1> QED
  BY <1>3, <1>4 DEF Documented

LEMMA KeepCSets ==
  ASSUME TypeOK, NEW r \in Outcomes(Byte)
  PROVE  /\ KeepC(r).f.C = F.C
         /\ \A n \in Documented \ {"C"} : KeepC(r).f[n] = r.f[n]
<1>1. r.f \in FlagBits
  BY DEF Outcomes
<1> QED
  BY <1>1 DEF KeepC, FlagBits, FlagNames, Documented

LEMMA CountStep ==
  ASSUME TypeOK, Next
  PROVE  CountExact'
<1>1. Operand \in Int /\ Operand \in Size(8) /\ 0 \in Size(8) /\ 1 \in 0..1
      /\ Operand + 0 + 1 = Operand + 1 /\ Operand - 0 - 1 = Operand - 1
  BY Sizes
<1>2. CASE before'.name = "INC"
  <2> DEFINE r == Sum(8, Operand, 0, 1)
  <2>1. F' = KeepC(r).f
    BY <1>2, LastTells DEF Inc, ToOperand
  <2>2. /\ r.v = (Operand + 1) % Power(8)
        /\ \A n \in Documented : r.f[n] = SumFlags(8, Operand, 0, 1, r.v)[n]
    <3>1. /\ r.v = (Operand + 0 + 1) % Power(8)
          /\ \A n \in Documented : r.f[n] = SumFlags(8, Operand, 0, 1, r.v)[n]
      BY <1>1, SumIsExact
    <3> QED
      BY <1>1, <3>1
  <2>3. r \in Outcomes(Byte)
    BY <1>1, OperandTyped, ByteSums, ResultIsSmall
  <2> HIDE DEF r
  <2>4. F'.C = F.C
    BY <2>1, <2>3, KeepCSets
  <2>5. \A n \in Documented \ {"C"} :
          F'[n] = SumFlags(8, Operand, 1, 0, (Operand + 1) % Power(8))[n]
    BY <1>1, <2>1, <2>2, <2>3, KeepCSets, OneIsCarry
  <2> QED
    BY <1>2, <2>4, <2>5, BeforeTells DEF CountExact, LastIs, Agree
<1>3. CASE before'.name = "DEC"
  <2> DEFINE r == Difference(8, Operand, 0, 1)
  <2>1. F' = KeepC(r).f
    BY <1>3, LastTells DEF Dec, ToOperand
  <2>2. /\ r.v = (Operand - 1) % Power(8)
        /\ \A n \in Documented : r.f[n] = DifferenceFlags(8, Operand, 0, 1, r.v)[n]
    <3>1. /\ r.v = (Operand - 0 - 1) % Power(8)
          /\ \A n \in Documented : r.f[n] = DifferenceFlags(8, Operand, 0, 1, r.v)[n]
      BY <1>1, DifferenceIsExact
    <3> QED
      BY <1>1, <3>1
  <2>3. r \in Outcomes(Byte)
    BY <1>1, OperandTyped, ByteSums, ResultIsSmall
  <2> HIDE DEF r
  <2>4. F'.C = F.C
    BY <2>1, <2>3, KeepCSets
  <2>5. \A n \in Documented \ {"C"} :
          F'[n] = DifferenceFlags(8, Operand, 1, 0, (Operand - 1) % Power(8))[n]
    BY <1>1, <2>1, <2>2, <2>3, KeepCSets, OneIsCarry
  <2> QED
    BY <1>3, <2>4, <2>5, BeforeTells DEF CountExact, LastIs, Agree
<1> QED
  BY <1>2, <1>3 DEF CountExact, LastIs

LEMMA WordSumStep ==
  ASSUME TypeOK, Next
  PROVE  WordSumExact'
<1>1. CASE before'.name = "ADD HL"
  <2> DEFINE r == Sum(16, HL, rr, 0)
  <2>1. HL' = r.v /\ F' = KeepSZP(16, r.v, r.f.H, 0, r.f.C)
    <3>1. ToHL("ADD HL", [v |-> r.v, f |-> KeepSZP(16, r.v, r.f.H, 0, r.f.C)])
      BY <1>1, LastTells DEF AddHL
    <3> HIDE DEF r
    <3> QED
      BY <3>1 DEF ToHL
  <2>2. CarryIn' = 0 /\ ~LastIs({"ADC HL"})'
    BY <1>1 DEF CarryIn, LastIs
  <2>3. /\ r.v = (HL + rr + 0) % Power(16)
        /\ \A n \in Documented : r.f[n] = SumFlags(16, HL, rr, 0, r.v)[n]
    BY Sizes, SumIsExact
  <2>4. SumFlags(16, HL, rr, 0, r.v).N = 0
    BY DEF SumFlags
  <2> HIDE DEF r
  <2>5. F'.H = r.f.H /\ F'.N = 0 /\ F'.C = r.f.C
    BY <2>1, OperandTyped DEF KeepSZP, FlagBits, FlagNames
  <2>6. \A n \in {"H", "N", "C"} : F'[n] = SumFlags(16, HL, rr, 0, HL')[n]
    BY <2>1, <2>3, <2>4, <2>5 DEF Documented
  <2> QED
    BY <2>1, <2>2, <2>3, <2>6, BeforeTells DEF WordSumExact, Agree
<1>2. CASE before'.name = "ADC HL"
  <2>1. HL' = Sum(16, HL, rr, F.C).v /\ F' = Sum(16, HL, rr, F.C).f
    BY <1>2, LastTells DEF AdcHL, ToHL
  <2>2. CarryIn' = F.C /\ LastIs({"ADC HL"})'
    BY <1>2, BeforeTells DEF CarryIn, LastIs
  <2>3. /\ HL' = (HL + rr + F.C) % Power(16)
        /\ \A n \in Documented : F'[n] = SumFlags(16, HL, rr, F.C, HL')[n]
    BY <2>1, Sizes, SumIsExact
  <2> QED
    BY <2>2, <2>3, BeforeTells DEF WordSumExact, Agree
<1> QED
  BY <1>1, <1>2 DEF WordSumExact, LastIs

LEMMA InitExact == Init => ArithmeticExact
<1> SUFFICES ASSUME Init PROVE ArithmeticExact
  OBVIOUS
<1>1. before.name = "none"
  BY DEF Init
<1> QED
  BY <1>1 DEF ArithmeticExact, SumExact, DifferenceExact, NegationExact, CountExact,
              WordSumExact, WordDifferenceExact, LastIs

LEMMA StutterExact ==
  ASSUME ArithmeticExact, UNCHANGED vars
  PROVE  ArithmeticExact'
<1>1. A' = A /\ F' = F /\ HL' = HL /\ before' = before
  BY DEF vars, registers
<1>2. /\ SumExact' = SumExact
      /\ DifferenceExact' = DifferenceExact
  BY <1>1 DEF SumExact, DifferenceExact, LastIs, CarryIn, Agree
<1>3. /\ NegationExact' = NegationExact
      /\ CountExact' = CountExact
  BY <1>1 DEF NegationExact, CountExact, LastIs, Agree
<1>4. /\ WordSumExact' = WordSumExact
      /\ WordDifferenceExact' = WordDifferenceExact
  BY <1>1 DEF WordSumExact, WordDifferenceExact, LastIs, CarryIn, Agree
<1> QED
  BY <1>2, <1>3, <1>4 DEF ArithmeticExact

(* Whatever the operands, every addition, subtraction, comparison,         *)
(* negation and count leaves the result and the flags that tell of signed  *)
(* and unsigned overflow, sign and zero, although the code reads them off  *)
(* the carries of one int.                                                 *)
THEOREM FlagsTellOverflow == Spec => []ArithmeticExact
<1>1. TypeOK /\ Next => ArithmeticExact'
  BY SumStep, DifferenceStep, NegationStep, CountStep, WordSumStep, WordDifferenceStep
     DEF ArithmeticExact
<1>2. TypeOK /\ ArithmeticExact /\ [Next]_vars => ArithmeticExact'
  BY <1>1, StutterExact
<1> QED
  BY <1>2, InitExact, TypeCorrect, PTL DEF Spec

-----------------------------------------------------------------------------
(* Words and their two bytes. *)

LEMMA HighBits ==
  ASSUME NEW h \in Byte, NEW l \in Byte
  PROVE  /\ Bit(256*h + l, 15) = Bit(h, 7)
         /\ Bit(256*h + l, 13) = Bit(h, 5)
         /\ Bit(256*h + l, 11) = Bit(h, 3)
<1>1. (256*h + l) \div 32768 = h \div 128
  BY DEF Byte
<1>2. (256*h + l) \div 8192 = h \div 32
  BY DEF Byte
<1>3. (256*h + l) \div 2048 = h \div 8
  BY DEF Byte
<1> QED
  BY <1>1, <1>2, <1>3 DEF Bit, Power

(* What the bytes of a word tell of it. *)
LEMMA WordOfBytes ==
  ASSUME NEW a \in Size(16)
  PROVE  /\ a % 256 \in Size(8) /\ a \div 256 \in Size(8)
         /\ a = 256 * (a \div 256) + (a % 256)
         /\ Low(a, 16) = 256 * Low(a \div 256, 8) + (a % 256)
         /\ Signed(a, 16) = 256 * Signed(a \div 256, 8) + (a % 256)
         /\ Low(a \div 256, 8) \in Int /\ Signed(a \div 256, 8) \in Int
BY DEF Size, Power, Low, Signed

LEMMA FitsByBytes ==
  ASSUME NEW n \in Int, NEW l \in Byte
  PROVE  Fits(256*n + l, 16) = Fits(n, 8)
BY DEF Fits, Power, Byte

LEMMA SumOfBytes ==
  ASSUME NEW ah \in Int, NEW bh \in Int, NEW al \in Byte, NEW bl \in Byte, NEW c \in 0..1
  PROVE  LET over == Flag(al + bl + c >= 256)
             l == (al + bl + c) % 256
         IN  /\ over \in 0..1 /\ l \in Byte
             /\ (256*ah + al) + (256*bh + bl) + c = 256*(ah + bh + over) + l
<1>1. PICK s \in 0..511 : s = al + bl + c
  BY DEF Byte
<1>2. /\ s >= 256 => s % 256 = s - 256
      /\ s < 256 => s % 256 = s
  OBVIOUS
<1> DEFINE f == Flag(al + bl + c >= 256)
<1>3. (s >= 256 => f = 1) /\ (s < 256 => f = 0)
  BY <1>1 DEF Flag, Byte
<1> HIDE DEF f
<1>4. f \in 0..1 /\ s % 256 \in Byte /\ s = 256 * f + (s % 256)
  BY <1>2, <1>3 DEF Byte
<1>5. PICK over \in 0..1, l \in Byte : over = f /\ l = s % 256 /\ s = 256 * over + l
  BY <1>4
<1>6. (256*ah + al) + (256*bh + bl) + c = 256*(ah + bh + over) + l
  BY <1>1, <1>5 DEF Byte
<1> QED
  BY <1>1, <1>5, <1>6, Zenon DEF f

LEMMA DifferenceOfBytes ==
  ASSUME NEW ah \in Int, NEW bh \in Int, NEW al \in Byte, NEW bl \in Byte, NEW c \in 0..1
  PROVE  LET under == Flag(al < bl + c)
             l == (al - bl - c) % 256
         IN  /\ under \in 0..1 /\ l \in Byte
             /\ (256*ah + al) - (256*bh + bl) - c = 256*(ah - bh - under) + l
<1>1. PICK s \in -256..255 : s = al - bl - c
  BY DEF Byte
<1>2. /\ s < 0 => s % 256 = s + 256
      /\ s >= 0 => s % 256 = s
  OBVIOUS
<1> DEFINE f == Flag(al < bl + c)
<1>3. (s < 0 => f = 1) /\ (s >= 0 => f = 0)
  BY <1>1 DEF Flag, Byte
<1> HIDE DEF f
<1>4. f \in 0..1 /\ s % 256 \in Byte /\ s = (s % 256) - 256 * f
  BY <1>2, <1>3 DEF Byte
<1>5. PICK under \in 0..1, l \in Byte : under = f /\ l = s % 256 /\ s = l - 256 * under
  BY <1>4
<1>6. (256*ah + al) - (256*bh + bl) - c = 256*(ah - bh - under) + l
  BY <1>1, <1>5 DEF Byte
<1> QED
  BY <1>1, <1>5, <1>6, Zenon DEF f

LEMMA SumByBytes ==
  ASSUME NEW a \in Size(16), NEW b \in Size(16), NEW c \in 0..1
  PROVE  LET r == Sum(16, a, b, c)
             low == Sum(8, a % 256, b % 256, c)
             high == Sum(8, a \div 256, b \div 256, low.f.C)
         IN  /\ r.v = 256 * high.v + low.v
             /\ \A n \in FlagNames \ {"Z"} : r.f[n] = high.f[n]
<1> DEFINE r == Sum(16, a, b, c)
           al == a % 256
           bl == b % 256
           ah == a \div 256
           bh == b \div 256
           low == Sum(8, al, bl, c)
           over == Flag(al + bl + c >= 256)
           high == Sum(8, ah, bh, over)
           l == (al + bl + c) % 256
<1>1. /\ al \in Size(8) /\ bl \in Size(8) /\ ah \in Size(8) /\ bh \in Size(8)
      /\ al \in Byte /\ bl \in Byte /\ ah \in Int /\ bh \in Int
      /\ a = 256*ah + al /\ b = 256*bh + bl
  <2>1. Size(8) = Byte
    BY ResultIsSmall
  <2> QED
    BY <2>1, WordOfBytes DEF Byte
<1>2. /\ Low(a, 16) = 256 * Low(ah, 8) + al /\ Low(b, 16) = 256 * Low(bh, 8) + bl
      /\ Signed(a, 16) = 256 * Signed(ah, 8) + al /\ Signed(b, 16) = 256 * Signed(bh, 8) + bl
      /\ Low(ah, 8) \in Int /\ Low(bh, 8) \in Int /\ Signed(ah, 8) \in Int /\ Signed(bh, 8) \in Int
  BY WordOfBytes
<1> HIDE DEF al, bl, ah, bh
<1>3. low.v = l /\ low.f["C"] = over
  <2> al \in Size(8) /\ bl \in Size(8)
    BY <1>1
  <2>1. /\ low.v = (al + bl + c) % Power(8)
        /\ \A n \in Documented : low.f[n] = SumFlags(8, al, bl, c, low.v)[n]
    BY SumIsExact
  <2>2. Power(8) = 256 /\ Power(4) = 16
    BY DEF Power
  <2> HIDE DEF low
  <2>3. low.f["C"] = over
    BY <2>1, <2>2 DEF Documented, SumFlags
  <2> QED
    BY <2>1, <2>2, <2>3
<1>4. over \in 0..1 /\ l \in Byte
  BY <1>1 DEF Flag, Byte
<1>5. ASSUME NEW p \in Int, NEW q \in Int
      PROVE  (256*p + al) + (256*q + bl) + c = 256*(p + q + over) + l
  BY <1>1 DEF Flag, Byte
<1> HIDE DEF over, l
<1>6. /\ high.v = (ah + bh + over) % Power(8) /\ high.v \in Byte
      /\ \A n \in Documented : high.f[n] = SumFlags(8, ah, bh, over, high.v)[n]
      /\ high.f["Y"] = Bit(high.v, 5) /\ high.f["X"] = Bit(high.v, 3)
  <2>1. /\ high.v = (ah + bh + over) % Power(8)
        /\ \A n \in Documented : high.f[n] = SumFlags(8, ah, bh, over, high.v)[n]
    BY <1>1, <1>4, SumIsExact
  <2>2. high.v \in Byte
    BY <1>1, <1>4, <2>1, ResultIsSmall
  <2>3. high.f["Y"] = Bit(high.v, 5) /\ high.f["X"] = Bit(high.v, 3)
    BY DEF Sum, Result, FlagsOf
  <2> QED
    BY <2>1, <2>2, <2>3
<1>7. /\ r.v = (a + b + c) % Power(16)
      /\ \A n \in Documented : r.f[n] = SumFlags(16, a, b, c, r.v)[n]
      /\ r.f["Y"] = Bit(r.v, 13) /\ r.f["X"] = Bit(r.v, 11)
  <2>1. /\ r.v = (a + b + c) % Power(16)
        /\ \A n \in Documented : r.f[n] = SumFlags(16, a, b, c, r.v)[n]
    BY SumIsExact
  <2>2. r.f["Y"] = Bit(r.v, 13) /\ r.f["X"] = Bit(r.v, 11)
    BY DEF Sum, Result, FlagsOf
  <2> QED
    BY <2>1, <2>2
<1>8. r.f["S"] = Bit(r.v, 15) /\ high.f["S"] = Bit(high.v, 7)
  BY DEF Sum, Result, FlagsOf
<1> HIDE DEF r, high
<1>9. a + b + c = 256*(ah + bh + over) + l
  BY <1>1, <1>5
<1>10. r.v = 256 * high.v + l
  <2> DEFINE n == ah + bh + over
  <2>1. n \in Int /\ high.v = n % 256
    BY <1>1, <1>4, <1>6 DEF Power
  <2>2. r.v = (256*n + l) % 65536
    BY <1>7, <1>9 DEF Power
  <2> HIDE DEF n
  <2> QED
    BY <1>4, <2>1, <2>2 DEF Byte
<1>11. r.f["S"] = high.f["S"] /\ r.f["Y"] = high.f["Y"] /\ r.f["X"] = high.f["X"]
  BY <1>4, <1>6, <1>7, <1>8, <1>10, HighBits
<1>12. r.f["N"] = high.f["N"]
  BY <1>6, <1>7 DEF Documented, SumFlags
<1>13. r.f["H"] = high.f["H"]
  <2>1. /\ r.f["H"] = Flag(Low(a, 16) + Low(b, 16) + c >= 4096)
        /\ high.f["H"] = Flag(Low(ah, 8) + Low(bh, 8) + over >= 16)
    BY <1>6, <1>7 DEF Documented, SumFlags, Power
  <2> DEFINE p == Low(ah, 8)
             q == Low(bh, 8)
  <2>2. Low(a, 16) + Low(b, 16) + c = (256*p + al) + (256*q + bl) + c
    BY <1>2
  <2>3. (256*p + al) + (256*q + bl) + c = 256*(p + q + over) + l
    BY <1>2, <1>5
  <2>4. p \in Int /\ q \in Int
    BY <1>2
  <2> HIDE DEF p, q
  <2>5. (256*p + al) + (256*q + bl) + c >= 4096 <=> p + q + over >= 16
    BY <1>1, <1>4, <2>3, <2>4 DEF Byte
  <2> QED
    BY <2>1, <2>2, <2>5 DEF Flag, p, q
<1>14. r.f["C"] = high.f["C"]
  <2>1. /\ r.f["C"] = Flag(a + b + c >= 65536)
        /\ high.f["C"] = Flag(ah + bh + over >= 256)
    BY <1>6, <1>7 DEF Documented, SumFlags, Power
  <2>2. a + b + c >= 65536 <=> ah + bh + over >= 256
    BY <1>1, <1>4, <1>9 DEF Byte
  <2> QED
    BY <2>1, <2>2 DEF Flag
<1>15. r.f["PV"] = high.f["PV"]
  <2> DEFINE n == Signed(ah, 8) + Signed(bh, 8) + over
  <2>1. n \in Int
    BY <1>2, <1>4
  <2>2. Signed(a, 16) + Signed(b, 16) + c = 256*n + l
    BY <1>2, <1>5
  <2>3. r.f["PV"] = Flag(~Fits(256*n + l, 16)) /\ high.f["PV"] = Flag(~Fits(n, 8))
    BY <1>6, <1>7, <2>2 DEF Documented, SumFlags
  <2> HIDE DEF n
  <2>4. Fits(256*n + l, 16) = Fits(n, 8)
    BY <1>4, <2>1, FitsByBytes
  <2> QED
    BY <2>3, <2>4
<1>16. \A n \in FlagNames \ {"Z"} : r.f[n] = high.f[n]
  BY <1>11, <1>12, <1>13, <1>14, <1>15 DEF FlagNames
<1> QED
  BY <1>3, <1>10, <1>16 DEF r, high, al, bl, ah, bh


LEMMA DifferenceByBytes ==
  ASSUME NEW a \in Size(16), NEW b \in Size(16), NEW c \in 0..1
  PROVE  LET r == Difference(16, a, b, c)
             low == Difference(8, a % 256, b % 256, c)
             high == Difference(8, a \div 256, b \div 256, low.f.C)
         IN  /\ r.v = 256 * high.v + low.v
             /\ \A n \in FlagNames \ {"Z"} : r.f[n] = high.f[n]
<1> DEFINE r == Difference(16, a, b, c)
           al == a % 256
           bl == b % 256
           ah == a \div 256
           bh == b \div 256
           low == Difference(8, al, bl, c)
           over == Flag(al < bl + c)
           high == Difference(8, ah, bh, over)
           l == (al - bl - c) % 256
<1>1. /\ al \in Size(8) /\ bl \in Size(8) /\ ah \in Size(8) /\ bh \in Size(8)
      /\ al \in Byte /\ bl \in Byte /\ ah \in Int /\ bh \in Int
      /\ a = 256*ah + al /\ b = 256*bh + bl
  <2>1. Size(8) = Byte
    BY ResultIsSmall
  <2> QED
    BY <2>1, WordOfBytes DEF Byte
<1>2. /\ Low(a, 16) = 256 * Low(ah, 8) + al /\ Low(b, 16) = 256 * Low(bh, 8) + bl
      /\ Signed(a, 16) = 256 * Signed(ah, 8) + al /\ Signed(b, 16) = 256 * Signed(bh, 8) + bl
      /\ Low(ah, 8) \in Int /\ Low(bh, 8) \in Int /\ Signed(ah, 8) \in Int /\ Signed(bh, 8) \in Int
  BY WordOfBytes
<1> HIDE DEF al, bl, ah, bh
<1>3. low.v = l /\ low.f["C"] = over
  <2> al \in Size(8) /\ bl \in Size(8)
    BY <1>1
  <2>1. /\ low.v = (al - bl - c) % Power(8)
        /\ \A n \in Documented : low.f[n] = DifferenceFlags(8, al, bl, c, low.v)[n]
    BY DifferenceIsExact
  <2>2. Power(8) = 256 /\ Power(4) = 16
    BY DEF Power
  <2> HIDE DEF low
  <2>3. low.f["C"] = over
    BY <2>1, <2>2 DEF Documented, DifferenceFlags
  <2> QED
    BY <2>1, <2>2, <2>3
<1>4. over \in 0..1 /\ l \in Byte
  BY <1>1 DEF Flag, Byte
<1>5. ASSUME NEW p \in Int, NEW q \in Int
      PROVE  (256*p + al) - (256*q + bl) - c = 256*(p - q - over) + l
  BY <1>1 DEF Flag, Byte
<1> HIDE DEF over, l
<1>6. /\ high.v = (ah - bh - over) % Power(8) /\ high.v \in Byte
      /\ \A n \in Documented : high.f[n] = DifferenceFlags(8, ah, bh, over, high.v)[n]
      /\ high.f["Y"] = Bit(high.v, 5) /\ high.f["X"] = Bit(high.v, 3)
  <2>1. /\ high.v = (ah - bh - over) % Power(8)
        /\ \A n \in Documented : high.f[n] = DifferenceFlags(8, ah, bh, over, high.v)[n]
    BY <1>1, <1>4, DifferenceIsExact
  <2>2. high.v \in Byte
    BY <1>1, <1>4, <2>1, ResultIsSmall
  <2>3. high.f["Y"] = Bit(high.v, 5) /\ high.f["X"] = Bit(high.v, 3)
    BY DEF Difference, Result, FlagsOf
  <2> QED
    BY <2>1, <2>2, <2>3
<1>7. /\ r.v = (a - b - c) % Power(16)
      /\ \A n \in Documented : r.f[n] = DifferenceFlags(16, a, b, c, r.v)[n]
      /\ r.f["Y"] = Bit(r.v, 13) /\ r.f["X"] = Bit(r.v, 11)
  <2>1. /\ r.v = (a - b - c) % Power(16)
        /\ \A n \in Documented : r.f[n] = DifferenceFlags(16, a, b, c, r.v)[n]
    BY DifferenceIsExact
  <2>2. r.f["Y"] = Bit(r.v, 13) /\ r.f["X"] = Bit(r.v, 11)
    BY DEF Difference, Result, FlagsOf
  <2> QED
    BY <2>1, <2>2
<1>8. r.f["S"] = Bit(r.v, 15) /\ high.f["S"] = Bit(high.v, 7)
  BY DEF Difference, Result, FlagsOf
<1> HIDE DEF r, high
<1>9. a - b - c = 256*(ah - bh - over) + l
  BY <1>1, <1>5
<1>10. r.v = 256 * high.v + l
  <2> DEFINE n == ah - bh - over
  <2>1. n \in Int /\ high.v = n % 256
    BY <1>1, <1>4, <1>6 DEF Power
  <2>2. r.v = (256*n + l) % 65536
    BY <1>7, <1>9 DEF Power
  <2> HIDE DEF n
  <2> QED
    BY <1>4, <2>1, <2>2 DEF Byte
<1>11. r.f["S"] = high.f["S"] /\ r.f["Y"] = high.f["Y"] /\ r.f["X"] = high.f["X"]
  BY <1>4, <1>6, <1>7, <1>8, <1>10, HighBits
<1>12. r.f["N"] = high.f["N"]
  BY <1>6, <1>7 DEF Documented, DifferenceFlags
<1>13. r.f["H"] = high.f["H"]
  <2>1. /\ r.f["H"] = Flag(Low(a, 16) < Low(b, 16) + c)
        /\ high.f["H"] = Flag(Low(ah, 8) < Low(bh, 8) + over)
    BY <1>6, <1>7 DEF Documented, DifferenceFlags, Power
  <2> DEFINE p == Low(ah, 8)
             q == Low(bh, 8)
  <2>2. Low(a, 16) = 256*p + al /\ Low(b, 16) = 256*q + bl
    BY <1>2
  <2>3. (256*p + al) - (256*q + bl) - c = 256*(p - q - over) + l
    BY <1>2, <1>5
  <2>4. p \in Int /\ q \in Int
    BY <1>2
  <2> HIDE DEF p, q
  <2>5. 256*p + al < 256*q + bl + c <=> p < q + over
    BY <1>1, <1>4, <2>3, <2>4 DEF Byte
  <2> QED
    BY <2>1, <2>2, <2>5 DEF Flag, p, q
<1>14. r.f["C"] = high.f["C"]
  <2>1. /\ r.f["C"] = Flag(a < b + c)
        /\ high.f["C"] = Flag(ah < bh + over)
    BY <1>6, <1>7 DEF Documented, DifferenceFlags, Power
  <2>2. a < b + c <=> ah < bh + over
    BY <1>1, <1>4, <1>9 DEF Byte
  <2> QED
    BY <2>1, <2>2 DEF Flag
<1>15. r.f["PV"] = high.f["PV"]
  <2> DEFINE n == Signed(ah, 8) - Signed(bh, 8) - over
  <2>1. n \in Int
    BY <1>2, <1>4
  <2>2. Signed(a, 16) - Signed(b, 16) - c = 256*n + l
    BY <1>2, <1>5
  <2>3. r.f["PV"] = Flag(~Fits(256*n + l, 16)) /\ high.f["PV"] = Flag(~Fits(n, 8))
    BY <1>6, <1>7, <2>2 DEF Documented, DifferenceFlags
  <2> HIDE DEF n
  <2>4. Fits(256*n + l, 16) = Fits(n, 8)
    BY <1>4, <2>1, FitsByBytes
  <2> QED
    BY <2>3, <2>4
<1>16. \A n \in FlagNames \ {"Z"} : r.f[n] = high.f[n]
  BY <1>11, <1>12, <1>13, <1>14, <1>15 DEF FlagNames
<1> QED
  BY <1>3, <1>10, <1>16 DEF r, high, al, bl, ah, bh

LEMMA ByteResults ==
  ASSUME NEW a \in Size(16), NEW b \in Size(16), NEW c \in 0..1
  PROVE  LET sum == Sum(8, a % 256, b % 256, c)
             difference == Difference(8, a % 256, b % 256, c)
         IN  /\ sum.v \in Int /\ Sum(8, a \div 256, b \div 256, sum.f.C).v \in Int
             /\ difference.v \in Int
             /\ Difference(8, a \div 256, b \div 256, difference.f.C).v \in Int
<1>1. /\ a % 256 \in Byte /\ b % 256 \in Byte /\ a \div 256 \in Byte /\ b \div 256 \in Byte
      /\ Byte \subseteq Int
  <2>1. Size(8) = Byte /\ Byte \subseteq Int
    BY ResultIsSmall DEF Byte
  <2> QED
    BY <2>1, WordOfBytes
<1>2. ASSUME NEW r \in Outcomes(Byte)
      PROVE  r.v \in Int /\ r.f.C \in 0..1
  BY <1>1 DEF Outcomes, FlagBits, FlagNames
<1> DEFINE sum == Sum(8, a % 256, b % 256, c)
           difference == Difference(8, a % 256, b % 256, c)
<1>3. sum \in Outcomes(Byte) /\ difference \in Outcomes(Byte)
  BY <1>1, ByteSums
<1>4. sum.v \in Int /\ difference.v \in Int /\ sum.f.C \in 0..1 /\ difference.f.C \in 0..1
  BY <1>2, <1>3
<1> HIDE DEF sum, difference
<1>5. /\ Sum(8, a \div 256, b \div 256, sum.f.C) \in Outcomes(Byte)
      /\ Difference(8, a \div 256, b \div 256, difference.f.C) \in Outcomes(Byte)
  BY <1>1, <1>4, ByteSums
<1> QED
  BY <1>2, <1>4, <1>5 DEF sum, difference

LEMMA WordsByBytesStep ==
  ASSUME TypeOK, Next
  PROVE  WordsByBytes'
<1> HL \in Size(16) /\ rr \in Size(16) /\ F.C \in 0..1 /\ 0 \in 0..1
  BY Sizes
<1>1. CASE before'.name = "ADD HL"
  <2> DEFINE r == Sum(16, HL, rr, 0)
             low == Sum(8, HL % 256, rr % 256, 0)
             high == Sum(8, HL \div 256, rr \div 256, low.f.C)
  <2>1. HL' = r.v /\ F' = KeepSZP(16, r.v, r.f.H, 0, r.f.C)
    <3>1. ToHL("ADD HL", [v |-> r.v, f |-> KeepSZP(16, r.v, r.f.H, 0, r.f.C)])
      BY <1>1, LastTells DEF AddHL
    <3> HIDE DEF r
    <3> QED
      BY <3>1 DEF ToHL
  <2>2. CarryIn' = 0 /\ LastIs({"ADD HL"})' /\ ~LastIs({"SBC HL"})'
    BY <1>1 DEF CarryIn, LastIs
  <2>3. /\ r.v = 256 * high.v + low.v
        /\ \A n \in FlagNames \ {"Z"} : r.f[n] = high.f[n]
    BY SumByBytes
  <2>4. r.f.Y = Bit(r.v, 13) /\ r.f.X = Bit(r.v, 11) /\ r.f.N = 0
    BY DEF Sum, Result, FlagsOf
  <2> HIDE DEF r, low, high
  <2>5. \A n \in {"Y", "H", "X", "N", "C"} : F'[n] = r.f[n]
    <3>1. F \in [FlagNames -> 0..1]
      BY OperandTyped DEF FlagBits
    <3>2. /\ F'["Y"] = r.f.Y /\ F'["X"] = r.f.X /\ F'["H"] = r.f.H
          /\ F'["N"] = r.f.N /\ F'["C"] = r.f.C
      BY <2>1, <2>4, <3>1 DEF KeepSZP, FlagNames
    <3> QED
      BY <3>2
  <2>6. \A n \in {"Y", "H", "X", "N", "C"} : F'[n] = high.f[n]
    BY <2>3, <2>5 DEF FlagNames
  <2>7. HL' = 256 * high.v + low.v
    BY <2>1, <2>3
  <2> DEFINE s == before'.start
             low1 == Sum(8, s.HL % 256, s.rr % 256, CarryIn')
             high1 == Sum(8, s.HL \div 256, s.rr \div 256, low1.f.C)
  <2>8. low1 = low /\ high1 = high
    BY <2>2, BeforeTells DEF low, high
  <2>9. low1.v \in Int /\ high1.v \in Int
    BY <2>8, ByteResults DEF low, high
  <2> HIDE DEF low, high, low1, high1
  <2>10. HL' = 256 * high1.v + low1.v
    BY <2>8, <2>2, <2>6, <2>7
  <2>11. /\ \A n \in {"Y", "H", "X", "N", "C"} : F'[n] = high1.f[n]
         /\ LastIs({"ADD HL"})' \/ (\A n \in {"S", "PV"} : F'[n] = high1.f[n])
    BY <2>8, <2>2, <2>6, <2>7
  <2> QED
    BY <2>2, <2>9, <2>10, <2>11 DEF WordsByBytes, Agree, low1, high1
<1>2. CASE before'.name = "ADC HL"
  <2> DEFINE r == Sum(16, HL, rr, F.C)
             low == Sum(8, HL % 256, rr % 256, F.C)
             high == Sum(8, HL \div 256, rr \div 256, low.f.C)
  <2>1. HL' = r.v /\ F' = r.f
    BY <1>2, LastTells DEF AdcHL, ToHL
  <2>2. CarryIn' = F.C /\ ~LastIs({"SBC HL"})'
    BY <1>2, BeforeTells DEF CarryIn, LastIs
  <2>3. /\ HL' = 256 * high.v + low.v
        /\ \A n \in FlagNames \ {"Z"} : F'[n] = high.f[n]
    BY <2>1, SumByBytes
  <2>4. \A n \in {"Y", "H", "X", "N", "C", "S", "PV"} : F'[n] = high.f[n]
    BY <2>3 DEF FlagNames
  <2> DEFINE s == before'.start
             low1 == Sum(8, s.HL % 256, s.rr % 256, CarryIn')
             high1 == Sum(8, s.HL \div 256, s.rr \div 256, low1.f.C)
  <2>8. low1 = low /\ high1 = high
    BY <2>2, BeforeTells DEF low, high
  <2>9. low1.v \in Int /\ high1.v \in Int
    BY <2>8, ByteResults
  <2> HIDE DEF low, high, low1, high1
  <2>10. HL' = 256 * high1.v + low1.v
    BY <2>8, <2>2, <2>3, <2>4
  <2>11. /\ \A n \in {"Y", "H", "X", "N", "C"} : F'[n] = high1.f[n]
         /\ LastIs({"ADD HL"})' \/ (\A n \in {"S", "PV"} : F'[n] = high1.f[n])
    BY <2>8, <2>2, <2>3, <2>4
  <2> QED
    BY <2>2, <2>9, <2>10, <2>11 DEF WordsByBytes, Agree, low1, high1
<1>3. CASE before'.name = "SBC HL"
  <2> DEFINE r == Difference(16, HL, rr, F.C)
             low == Difference(8, HL % 256, rr % 256, F.C)
             high == Difference(8, HL \div 256, rr \div 256, low.f.C)
  <2>1. HL' = r.v /\ F' = r.f
    BY <1>3, LastTells DEF SbcHL, ToHL
  <2>2. CarryIn' = F.C /\ ~LastIs({"ADD HL", "ADC HL"})'
    BY <1>3, BeforeTells DEF CarryIn, LastIs
  <2>3. /\ HL' = 256 * high.v + low.v
        /\ \A n \in FlagNames \ {"Z"} : F'[n] = high.f[n]
    BY <2>1, DifferenceByBytes
  <2>4. \A n \in {"Y", "H", "X", "N", "C", "S", "PV"} : F'[n] = high.f[n]
    BY <2>3 DEF FlagNames
  <2> DEFINE s == before'.start
             low1 == Difference(8, s.HL % 256, s.rr % 256, CarryIn')
             high1 == Difference(8, s.HL \div 256, s.rr \div 256, low1.f.C)
  <2>8. low1 = low /\ high1 = high
    BY <2>2, BeforeTells DEF low, high
  <2>9. low1.v \in Int /\ high1.v \in Int
    BY <2>8, ByteResults
  <2> HIDE DEF low, high, low1, high1
  <2>10. HL' = 256 * high1.v + low1.v
    BY <2>8, <2>2, <2>3, <2>4
  <2>11. /\ \A n \in {"Y", "H", "X", "N", "C"} : F'[n] = high1.f[n]
         /\ LastIs({"ADD HL"})' \/ (\A n \in {"S", "PV"} : F'[n] = high1.f[n])
    BY <2>8, <2>2, <2>3, <2>4
  <2> QED
    BY <2>2, <2>9, <2>10, <2>11 DEF WordsByBytes, Agree, low1, high1
<1> QED
  BY <1>1, <1>2, <1>3 DEF WordsByBytes, LastIs

(* For every pair of words a 16-bit addition or subtraction does what two  *)
(* 8-bit ones do, the carry of the low bytes handed to the high bytes:     *)
(* the flags that the code reads off bits 12, 15 and 16 of the 16-bit      *)
(* result are those of bits 4, 7 and 8 of the high byte's.                 *)
THEOREM WordsAreTwoBytes == Spec => []WordsByBytes
<1>1. Init => WordsByBytes
  <2> SUFFICES ASSUME Init PROVE WordsByBytes
    OBVIOUS
  <2>1. before.name = "none"
    BY DEF Init
  <2> QED
    BY <2>1 DEF WordsByBytes, LastIs
<1>2. UNCHANGED vars => (WordsByBytes' <=> WordsByBytes)
  BY DEF vars, registers, WordsByBytes, LastIs, CarryIn, Agree
<1>3. TypeOK /\ WordsByBytes /\ [Next]_vars => WordsByBytes'
  BY <1>2, WordsByBytesStep
<1> QED
  BY <1>1, <1>3, TypeCorrect, PTL DEF Spec

-----------------------------------------------------------------------------
(* Decimal arithmetic. *)

LEMMA RemainderAdds ==
  ASSUME NEW m \in Int, NEW k \in Int
  PROVE  ((m % 256) + k) % 256 = (m + k) % 256 /\ ((m % 256) - k) % 256 = (m - k) % 256
OBVIOUS

(* DAA after a sum whose digits add up to h and l. *)
LEMMA DaaOfSum ==
  ASSUME NEW l \in 0..19, NEW h \in 0..18,
         A = (16*h + l) % 256, F.N = 0, F.H = Flag(l >= 16), F.C = Flag(16*h + l >= 256)
  PROVE  /\ Decimal(DaaResult) /\ Value(DaaResult) = (10*h + l) % 100
         /\ (A > 153 \/ F.C = 1) <=> 10*h + l > 99
<1>1. l \in 0..19 /\ h \in 0..18 /\ A = (16*h + l) % 256
  OBVIOUS
<1>3. (A > 153 \/ F.C = 1) <=> 10*h + l > 99
  BY <1>1 DEF Flag
<1>4. (A % 16 > 9 \/ F.H = 1) <=> l > 9
  BY <1>1 DEF Flag
<1>5. DaaResult = (16*h + l + ((IF 10*h + l > 99 THEN 96 ELSE 0) + (IF l > 9 THEN 6 ELSE 0))) % 256
  <2> DEFINE k == (IF 10*h + l > 99 THEN 96 ELSE 0) + (IF l > 9 THEN 6 ELSE 0)
  <2>1. k = DaaAdjustment /\ k \in Int
    BY <1>3, <1>4 DEF DaaAdjustment
  <2>2. DaaResult = (A + k) % 256
    BY <2>1 DEF DaaResult
  <2> HIDE DEF k
  <2> DEFINE m == 16*h + l
  <2>3. A = m % 256 /\ m \in Int
    BY <1>1
  <2> HIDE DEF m
  <2>4. DaaResult = (m + k) % 256
    BY <2>1, <2>2, <2>3, RemainderAdds
  <2> QED
    BY <2>4 DEF m, k
<1> DEFINE lo == IF l > 9 THEN l - 10 ELSE l
           g == IF l > 9 THEN h + 1 ELSE h
           hi == IF 10*h + l > 99 THEN g - 10 ELSE g
<1>6. lo \in 0..9 /\ g \in Int /\ 10*h + l = 10*g + lo /\ (10*h + l > 99 <=> g > 9)
  BY <1>1
<1>7. hi \in 0..9
  BY <1>1, <1>6
<1>8. DaaResult = 16*hi + lo
  BY <1>1, <1>5, <1>6
<1>9. (10*h + l) % 100 = 10*hi + lo
  BY <1>1, <1>6, <1>7
<1> HIDE DEF lo, hi
<1>10. Decimal(DaaResult) /\ Value(DaaResult) = (10*h + l) % 100
  <2>1. hi \in 0..9 /\ lo \in 0..9
    BY <1>6, <1>7
  <2>2. (16*hi + lo) % 16 = lo /\ (16*hi + lo) \div 16 = hi
    BY <2>1
  <2>3. lo < 10 /\ hi < 10
    BY <2>1
  <2> QED
    BY <1>8, <1>9, <2>2, <2>3 DEF Decimal, Value
<1> QED
  BY <1>3, <1>10

(* DAA after a difference whose digits differ by h and l. *)
LEMMA DaaOfDifference ==
  ASSUME NEW l \in -10..9, NEW h \in -9..9,
         A = (16*h + l) % 256, F.N = 1, F.H = Flag(l < 0), F.C = Flag(16*h + l < 0)
  PROVE  /\ Decimal(DaaResult) /\ Value(DaaResult) = (10*h + l) % 100
         /\ (A > 153 \/ F.C = 1) <=> 10*h + l < 0
<1>1. l \in -10..9 /\ h \in -9..9 /\ A = (16*h + l) % 256
  OBVIOUS
<1>3. (A > 153 \/ F.C = 1) <=> 10*h + l < 0
  BY <1>1 DEF Flag
<1>4. (A % 16 > 9 \/ F.H = 1) <=> l < 0
  BY <1>1 DEF Flag
<1>5. DaaResult = ((16*h + l) - ((IF 10*h + l < 0 THEN 96 ELSE 0) + (IF l < 0 THEN 6 ELSE 0))) % 256
  <2> DEFINE k == (IF 10*h + l < 0 THEN 96 ELSE 0) + (IF l < 0 THEN 6 ELSE 0)
  <2>1. k = DaaAdjustment /\ k \in Int
    BY <1>3, <1>4 DEF DaaAdjustment
  <2>2. DaaResult = (A - k) % 256
    BY <2>1 DEF DaaResult
  <2> HIDE DEF k
  <2> DEFINE m == 16*h + l
  <2>3. A = m % 256 /\ m \in Int
    BY <1>1
  <2> HIDE DEF m
  <2>4. DaaResult = (m - k) % 256
    BY <2>1, <2>2, <2>3, RemainderAdds
  <2> QED
    BY <2>4 DEF m, k
<1> DEFINE lo == IF l < 0 THEN l + 10 ELSE l
           g == IF l < 0 THEN h - 1 ELSE h
           hi == IF 10*h + l < 0 THEN g + 10 ELSE g
<1>6. lo \in 0..9 /\ g \in Int /\ 10*h + l = 10*g + lo /\ (10*h + l < 0 <=> g < 0)
  BY <1>1
<1>7. hi \in 0..9
  BY <1>1, <1>6
<1>8. DaaResult = 16*hi + lo
  BY <1>1, <1>5, <1>6
<1>9. (10*h + l) % 100 = 10*hi + lo
  BY <1>1, <1>6, <1>7
<1> HIDE DEF lo, hi
<1>10. Decimal(DaaResult) /\ Value(DaaResult) = (10*h + l) % 100
  <2>1. hi \in 0..9 /\ lo \in 0..9
    BY <1>6, <1>7
  <2>2. (16*hi + lo) % 16 = lo /\ (16*hi + lo) \div 16 = hi
    BY <2>1
  <2>3. lo < 10 /\ hi < 10
    BY <2>1
  <2> QED
    BY <1>8, <1>9, <2>2, <2>3 DEF Decimal, Value
<1> QED
  BY <1>3, <1>10

LEMMA DigitsOf ==
  ASSUME NEW v \in Byte, Decimal(v)
  PROVE  /\ v \div 16 \in 0..9 /\ v % 16 \in 0..9
         /\ v = 16 * (v \div 16) + (v % 16)
BY DEF Decimal, Byte

(* The cases of DecimalExact: an addition or a subtraction of two decimal  *)
(* numbers, and DAA.                                                       *)
First == entered.program[1].name
Second == IF entered.program[1].on = "A" THEN entered.start.A ELSE entered.start.x
CarriedIn == IF First \in {"ADC", "SBC"} THEN entered.start.F.C ELSE 0
IsDecimal ==
  /\ Len(entered.program) = 2
  /\ First \in {"ADD", "ADC", "SUB", "SBC"} /\ entered.program[2].name = "DAA"
  /\ Decimal(entered.start.A) /\ Decimal(Second)

(* After the first instruction, DAA finds the binary result in A, and in   *)
(* the flags what has to be adjusted.                                      *)
ToAdjust ==
  LET a == entered.start.A IN
  /\ First \in {"ADD", "ADC"} =>
       /\ A = (a + Second + CarriedIn) % 256
       /\ F.N = 0
       /\ F.H = Flag((a % 16) + (Second % 16) + CarriedIn >= 16)
       /\ F.C = Flag(a + Second + CarriedIn >= 256)
  /\ First \in {"SUB", "SBC"} =>
       /\ A = (a - Second - CarriedIn) % 256
       /\ F.N = 1
       /\ F.H = Flag((a % 16) < (Second % 16) + CarriedIn)
       /\ F.C = Flag(a < Second + CarriedIn)

(* After DAA, A and C hold the decimal result. *)
Adjusted ==
  LET sum == Value(entered.start.A) + Value(Second) + CarriedIn
      difference == Value(entered.start.A) - Value(Second) - CarriedIn
  IN  /\ Decimal(A)
      /\ First \in {"ADD", "ADC"} => Value(A) = sum % 100 /\ F.C = Flag(sum > 99)
      /\ First \in {"SUB", "SBC"} => Value(A) = difference % 100 /\ F.C = Flag(difference < 0)

(* The inductive invariant: how far the program has come. *)
DecimalInv ==
  /\ entered \in Cases
  /\ IsDecimal =>
       \/ program = entered.program /\ A = entered.start.A /\ F = entered.start.F /\ x = entered.start.x
       \/ program = Tail(entered.program) /\ ToAdjust
       \/ program = <<>> /\ Adjusted

LEMMA TwoLong ==
  ASSUME NEW e \in Seq(Instruction), Len(e) = 2
  PROVE  /\ e # <<>> /\ Head(e) = e[1]
         /\ Tail(e) # <<>> /\ Head(Tail(e)) = e[2]
         /\ Tail(Tail(e)) = <<>>
<1> DEFINE t == Tail(e)
<1>1. e # <<>> /\ Head(e) = e[1]
  OBVIOUS
<1>2. /\ t \in Seq(Instruction) /\ Len(t) = Len(e) - 1
      /\ \A i \in 1..Len(t) : t[i] = e[i+1]
  <2>1. t \in Seq(Instruction) /\ Len(t) = Len(e) - 1
    BY <1>1, HeadTailProperties
  <2>2. \A i \in 1..Len(t) : t[i] = e[i+1]
    BY <1>1, HeadTailProperties
  <2> QED
    BY <2>1, <2>2
<1> HIDE DEF t
<1>3. Len(t) = 1 /\ t[1] = e[1+1]
  BY <1>2
<1>4. t # <<>> /\ Head(t) = e[2]
  <2>1. t # <<>> /\ Head(t) = t[1]
    <3>1. t \in Seq(Instruction) /\ Len(t) = 1
      BY <1>2, <1>3
    <3> QED
      BY <3>1
  <2>2. t[1] = e[2]
    BY <1>3
  <2> QED
    BY <2>1, <2>2
<1>5. Tail(t) \in Seq(Instruction) /\ Len(Tail(t)) = 0
  BY <1>2, <1>3, <1>4, HeadTailProperties
<1>6. Tail(t) = <<>>
  BY <1>5, EmptySeq
<1> QED
  BY <1>1, <1>4, <1>6 DEF t

(* An instruction that is executed is the next of the program. *)
LEMMA ExecutesHead ==
  ASSUME Next
  PROVE  /\ program # <<>> /\ program' = Tail(program) /\ entered' = entered
         /\ before'.name = Head(program).name
<1>1. PICK name \in Names : Executes(name)
  BY NextExecutes
<1> QED
  BY <1>1 DEF Executes

LEMMA StartTyped ==
  ASSUME entered \in Cases
  PROVE  /\ entered.program \in Seq(Instruction)
         /\ entered.start.A \in Byte /\ Second \in Byte
         /\ entered.start.F \in FlagBits /\ CarriedIn \in 0..1
<1>1. entered.start \in Registers /\ entered.program \in Seq(Instruction)
  BY CasesAssumption
<1>2. entered.start.A \in Byte /\ entered.start.x \in Byte /\ entered.start.F \in FlagBits
  BY <1>1 DEF Registers
<1> QED
  BY <1>1, <1>2 DEF Second, CarriedIn, FlagBits, FlagNames

LEMMA FirstStep ==
  ASSUME TypeOK, entered \in Cases, IsDecimal, Next,
         program = entered.program, A = entered.start.A, F = entered.start.F, x = entered.start.x
  PROVE  program' = Tail(entered.program) /\ ToAdjust'
<1>1. /\ before'.name = First /\ program' = Tail(entered.program) /\ entered' = entered
  BY ExecutesHead, StartTyped, TwoLong DEF IsDecimal, First
<1>2. Operand = Second
  BY ExecutesHead, StartTyped, TwoLong DEF IsDecimal, Operand, Second
<1>3. /\ A \in Size(8) /\ Second \in Size(8) /\ CarriedIn \in 0..1
  BY <1>2, Sizes, StartTyped
<1>4. First' = First /\ Second' = Second /\ CarriedIn' = CarriedIn
  BY <1>1 DEF First, Second, CarriedIn
<1>5. Power(8) = 256 /\ Power(4) = 16
  BY DEF Power
<1>6. CASE First \in {"ADD", "ADC"}
  <2> DEFINE r == Sum(8, A, Second, CarriedIn)
  <2>1. A' = r.v /\ F' = r.f
    <3>1. CASE First = "ADD"
      <4>1. Add /\ CarriedIn = 0
        BY <1>1, <3>1, LastTells DEF CarriedIn
      <4> QED
        BY <1>2, <4>1 DEF Add, ToA
    <3>2. CASE First = "ADC"
      <4>1. Adc /\ CarriedIn = F.C
        BY <1>1, <3>2, LastTells DEF CarriedIn
      <4> QED
        BY <1>2, <4>1 DEF Adc, ToA
    <3> QED
      BY <1>6, <3>1, <3>2
  <2>2. /\ r.v = (A + Second + CarriedIn) % Power(8)
        /\ \A n \in Documented : r.f[n] = SumFlags(8, A, Second, CarriedIn, r.v)[n]
    BY <1>3, SumIsExact
  <2> HIDE DEF r
  <2>3. /\ F'.N = 0
        /\ F'.H = Flag((A % 16) + (Second % 16) + CarriedIn >= 16)
        /\ F'.C = Flag(A + Second + CarriedIn >= 256)
    BY <1>5, <2>1, <2>2 DEF Documented, SumFlags, Low
  <2>4. A' = (A + Second + CarriedIn) % 256
    BY <1>5, <2>1, <2>2
  <2> QED
    BY <1>1, <1>4, <1>6, <2>3, <2>4 DEF ToAdjust
<1>7. CASE First \in {"SUB", "SBC"}
  <2> DEFINE r == Difference(8, A, Second, CarriedIn)
  <2>1. A' = r.v /\ F' = r.f
    <3>1. CASE First = "SUB"
      <4>1. Sub /\ CarriedIn = 0
        BY <1>1, <3>1, LastTells DEF CarriedIn
      <4> QED
        BY <1>2, <4>1 DEF Sub, ToA
    <3>2. CASE First = "SBC"
      <4>1. Sbc /\ CarriedIn = F.C
        BY <1>1, <3>2, LastTells DEF CarriedIn
      <4> QED
        BY <1>2, <4>1 DEF Sbc, ToA
    <3> QED
      BY <1>7, <3>1, <3>2
  <2>2. /\ r.v = (A - Second - CarriedIn) % Power(8)
        /\ \A n \in Documented : r.f[n] = DifferenceFlags(8, A, Second, CarriedIn, r.v)[n]
    BY <1>3, DifferenceIsExact
  <2> HIDE DEF r
  <2>3. /\ F'.N = 1
        /\ F'.H = Flag((A % 16) < (Second % 16) + CarriedIn)
        /\ F'.C = Flag(A < Second + CarriedIn)
    BY <1>5, <2>1, <2>2 DEF Documented, DifferenceFlags, Low
  <2>4. A' = (A - Second - CarriedIn) % 256
    BY <1>5, <2>1, <2>2
  <2> QED
    BY <1>1, <1>4, <1>7, <2>3, <2>4 DEF ToAdjust
<1> QED
  BY <1>1, <1>6, <1>7 DEF IsDecimal

LEMMA SecondStep ==
  ASSUME TypeOK, entered \in Cases, IsDecimal, Next,
         program = Tail(entered.program), ToAdjust
  PROVE  program' = <<>> /\ Adjusted'
<1>1. before'.name = "DAA" /\ program' = <<>> /\ entered' = entered
  BY ExecutesHead, StartTyped, TwoLong DEF IsDecimal
<1>2. A' = DaaResult /\ F'.C = IF A > 153 \/ F.C = 1 THEN 1 ELSE 0
  BY <1>1, LastTells DEF Daa, ToA, FlagsOf
<1>3. First' = First /\ Second' = Second /\ CarriedIn' = CarriedIn
  BY <1>1 DEF First, Second, CarriedIn
<1> DEFINE p1 == entered.start.A \div 16
           p0 == entered.start.A % 16
           q1 == Second \div 16
           q0 == Second % 16
           c == CarriedIn
<1>4. p1 \in 0..9 /\ p0 \in 0..9 /\ q1 \in 0..9 /\ q0 \in 0..9 /\ c \in 0..1
  BY StartTyped, DigitsOf DEF IsDecimal
<1>5. entered.start.A = 16*p1 + p0 /\ Second = 16*q1 + q0
  BY StartTyped, DigitsOf DEF IsDecimal
<1>6. Value(entered.start.A) = 10*p1 + p0 /\ Value(Second) = 10*q1 + q0
  BY DEF Value
<1>7. CASE First \in {"ADD", "ADC"}
  <2>1. /\ A = (entered.start.A + Second + c) % 256
        /\ F.N = 0
        /\ F.H = Flag(p0 + q0 + c >= 16)
        /\ F.C = Flag(entered.start.A + Second + c >= 256)
    BY <1>7 DEF ToAdjust
  <2> HIDE DEF p1, p0, q1, q0, c
  <2>2. /\ A = ((16*p1 + p0) + (16*q1 + q0) + c) % 256
        /\ F.N = 0 /\ F.H = Flag(p0 + q0 + c >= 16)
        /\ F.C = Flag((16*p1 + p0) + (16*q1 + q0) + c >= 256)
    BY <1>5, <2>1
  <2> DEFINE l == p0 + q0 + c
             h == p1 + q1
             n == 10*h + l
  <2>3. l \in 0..19 /\ h \in 0..18
    BY <1>4
  <2>4. /\ (16*p1 + p0) + (16*q1 + q0) + c = 16*h + l
        /\ p0 + q0 + c >= 16 <=> l >= 16
        /\ (16*p1 + p0) + (16*q1 + q0) + c >= 256 <=> 16*h + l >= 256
    BY <1>4
  <2>5. n = Value(entered.start.A) + Value(Second) + CarriedIn
    BY <1>4, <1>6 DEF c
  <2> HIDE DEF l, h
  <2>6. A = (16*h + l) % 256 /\ F.N = 0 /\ F.H = Flag(l >= 16) /\ F.C = Flag(16*h + l >= 256)
    BY <2>2, <2>4 DEF Flag
  <2>7. /\ Decimal(DaaResult) /\ Value(DaaResult) = n % 100
        /\ (A > 153 \/ F.C = 1) <=> n > 99
    BY <2>3, <2>6, DaaOfSum
  <2> HIDE DEF n
  <2>8. Decimal(A') /\ Value(A') = n % 100 /\ F'.C = Flag(n > 99)
    BY <1>2, <2>7 DEF Flag
  <2> QED
    BY <1>1, <1>3, <1>7, <2>5, <2>8 DEF Adjusted
<1>8. CASE First \in {"SUB", "SBC"}
  <2>1. /\ A = (entered.start.A - Second - c) % 256
        /\ F.N = 1
        /\ F.H = Flag(p0 < q0 + c)
        /\ F.C = Flag(entered.start.A < Second + c)
    BY <1>8 DEF ToAdjust
  <2> HIDE DEF p1, p0, q1, q0, c
  <2>2. /\ A = ((16*p1 + p0) - (16*q1 + q0) - c) % 256
        /\ F.N = 1 /\ F.H = Flag(p0 < q0 + c)
        /\ F.C = Flag(16*p1 + p0 < (16*q1 + q0) + c)
    BY <1>5, <2>1
  <2> DEFINE l == p0 - q0 - c
             h == p1 - q1
             n == 10*h + l
  <2>3. l \in -10..9 /\ h \in -9..9
    BY <1>4
  <2>4. /\ (16*p1 + p0) - (16*q1 + q0) - c = 16*h + l
        /\ p0 < q0 + c <=> l < 0
        /\ 16*p1 + p0 < (16*q1 + q0) + c <=> 16*h + l < 0
    BY <1>4
  <2>5. n = Value(entered.start.A) - Value(Second) - CarriedIn
    BY <1>4, <1>6 DEF c
  <2> HIDE DEF l, h
  <2>6. A = (16*h + l) % 256 /\ F.N = 1 /\ F.H = Flag(l < 0) /\ F.C = Flag(16*h + l < 0)
    BY <2>2, <2>4 DEF Flag
  <2>7. /\ Decimal(DaaResult) /\ Value(DaaResult) = n % 100
        /\ (A > 153 \/ F.C = 1) <=> n < 0
    BY <2>3, <2>6, DaaOfDifference
  <2> HIDE DEF n
  <2>8. Decimal(A') /\ Value(A') = n % 100 /\ F'.C = Flag(n < 0)
    BY <1>2, <2>7 DEF Flag
  <2> QED
    BY <1>1, <1>3, <1>8, <2>5, <2>8 DEF Adjusted
<1> QED
  BY <1>1, <1>7, <1>8 DEF IsDecimal

LEMMA InitDecimal == Init => DecimalInv
BY DEF Init, DecimalInv

LEMMA NextDecimal == TypeOK /\ DecimalInv /\ [Next]_vars => DecimalInv'
<1> SUFFICES ASSUME TypeOK, DecimalInv, [Next]_vars PROVE DecimalInv'
  OBVIOUS
<1>1. CASE Next
  <2>1. entered \in Cases /\ entered' = entered /\ program # <<>>
    BY <1>1, ExecutesHead DEF DecimalInv
  <2>2. IsDecimal' <=> IsDecimal
    BY <2>1 DEF IsDecimal, First, Second
  <2>3. IsDecimal => \/ program' = Tail(entered.program) /\ ToAdjust'
                     \/ program' = <<>> /\ Adjusted'
    BY <1>1, <2>1, FirstStep, SecondStep DEF DecimalInv
  <2> QED
    BY <2>1, <2>2, <2>3 DEF DecimalInv
<1>2. CASE UNCHANGED vars
  <2>1. A' = A /\ F' = F /\ x' = x /\ program' = program /\ entered' = entered
    BY <1>2 DEF vars, registers
  <2>2. /\ IsDecimal' <=> IsDecimal
        /\ ToAdjust' <=> ToAdjust
        /\ Adjusted' <=> Adjusted
    BY <2>1 DEF IsDecimal, ToAdjust, Adjusted, First, Second, CarriedIn
  <2> QED
    BY <2>1, <2>2 DEF DecimalInv
<1> QED
  BY <1>1, <1>2

(* A program has the names of a pair only if it is of length 2. *)
LEMMA FinishedPair ==
  ASSUME NEW e \in Seq(Instruction), NEW n, NEW m,
         [i \in DOMAIN e |-> e[i].name] = <<n, m>>
  PROVE  Len(e) = 2 /\ e[1].name = n /\ e[2].name = m
<1>1. DOMAIN e = 1..Len(e) /\ Len(e) \in Nat
  BY LenProperties
<1>2. DOMAIN <<n, m>> = 1..2 /\ <<n, m>>[1] = n /\ <<n, m>>[2] = m
  OBVIOUS
<1>3. DOMAIN [i \in DOMAIN e |-> e[i].name] = DOMAIN e
  OBVIOUS
<1>4. 1..Len(e) = 1..2
  BY <1>1, <1>2, <1>3
<1>5. Len(e) = 2
  BY <1>1, <1>4
<1> QED
  BY <1>1, <1>2, <1>5

LEMMA ValueRange ==
  ASSUME NEW v \in Byte, Decimal(v)
  PROVE  Value(v) \in 0..99
<1>1. v \div 16 \in 0..9 /\ v % 16 \in 0..9
  BY DigitsOf
<1>2. \A i, j \in 0..9 : 10*i + j \in 0..99
  OBVIOUS
<1> QED
  BY <1>1, <1>2 DEF Value

LEMMA DecimalIsExact == TypeOK /\ DecimalInv => DecimalExact
<1> SUFFICES ASSUME TypeOK, DecimalInv, Decimal(entered.start.A), Decimal(Second)
             PROVE  DecimalExact
  BY DEF DecimalExact, Second
<1> DEFINE sum == Value(entered.start.A) + Value(Second) + CarriedIn
           difference == Value(entered.start.A) - Value(Second) - CarriedIn
           Becomes(n) == Decimal(A) /\ Value(A) = n % 100 /\ F.C = Flag(n \notin 0..99)
<1>1. entered.program \in Seq(Instruction)
  BY StartTyped DEF DecimalInv
<1>2. sum \in Nat /\ difference \in Int /\ difference <= 99
  <2>1. /\ Value(entered.start.A) \in 0..99
        /\ Value(Second) \in 0..99
        /\ CarriedIn \in 0..1
    BY StartTyped, ValueRange DEF DecimalInv
  <2> DEFINE u == Value(entered.start.A)
             w == Value(Second)
             c == CarriedIn
  <2> HIDE DEF u, w, c
  <2>2. u \in 0..99 /\ w \in 0..99 /\ c \in 0..1
    BY <2>1 DEF u, w, c
  <2>3. u + w + c \in Nat /\ u - w - c \in Int /\ u - w - c <= 99
    BY <2>2
  <2> QED
    BY <2>3 DEF u, w, c
<1>3. ASSUME NEW n \in {"ADD", "ADC", "SUB", "SBC"}, Finished({<<n, "DAA">>})
      PROVE  First = n /\ Adjusted
  <2>1. program = <<>> /\ [i \in DOMAIN entered.program |-> entered.program[i].name] = <<n, "DAA">>
    BY <1>3 DEF Finished
  <2>2. Len(entered.program) = 2 /\ First = n /\ entered.program[2].name = "DAA"
    BY <1>1, <2>1, FinishedPair DEF First
  <2>3. IsDecimal
    BY <2>2 DEF IsDecimal
  <2>4. entered.program # <<>> /\ Tail(entered.program) # <<>>
    BY <1>1, <2>2, TwoLong
  <2> QED
    BY <2>1, <2>2, <2>3, <2>4 DEF DecimalInv
<1>4. ASSUME Finished({<<"ADD", "DAA">>, <<"ADC", "DAA">>})
      PROVE  Becomes(sum)
  <2>1. Finished({<<"ADD", "DAA">>}) \/ Finished({<<"ADC", "DAA">>})
    BY <1>4 DEF Finished
  <2>2. First \in {"ADD", "ADC"} /\ Adjusted
    BY <1>3, <2>1
  <2>3. Decimal(A) /\ Value(A) = sum % 100 /\ F.C = Flag(sum > 99)
    BY <2>2 DEF Adjusted
  <2>4. sum > 99 <=> sum \notin 0..99
    BY <1>2
  <2> QED
    BY <2>3, <2>4 DEF Flag
<1>5. ASSUME Finished({<<"SUB", "DAA">>, <<"SBC", "DAA">>})
      PROVE  Becomes(difference)
  <2>1. Finished({<<"SUB", "DAA">>}) \/ Finished({<<"SBC", "DAA">>})
    BY <1>5 DEF Finished
  <2>2. First \in {"SUB", "SBC"} /\ Adjusted
    BY <1>3, <2>1
  <2>3. Decimal(A) /\ Value(A) = difference % 100 /\ F.C = Flag(difference < 0)
    BY <2>2 DEF Adjusted
  <2>4. difference < 0 <=> difference \notin 0..99
    BY <1>2
  <2> QED
    BY <2>3, <2>4 DEF Flag
<1> QED
  BY <1>4, <1>5 DEF DecimalExact, Second, CarriedIn, First

(* DAA after an addition or subtraction of any two decimal numbers, with   *)
(* any carry, leaves the decimal result and its carry or borrow: whatever  *)
(* the digits, H, N, C and the ranges that DAA tests fit together.         *)
THEOREM DecimalCorrect == Spec => []DecimalExact
BY InitDecimal, NextDecimal, DecimalIsExact, TypeCorrect, PTL DEF Spec
===============================================================================
