--------------------------------- MODULE Alu ---------------------------------
(***************************************************************************)
(* The arithmetic, logic, rotate and bit instructions of the emulated Z80: *)
(* the macros of macros.h and the cases of z80emu.c that use them.  A      *)
(* guest program is a sequence of such instructions.  Flags are the        *)
(* fields of a record, each 0 or 1.                                        *)
(***************************************************************************)
EXTENDS Integers, Sequences

CONSTANT Cases  \* programs with the registers they start from

VARIABLES
  A, F,     \* accumulator and flags
  x,        \* the operand: another register, or the byte (HL) points to
  HL, rr,   \* HL, or IX or IY; the other word
  program,  \* instructions still to be executed
  entered,  \* the case this is
  before    \* the registers before the last instruction, and its name

registers == <<A, F, x, HL, rr>>
vars == <<registers, program, entered, before>>

Byte == 0..255
Word == 0..65535
FlagNames == {"S", "Z", "Y", "H", "X", "PV", "N", "C"}
FlagBits == [FlagNames -> 0..1]
Registers == [A : Byte, F : FlagBits, x : Byte, HL : Word, rr : Word]
Bits == 0..7

(* An instruction has a name, a place of its operand, "A" or "x", and the  *)
(* number of the bit it names.                                             *)
Names ==
  {"ADD", "ADC", "SUB", "SBC", "CP", "AND", "XOR", "OR", "INC", "DEC",
   "NEG", "CPL", "SCF", "CCF", "DAA", "RLCA", "RLA", "RRCA", "RRA",
   "RLC", "RL", "SLA", "SLL", "RRC", "RR", "SRA", "SRL", "RLD", "RRD",
   "BIT", "SET", "RES", "ADD HL", "ADC HL", "SBC HL", "INC HL", "DEC HL"}
Instruction == [name : Names, on : {"A", "x"}, bit : Bits]

ASSUME CasesAssumption ==
  \A c \in Cases : c.start \in Registers /\ c.program \in Seq(Instruction)

(* Results keep the width of their registers, and flags are bits. *)
TypeOK ==
  /\ A \in Byte /\ F \in FlagBits /\ x \in Byte /\ HL \in Word /\ rr \in Word
  /\ program \in Seq(Instruction)
  /\ before \in [name : Names \cup {"none"}, operand : Byte, start : Registers]

Current == [A |-> A, F |-> F, x |-> x, HL |-> HL, rr |-> rr]

Init ==
  /\ entered \in Cases
  /\ program = entered.program
  /\ A = entered.start.A /\ F = entered.start.F /\ x = entered.start.x
  /\ HL = entered.start.HL /\ rr = entered.start.rr
  /\ before = [name |-> "none", operand |-> 0, start |-> entered.start]

-----------------------------------------------------------------------------
(* Flags and results.                                                      *)

(* 2^k: what a shift by k bits multiplies or divides by. *)
Power(k) == <<1, 2, 4, 8, 16, 32, 64, 128, 256, 512, 1024, 2048, 4096, 8192, 16384, 32768, 65536>>[k + 1]

(* Bit k of a number, of a negative one in two's complement. *)
Bit(n, k) == (n \div Power(k)) % 2

FromBits(b) == b[0] + 2*b[1] + 4*b[2] + 8*b[3] + 16*b[4] + 32*b[5] + 64*b[6] + 128*b[7]

Parity(v) == (1 + Bit(v, 0) + Bit(v, 1) + Bit(v, 2) + Bit(v, 3)
                + Bit(v, 4) + Bit(v, 5) + Bit(v, 6) + Bit(v, 7)) % 2

(* SZYX_FLAGS_TABLE for a result v of w bits, with the other flags. *)
FlagsOf(w, v, h, pv, n, c) ==
  [S |-> Bit(v, w-1), Z |-> IF v = 0 THEN 1 ELSE 0, Y |-> Bit(v, w-3), X |-> Bit(v, w-5),
   H |-> h, PV |-> pv, N |-> n, C |-> c]

(* Y and X are those of v, H, N and C are given, and S, Z and PV stay. *)
KeepSZP(w, v, h, n, c) ==
  [F EXCEPT !.Y = Bit(v, w-3), !.X = Bit(v, w-5), !.H = h, !.N = n, !.C = c]

(* Bit k of a ^ b ^ z: the carry or borrow into bit k. *)
Carry(a, b, z, k) == (Bit(a, k) + Bit(b, k) + Bit(z, k)) % 2

(* Faulty: the carry out of the sign alone. *)
OverflowByCarry(a, b, z, w) == Carry(a, b, z, w)

(* OVERFLOW_TABLE of the carries into and out of the sign. *)
Overflow(a, b, z, w) == (Carry(a, b, z, w-1) + Carry(a, b, z, w)) % 2

(* A result z of two operands a and b of w bits, and the flags it sets. *)
Result(w, a, b, z, n) ==
  [v |-> z % Power(w),
   f |-> FlagsOf(w, z % Power(w), Carry(a, b, z, w-4), Overflow(a, b, z, w), n, Carry(a, b, z, w))]
Sum(w, a, b, c) == Result(w, a, b, a + b + c, 0)
Difference(w, a, b, c) == Result(w, a, b, a - b - c, 1)

Bitwise(v, h) == [v |-> v, f |-> FlagsOf(8, v, h, Parity(v), 0, 0)]

(* The int z of a shift can have a ninth bit, which the index of the flag  *)
(* table and the store into the register or the memory each cut off.       *)
Shifted(z, c) ==
  [v |-> z % 256, f |-> FlagsOf(8, z % 256, 0, Parity(z % 256), 0, c)]
-----------------------------------------------------------------------------
(* Instructions.                                                           *)

Operand == IF Head(program).on = "A" THEN A ELSE x

Executes(name) ==
  /\ program # <<>>
  /\ Head(program).name = name
  /\ program' = Tail(program)
  /\ before' = [name |-> name, operand |-> Operand, start |-> Current]
  /\ UNCHANGED entered

(* The result goes to A, to the operand, or to HL. *)
ToA(name, r) == Executes(name) /\ A' = r.v /\ F' = r.f /\ UNCHANGED <<x, HL, rr>>
ToOperand(name, r) ==
  /\ Executes(name)
  /\ F' = r.f
  /\ IF Head(program).on = "A" THEN A' = r.v /\ x' = x ELSE A' = A /\ x' = r.v
  /\ UNCHANGED <<HL, rr>>
ToHL(name, r) == Executes(name) /\ HL' = r.v /\ F' = r.f /\ UNCHANGED <<A, x, rr>>

(* 8-bit arithmetic and logic. *)
Add == ToA("ADD", Sum(8, A, Operand, 0))
Adc == ToA("ADC", Sum(8, A, Operand, F.C))
Sub == ToA("SUB", Difference(8, A, Operand, 0))
Sbc == ToA("SBC", Difference(8, A, Operand, F.C))

(* CP takes Y and X from the operand. *)
Cp == ToA("CP", [v |-> A, f |-> [Difference(8, A, Operand, 0).f EXCEPT
                                   !.Y = Bit(Operand, 5), !.X = Bit(Operand, 3)]])

And == ToA("AND", Bitwise(FromBits([k \in Bits |-> Bit(A, k) * Bit(Operand, k)]), 1))
Xor == ToA("XOR", Bitwise(FromBits([k \in Bits |-> (Bit(A, k) + Bit(Operand, k)) % 2]), 0))
Or == ToA("OR", Bitwise(FromBits([k \in Bits |->
                          IF Bit(A, k) + Bit(Operand, k) > 0 THEN 1 ELSE 0]), 0))

(* INC and DEC keep C. *)
KeepC(r) == [v |-> r.v, f |-> [r.f EXCEPT !.C = F.C]]
Inc == ToOperand("INC", KeepC(Sum(8, Operand, 0, 1)))
Dec == ToOperand("DEC", KeepC(Difference(8, Operand, 0, 1)))

(* Accumulator and flags. *)
Neg == ToA("NEG", Difference(8, 0, A, 0))
Cpl == ToA("CPL", [v |-> 255 - A, f |-> KeepSZP(8, 255 - A, 1, 1, F.C)])
Scf == ToA("SCF", [v |-> A, f |-> KeepSZP(8, A, 0, 0, 1)])
Ccf == ToA("CCF", [v |-> A, f |-> KeepSZP(8, A, F.C, 0, 1 - F.C)])

(* Faulty: the lower digit is adjusted above 10 only. *)
DaaAdjustmentLate ==
  (IF A > 153 \/ F.C = 1 THEN 96 ELSE 0) + (IF A % 16 > 10 \/ F.H = 1 THEN 6 ELSE 0)

DaaAdjustment ==
  (IF A > 153 \/ F.C = 1 THEN 96 ELSE 0) + (IF A % 16 > 9 \/ F.H = 1 THEN 6 ELSE 0)
DaaResult == (IF F.N = 1 THEN A - DaaAdjustment ELSE A + DaaAdjustment) % 256
Daa == ToA("DAA",
  [v |-> DaaResult,
   f |-> FlagsOf(8, DaaResult, (Bit(DaaResult, 4) + Bit(A, 4)) % 2, Parity(DaaResult), F.N,
                 IF A > 153 \/ F.C = 1 THEN 1 ELSE 0)])

(* Faulty: the bit that is shifted in is the one that is shifted out. *)
RotateLeftCircular(v, in) == 2*v + Bit(v, 7)

(* Rotates and shifts: by one bit to either side, with the bit shifted in; *)
(* to the left, an int that keeps the bit shifted out.                     *)
LeftWith(v, in) == 2*v + in
RightWith(v, in) == v \div 2 + 128*in

Rlc == ToOperand("RLC", Shifted(LeftWith(Operand, Bit(Operand, 7)), Bit(Operand, 7)))
Rl == ToOperand("RL", Shifted(LeftWith(Operand, F.C), Bit(Operand, 7)))
Sla == ToOperand("SLA", Shifted(LeftWith(Operand, 0), Bit(Operand, 7)))
Sll == ToOperand("SLL", Shifted(LeftWith(Operand, 1), Bit(Operand, 7)))
Rrc == ToOperand("RRC", Shifted(RightWith(Operand, Bit(Operand, 0)), Bit(Operand, 0)))
Rr == ToOperand("RR", Shifted(RightWith(Operand, F.C), Bit(Operand, 0)))
Sra == ToOperand("SRA", Shifted(RightWith(Operand, Bit(Operand, 7)), Bit(Operand, 0)))
Srl == ToOperand("SRL", Shifted(RightWith(Operand, 0), Bit(Operand, 0)))

(* The one-byte rotates of A keep S, Z and PV. *)
AccumulatorShifted(z, c) == [v |-> z % 256, f |-> KeepSZP(8, z % 256, 0, 0, c)]
Rlca == ToA("RLCA", AccumulatorShifted(LeftWith(A, Bit(A, 7)), Bit(A, 7)))
Rla == ToA("RLA", AccumulatorShifted(LeftWith(A, F.C), Bit(A, 7)))
Rrca == ToA("RRCA", AccumulatorShifted(RightWith(A, Bit(A, 0)), Bit(A, 0)))
Rra == ToA("RRA", AccumulatorShifted(RightWith(A, F.C), Bit(A, 0)))

(* RLD and RRD: three digits, the lower one of A and both of (HL). *)
Digits(name, high, low) ==
  /\ Executes(name)
  /\ A' = high
  /\ x' = low
  /\ F' = FlagsOf(8, high, 0, Parity(high), 0, F.C)
  /\ UNCHANGED <<HL, rr>>
Rld == Digits("RLD", (A \div 16)*16 + (x \div 16), (x % 16)*16 + (A % 16))
Rrd == Digits("RRD", (A \div 16)*16 + (x % 16), (A % 16)*16 + (x \div 16))

(* Single bits.  BIT of the byte at an address takes Y and X from the       *)
(* address instead, which is not modelled.                                 *)
Named == Head(program).bit
BitTest == ToOperand("BIT",
  LET z == 1 - Bit(Operand, Named)
  IN  [v |-> Operand,
       f |-> [FlagsOf(8, Operand, 1, z, 0, F.C) EXCEPT
                !.Z = z, !.S = IF Named = 7 THEN 1 - z ELSE 0]])

SetBit == ToOperand("SET", [v |-> Operand + Power(Named) * (1 - Bit(Operand, Named)), f |-> F])
ResBit == ToOperand("RES", [v |-> Operand - Power(Named) * Bit(Operand, Named), f |-> F])

(* 16-bit arithmetic; ADD keeps S, Z and PV. *)
AddHL == ToHL("ADD HL", LET r == Sum(16, HL, rr, 0)
                        IN  [v |-> r.v, f |-> KeepSZP(16, r.v, r.f.H, 0, r.f.C)])

(* Faulty: the carry is left out. *)
AdcHLWithoutCarry == ToHL("ADC HL", Sum(16, HL, rr, 0))

AdcHL == ToHL("ADC HL", Sum(16, HL, rr, F.C))
SbcHL == ToHL("SBC HL", Difference(16, HL, rr, F.C))
IncHL == ToHL("INC HL", [v |-> (HL + 1) % Power(16), f |-> F])
DecHL == ToHL("DEC HL", [v |-> (HL - 1) % Power(16), f |-> F])

Arithmetic == Add \/ Adc \/ Sub \/ Sbc \/ Cp \/ And \/ Xor \/ Or \/ Inc \/ Dec
Accumulator == Neg \/ Cpl \/ Scf \/ Ccf \/ Daa \/ Rlca \/ Rla \/ Rrca \/ Rra
Shift == Rlc \/ Rl \/ Sla \/ Sll \/ Rrc \/ Rr \/ Sra \/ Srl \/ Rld \/ Rrd
SingleBit == BitTest \/ SetBit \/ ResBit
WordArithmetic == AddHL \/ AdcHL \/ SbcHL \/ IncHL \/ DecHL

Next == Arithmetic \/ Accumulator \/ Shift \/ SingleBit \/ WordArithmetic

Spec == Init /\ [][Next]_vars

-----------------------------------------------------------------------------
Signed(n, w) == IF n < Power(w-1) THEN n ELSE n - Power(w)
Fits(n, w) == -Power(w-1) <= n /\ n < Power(w-1)
Low(n, w) == n % Power(w-4)
Flag(b) == IF b THEN 1 ELSE 0

(* The flags of r = (a + b + c) mod Power(w) and of r = (a - b - c) mod Power(w), in *)
(* terms of unsigned and signed numbers.                                   *)
SumFlags(w, a, b, c, r) ==
  [S |-> Flag(Signed(r, w) < 0), Z |-> Flag(r = 0), N |-> 0,
   H |-> Flag(Low(a, w) + Low(b, w) + c >= Power(w-4)),
   PV |-> Flag(~Fits(Signed(a, w) + Signed(b, w) + c, w)),
   C |-> Flag(a + b + c >= Power(w))]
DifferenceFlags(w, a, b, c, r) ==
  [S |-> Flag(Signed(r, w) < 0), Z |-> Flag(r = 0), N |-> 1,
   H |-> Flag(Low(a, w) < Low(b, w) + c),
   PV |-> Flag(~Fits(Signed(a, w) - Signed(b, w) - c, w)),
   C |-> Flag(a < b + c)]
Agree(f, names) == \A n \in names : F[n] = f[n]

Documented == {"S", "Z", "H", "PV", "N", "C"}
LastIs(names) == before.name \in names
CarryIn == IF LastIs({"ADC", "SBC", "ADC HL", "SBC HL"}) THEN before.start.F.C ELSE 0

(* The comparisons programs make hold: after each 8-bit or 16-bit addition *)
(* or subtraction, C tells the unsigned and PV the signed overflow, H the  *)
(* one of the lower part, and S and Z the sign and the zero of the result, *)
(* although the code reads them all off the carries of one int (ADD, ADC,  *)
(* SUB, SBC, CP, INC and DEC of macros.h, NEG, and the 16-bit cases).      *)
SumExact ==
  LastIs({"ADD", "ADC"}) =>
    /\ A = (before.start.A + before.operand + CarryIn) % Power(8)
    /\ Agree(SumFlags(8, before.start.A, before.operand, CarryIn, A), Documented)
DifferenceExact ==
  LastIs({"SUB", "SBC", "CP"}) =>
    LET difference == (before.start.A - before.operand - CarryIn) % Power(8) IN
    /\ A = IF LastIs({"CP"}) THEN before.start.A ELSE difference
    /\ Agree(DifferenceFlags(8, before.start.A, before.operand, CarryIn, difference), Documented)
NegationExact ==
  LastIs({"NEG"}) =>
    /\ A = (-before.start.A) % Power(8)
    /\ Agree(DifferenceFlags(8, 0, before.start.A, 0, A), Documented)
CountExact ==
  LET b == before.operand IN
  /\ LastIs({"INC", "DEC"}) => F.C = before.start.F.C
  /\ LastIs({"INC"}) => Agree(SumFlags(8, b, 1, 0, (b + 1) % Power(8)), Documented \ {"C"})
  /\ LastIs({"DEC"}) => Agree(DifferenceFlags(8, b, 1, 0, (b - 1) % Power(8)), Documented \ {"C"})
WordSumExact ==
  LastIs({"ADD HL", "ADC HL"}) =>
    /\ HL = (before.start.HL + before.start.rr + CarryIn) % Power(16)
    /\ Agree(SumFlags(16, before.start.HL, before.start.rr, CarryIn, HL),
             IF LastIs({"ADC HL"}) THEN Documented ELSE {"H", "N", "C"})
WordDifferenceExact ==
  LastIs({"SBC HL"}) =>
    /\ HL = (before.start.HL - before.start.rr - CarryIn) % Power(16)
    /\ Agree(DifferenceFlags(16, before.start.HL, before.start.rr, CarryIn, HL), Documented)
ArithmeticExact ==
  /\ SumExact /\ DifferenceExact /\ NegationExact
  /\ CountExact /\ WordSumExact /\ WordDifferenceExact

Finished(names) == program = <<>> /\ [i \in DOMAIN entered.program |->
                                        entered.program[i].name] \in names

Decimal(n) == n % 16 < 10 /\ n \div 16 < 10
Value(n) == 10 * (n \div 16) + (n % 16)

(* Decimal arithmetic is exact: DAA after an addition or a subtraction of  *)
(* two numbers of two decimal digits leaves the digits of the result in A  *)
(* and its carry or borrow in C, for which the flags H, N and C of the     *)
(* first instruction and the ranges DAA tests have to fit (case DAA of     *)
(* z80emu.c and the macros before it).                                     *)
DecimalExact ==
  LET s == entered.start
      b == IF entered.program[1].on = "A" THEN s.A ELSE s.x
      c == IF entered.program[1].name \in {"ADC", "SBC"} THEN s.F.C ELSE 0
      sum == Value(s.A) + Value(b) + c
      difference == Value(s.A) - Value(b) - c
      Becomes(n) == Decimal(A) /\ Value(A) = n % 100 /\ F.C = Flag(n \notin 0..99)
  IN  Decimal(s.A) /\ Decimal(b) =>
        /\ Finished({<<"ADD", "DAA">>, <<"ADC", "DAA">>}) => Becomes(sum)
        /\ Finished({<<"SUB", "DAA">>, <<"SBC", "DAA">>}) => Becomes(difference)

(* Sequences of instructions that bring A, the operand and HL back, those  *)
(* through carry also C.                                                   *)
ThroughCarry == {<<"RL", "RR">>, <<"RR", "RL">>, [i \in 1..9 |-> "RL"], [i \in 1..9 |-> "RRA"]}
Undoing == ThroughCarry \cup
  {<<"RLC", "RRC">>, <<"RRC", "RLC">>, [i \in 1..8 |-> "RLCA"], [i \in 1..8 |-> "RRCA"],
   <<"RLD", "RRD">>, <<"RLD", "RLD", "RLD">>, <<"INC", "DEC">>, <<"INC HL", "DEC HL">>,
   <<"ADD", "SUB">>, <<"XOR", "XOR">>, <<"CPL", "CPL">>, <<"NEG", "NEG">>}

(* What is undone is as it was: rotates to both sides, eight or nine       *)
(* rotates to one side, three rotates of digits, and additions with the    *)
(* subtraction that follows lose no bit (the rotate macros of macros.h and *)
(* the cases of z80emu.c).                                                 *)
RoundTrips ==
  /\ Finished(Undoing) => /\ A = entered.start.A
                          /\ x = entered.start.x
                          /\ HL = entered.start.HL
  /\ Finished(ThroughCarry) => F.C = entered.start.F.C

(* The 16-bit instructions do what the 8-bit ones do in two steps, the low *)
(* bytes first and the high bytes with their carry: a program may use      *)
(* either, and the flags are those of the high bytes (cases ADD_HL_RR,     *)
(* ADC_HL_RR and SBC_HL_RR against ADC and SBC of macros.h).               *)
WordsByBytes ==
  LET s == before.start
      Bytes(low, high) == /\ HL = 256 * high.v + low.v
                          /\ Agree(high.f, {"Y", "H", "X", "N", "C"})
                          /\ ~LastIs({"ADD HL"}) => Agree(high.f, {"S", "PV"})
      sum == Sum(8, s.HL % 256, s.rr % 256, CarryIn)
      difference == Difference(8, s.HL % 256, s.rr % 256, CarryIn)
  IN  /\ LastIs({"ADD HL", "ADC HL"}) => Bytes(sum, Sum(8, s.HL \div 256, s.rr \div 256, sum.f.C))
      /\ LastIs({"SBC HL"}) =>
           Bytes(difference, Difference(8, s.HL \div 256, s.rr \div 256, difference.f.C))
=============================================================================
