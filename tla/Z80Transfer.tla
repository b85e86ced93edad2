----------------------------- MODULE Z80Transfer -----------------------------
(***************************************************************************)
(* The instructions of z80emu.c that move data and control: loads,         *)
(* exchanges, single block steps, bits set, reset and tested, jumps,       *)
(* calls, returns and ports, with every register, 64k of memory and the    *)
(* prefixes that replace HL by IX or IY.  A case is a program with the     *)
(* registers it starts from.  Cycles and interrupts are those of           *)
(* Z80Control.                                                             *)
(***************************************************************************)
EXTENDS Decode

CONSTANTS
  Memory0,   \* memory before a program is put into it
  Answer,    \* of each port that is read, what it puts in A
  Ticks,     \* clockticks, for port F1
  Served,    \* what the network service leaves in A
  Cases      \* programs to execute

Byte == 0..255
Word == 0..65535
Words == {"BC", "DE", "HL", "AF", "IX", "IY", "SP"}
Primed == {"BC", "DE", "HL", "AF"}
InPorts == {0, 1, 14, 240, 241}
OutPorts == {1, 10, 11, 12, 13, 15, 16, 240}

(* The processor.  Memory is kept as what differs from Memory0; "table" is *)
(* the word that the register table in use has for HL; "sent" is the last  *)
(* byte that reached a port.                                               *)
IsProcessor(c) ==
  /\ c \in [word : [Words -> Word], alternates : [Primed -> Word], i : Byte, r : Byte, pc : Word,
            iff1 : 0..1, iff2 : 0..1, table : {"HL", "IX", "IY"}, sent : Byte, memory : {c.memory}]
  /\ DOMAIN c.memory \subseteq Word
  /\ \A a \in DOMAIN c.memory : c.memory[a] \in Byte

ASSUME TransferAssumption ==
  /\ Memory0 \in [Word -> Byte]
  /\ Answer \in [InPorts \ {241} -> Byte] /\ Ticks \in Word /\ Served \in Byte
  /\ \A e \in Cases : IsProcessor(e.cpu) /\ e.limit \in Nat

VARIABLES
  cpu,
  entered,   \* the case this is
  steps,     \* instructions executed
  last       \* history: the last opcode and its table, and cpu before its effect

vars == <<cpu, entered, steps, last>>

(* The registers keep their widths and memory its range, whatever is       *)
(* pushed, added or counted, and no more is executed than the case allows. *)
TypeOK == IsProcessor(cpu) /\ steps \in 0..entered.limit

-----------------------------------------------------------------------------
(* Memory and registers.                                                   *)
Wrap(n) == n % 65536
Read(c, a) == IF Wrap(a) \in DOMAIN c.memory THEN c.memory[Wrap(a)] ELSE Memory0[Wrap(a)]
Write(c, a, v) ==
  [c EXCEPT !.memory = [b \in DOMAIN @ \cup {Wrap(a)} |-> IF b = Wrap(a) THEN v % 256 ELSE @[b]]]
ReadWord(c, a) == Read(c, a) + 256 * Read(c, a + 1)

(* Faulty: the high byte goes first. *)
WriteWordSwapped(c, a, v) == Write(Write(c, a, v \div 256), a + 1, v)

WriteWord(c, a, v) == Write(Write(c, a, v), a + 1, v \div 256)

Signed(b) == IF b < 128 THEN b ELSE b - 256
Power(k) == <<1, 2, 4, 8, 16, 32, 64, 128>>[k + 1]
Bit(n, k) == (n \div Power(k)) % 2

SetWord(c, w, v) == [c EXCEPT !.word[w] = Wrap(v)]
Half(w, high) == [word |-> w, high |-> high]
Get(c, h) == IF h.high THEN c.word[h.word] \div 256 ELSE c.word[h.word] % 256
Set(c, h, v) ==
  SetWord(c, h.word, IF h.high THEN 256 * (v % 256) + (c.word[h.word] % 256)
                     ELSE 256 * (c.word[h.word] \div 256) + (v % 256))
RegA == Half("AF", TRUE)
RegB == Half("BC", TRUE)
SetF(c, f) == Set(c, Half("AF", FALSE), f)
Flags(c) == c.word.AF % 256

(* The register tables that Z80Reset builds: bytes R, words RR, words SS.  *)
R(t, k) == <<Half("BC", TRUE), Half("BC", FALSE), Half("DE", TRUE), Half("DE", FALSE),
             Half(t, TRUE), Half(t, FALSE), Half(t, FALSE), RegA>>[k + 1]
RR(t, k) == <<"BC", "DE", t, "SP">>[k + 1]

(* Faulty: the tables of DD and FD keep HL among the words to push. *)
SSKeepingHL(t, k) == <<"BC", "DE", "HL", "AF">>[k + 1]

SS(t, k) == <<"BC", "DE", t, "AF">>[k + 1]

Skip(c, n) == [c EXCEPT !.pc = Wrap(@ + n)]
Jump(c, a) == [c EXCEPT !.pc = Wrap(a)]
N(c) == Read(c, c.pc)
NN(c) == ReadWord(c, c.pc)

(* The memory operand: (HL), or (IX + d) with d at pc. *)
Place(c) == IF c.table = "HL" THEN c.word.HL ELSE c.word[c.table] + Signed(N(c))
PastD(c) == IF c.table = "HL" THEN c ELSE Skip(c, 1)

(* Faulty: the stack pointer is an int. *)
PushUnwrapped(c, v) ==
  LET sp == c.word.SP - 2 IN WriteWord([c EXCEPT !.word.SP = sp], sp, v)

Push(c, v) == LET d == SetWord(c, "SP", c.word.SP - 2) IN WriteWord(d, d.word.SP, v)
Top(c) == ReadWord(c, c.word.SP)
Popped(c) == SetWord(c, "SP", c.word.SP + 2)

-----------------------------------------------------------------------------
(* The effect of instruction n with opcode op; pc is past the opcode.      *)
Load8(c, n, op) ==
  LET t == c.table IN
  CASE n = <<"LD_R", "R">> -> Set(c, R(t, Y(op)), Get(c, R(t, Z(op))))
    [] n = <<"LD_R", "N">> -> Set(Skip(c, 1), R(t, Y(op)), N(c))
    [] n = <<"LD_R", "INDIRECT_HL">> -> Set(PastD(c), R("HL", Y(op)), Read(c, Place(c)))
    [] n = <<"LD_INDIRECT_HL", "R">> -> Write(PastD(c), Place(c), Get(c, R("HL", Z(op))))
    [] n = <<"LD_INDIRECT_HL", "N">> -> Write(Skip(PastD(c), 1), Place(c), N(PastD(c)))
    [] n[1] = "LD_A_INDIRECT_BC" -> Set(c, RegA, Read(c, c.word.BC))
    [] n[1] = "LD_A_INDIRECT_DE" -> Set(c, RegA, Read(c, c.word.DE))
    [] n[1] = "LD_A_INDIRECT_NN" -> Set(Skip(c, 2), RegA, Read(c, NN(c)))
    [] n[1] = "LD_INDIRECT_BC_A" -> Write(c, c.word.BC, Get(c, RegA))
    [] n[1] = "LD_INDIRECT_DE_A" -> Write(c, c.word.DE, Get(c, RegA))
    [] n[1] = "LD_INDIRECT_NN_A" -> Write(Skip(c, 2), NN(c), Get(c, RegA))

(* SZYX_FLAGS_TABLE, and SZYXP_FLAGS_TABLE with the parity. *)
SZYX(v) == 128 * Bit(v, 7) + (IF v = 0 THEN 64 ELSE 0) + 32 * Bit(v, 5) + 8 * Bit(v, 3)
Parity(v) == (1 + Bit(v, 0) + Bit(v, 1) + Bit(v, 2) + Bit(v, 3)
                + Bit(v, 4) + Bit(v, 5) + Bit(v, 6) + Bit(v, 7)) % 2
SZYXP(v) == SZYX(v) + 4 * Parity(v)

(* LD A,I and LD A,R take P from iff2. *)
LoadIR(c, n, op) ==
  LET a == Get(c, RegA)
      v == IF op = 87 THEN c.i ELSE c.r
  IN  IF n[1] = "LD_A_I_LD_A_R"
      THEN SetWord(c, "AF", 256 * v + SZYX(v) + 4 * c.iff2 + (Flags(c) % 2))
      ELSE IF op = 71 THEN [c EXCEPT !.i = a] ELSE [c EXCEPT !.r = a]

Load16(c, n, op) ==
  LET t == c.table
      rr == RR(t, P(op))
      ss == SS(t, P(op))
      d == Skip(c, 2)
  IN
  CASE n[1] = "LD_RR_NN" -> SetWord(d, rr, NN(c))
    [] n[1] = "LD_HL_INDIRECT_NN" -> SetWord(d, t, ReadWord(c, NN(c)))
    [] n[1] = "LD_RR_INDIRECT_NN" -> SetWord(d, rr, ReadWord(c, NN(c)))
    [] n[1] = "LD_INDIRECT_NN_HL" -> WriteWord(d, NN(c), c.word[t])
    [] n[1] = "LD_INDIRECT_NN_RR" -> WriteWord(d, NN(c), c.word[rr])
    [] n[1] = "LD_SP_HL" -> SetWord(c, "SP", c.word[t])
    [] n[1] = "PUSH_SS" -> Push(c, c.word[ss])
    [] n[1] = "POP_SS" -> Popped(SetWord(c, ss, Top(c)))

ExchangePrimed(c, ws) ==
  [c EXCEPT !.word = [w \in Words |-> IF w \in ws THEN c.alternates[w] ELSE @[w]],
            !.alternates = [w \in Primed |-> IF w \in ws THEN c.word[w] ELSE @[w]]]

Exchange(c, n, op) ==
  CASE n[1] = "EX_DE_HL" -> SetWord(SetWord(c, "DE", c.word.HL), "HL", c.word.DE)
    [] n[1] = "EX_AF_AF_PRIME" -> ExchangePrimed(c, {"AF"})
    [] n[1] = "EXX" -> ExchangePrimed(c, {"BC", "DE", "HL"})
    [] n[1] = "EX_INDIRECT_SP_HL" ->
         SetWord(WriteWord(c, c.word.SP, c.word[c.table]), c.table, Top(c))

(* One step of the block instructions.  P is set while the counter is not  *)
(* zero; Y and X come from bits 1 and 3 of a sum or difference with A.     *)
Flag(f, b) == IF b THEN f ELSE 0
YX(v) == 32 * Bit(v, 1) + 8 * Bit(v, 3)
Advance(c, ws, d) ==
  [c EXCEPT !.word = [w \in Words |-> IF w \in ws THEN Wrap(@[w] + d) ELSE @[w]]]

(* Faulty: P tells whether the counter was zero before. *)
CountedEarly(c) ==
  [cpu |-> Advance(c, {"BC"}, -1), p |-> Flag(4, c.word.BC # 0)]

Counted(c) ==
  LET d == Advance(c, {"BC"}, -1) IN [cpu |-> d, p |-> Flag(4, d.word.BC # 0)]

BlockLoad(c, n, op) ==
  LET byte == Read(c, c.word.HL)
      f == Flags(c)
      d == Counted(Write(c, c.word.DE, byte))
  IN  SetF(Advance(d.cpu, {"DE", "HL"}, IF op = 160 THEN 1 ELSE -1),
           64 * (f \div 64) + (f % 2) + d.p + YX(byte + Get(c, RegA)))

BlockCompare(c, n, op) ==
  LET a == Get(c, RegA)
      byte == Read(c, c.word.HL)
      z == a - byte
      h == (Bit(a, 4) + Bit(byte, 4) + Bit(z, 4)) % 2
      d == Counted(c)
  IN  SetF(Advance(d.cpu, {"HL"}, IF op = 161 THEN 1 ELSE -1),
           128 * Bit(z, 7) + Flag(64, z = 0) + YX(z - h) + 16 * h + d.p + 2 + (Flags(c) % 2))

(* Ports.  A port is read into A, F1 also into H and L, whatever the       *)
(* instruction names; a port is given A, F0 what the instruction names.    *)
Input(c, port) ==
  IF port = 241 THEN SetWord(Set(c, RegA, 0), "HL", Ticks) ELSE Set(c, RegA, Answer[port])
Output(c, port, x) ==
  IF port = 240 THEN [Set(c, RegA, Served) EXCEPT !.sent = x] ELSE [c EXCEPT !.sent = Get(c, RegA)]
RegC(c) == c.word.BC % 256

(* Flags of INI and OUTI, of the byte x, B already counted, and k, which   *)
(* is x and the C or L beside it.                                          *)
PortFlags(x, b, k) ==
  SZYX(b) + 2 * Bit(x, 7) + (IF k > 255 THEN 17 ELSE Bit(x, 6))
    + 4 * ((1 + Parity(k % 8) + Parity(b)) % 2)

BlockPort(c, n, op) ==
  LET d == IF op \in {162, 163} THEN 1 ELSE -1
      Count(e) == Set(e, RegB, Get(e, RegB) - 1)
      byte == Read(c, c.word.HL)
      in == Input(c, RegC(c))
      done == IF n[1] = "INI_IND" THEN Count(Advance(Write(in, in.word.HL, 0), {"HL"}, d))
              ELSE Count(Advance(Output(c, RegC(c), byte), {"HL"}, d))
  IN  SetF(done, IF n[1] = "INI_IND" THEN PortFlags(0, Get(done, RegB), (RegC(c) + d) % 256)
                 ELSE PortFlags(byte, Get(done, RegB), byte + (done.word.HL % 256)))

Inputs(c, n, op) ==
  CASE n[1] = "IN_A_N" -> Input(Skip(c, 1), N(c))
    [] n[1] = "IN_R_C" ->
         LET d == Input(c, RegC(c)) IN
         SetF(IF Y(op) = INDIRECT_HL THEN d ELSE Set(d, R("HL", Y(op)), 0), SZYXP(0) + (Flags(c) % 2))

Outputs(c, n, op) ==
  CASE n[1] = "OUT_N_A" -> Output(Skip(c, 1), N(c), Get(c, RegA))
    [] n[1] = "OUT_C_R" ->
         Output(c, RegC(c), IF Y(op) = INDIRECT_HL THEN 0 ELSE Get(c, R("HL", Y(op))))

(* BIT: Y and X come from the register, or from the address of the operand. *)
TestBit(c, n, op) ==
  LET r == R(c.table, Z(op))
      v == IF n[2] = "R" THEN Get(c, r) ELSE Read(c, Place(c))
      yx == IF n[2] = "R" THEN v ELSE Place(c)
      x == Bit(v, Y(op))
  IN  SetF(IF n[2] = "R" \/ c.table = "HL" THEN c ELSE Skip(c, 2),
           Flag(128, Y(op) = 7 /\ x = 1) + Flag(68, x = 0) + 32 * Bit(yx, 5) + 8 * Bit(yx, 3)
             + 16 + (Flags(c) % 2))

(* SET and RES.  After DD CB the displacement and the opcode are skipped   *)
(* by the access to the memory operand, and by nothing else.               *)
WithBit(v, k, b) == v + (b - Bit(v, k)) * Power(k)
SetRes(c, n, op) ==
  LET b == IF n[1] = "SET_B" THEN 1 ELSE 0
      r == R(c.table, Z(op))
  IN  IF n[2] = "R" THEN Set(c, r, WithBit(Get(c, r), Y(op), b))
      ELSE Write(IF c.table = "HL" THEN c ELSE Skip(c, 2), Place(c),
                 WithBit(Read(c, Place(c)), Y(op), b))

-----------------------------------------------------------------------------
(* XOR_CONDITION_TABLE and AND_CONDITION_TABLE, as bits of F.              *)
AndBit == <<6, 6, 0, 0, 2, 2, 7, 7>>

(* Faulty: the negated conditions are the odd ones. *)
XorBitOdd == <<0, 1, 0, 1, 0, 1, 0, 1>>

XorBit == <<1, 0, 1, 0, 1, 0, 1, 0>>
CC(c, k) == Bit(Flags(c), AndBit[k+1]) # XorBit[k+1]

Relative(c, taken) == IF taken THEN Jump(c, c.pc + Signed(N(c)) + 1) ELSE Skip(c, 1)
Absolute(c, taken) == IF taken THEN Jump(c, NN(c)) ELSE Skip(c, 2)
Call(c, taken) == IF taken THEN Jump(Push(Skip(c, 2), c.pc + 2), NN(c)) ELSE Skip(c, 2)
Return(c, taken) == IF taken THEN Jump(Popped(c), Top(c)) ELSE c

Jumps(c, n, op) ==
  CASE n[1] = "JP_NN" -> Absolute(c, TRUE)
    [] n[1] = "JP_CC_NN" -> Absolute(c, CC(c, Y(op)))
    [] n[1] = "JR_E" -> Relative(c, TRUE)
    [] n[1] = "JR_DD_E" -> Relative(c, CC(c, Q(op)))
    [] n[1] = "JP_HL" -> Jump(c, c.word[c.table])
    [] n[1] = "DJNZ_E" ->
         LET d == Set(c, RegB, Get(c, RegB) - 1) IN Relative(d, Get(d, RegB) # 0)

Calls(c, n, op) ==
  CASE n[1] = "CALL_NN" -> Call(c, TRUE)
    [] n[1] = "CALL_CC_NN" -> Call(c, CC(c, Y(op)))
    [] n[1] = "RET" -> Return(c, TRUE)
    [] n[1] = "RET_CC" -> Return(c, CC(c, Y(op)))
    [] n[1] = "RETI_RETN" -> Return([c EXCEPT !.iff1 = c.iff2], TRUE)
    [] n[1] = "RST_P" -> Jump(Push(c, c.pc), 8 * Y(op))

Load8Names == {"LD_R", "LD_INDIRECT_HL", "LD_A_INDIRECT_BC", "LD_A_INDIRECT_DE", "LD_A_INDIRECT_NN",
               "LD_INDIRECT_BC_A", "LD_INDIRECT_DE_A", "LD_INDIRECT_NN_A"}
LoadIRNames == {"LD_A_I_LD_A_R", "LD_I_A_LD_R_A"}
Load16Names == {"LD_RR_NN", "LD_HL_INDIRECT_NN", "LD_RR_INDIRECT_NN", "LD_INDIRECT_NN_HL",
                "LD_INDIRECT_NN_RR", "LD_SP_HL", "PUSH_SS", "POP_SS"}
ExchangeNames == {"EX_DE_HL", "EX_AF_AF_PRIME", "EXX", "EX_INDIRECT_SP_HL"}
BlockPortNames == {"INI_IND", "OUTI_OUTD"}
InputNames == {"IN_A_N", "IN_R_C"}
OutputNames == {"OUT_N_A", "OUT_C_R"}
BitNames == {"SET_B", "RES_B"}
TestNames == {"BIT_B"}
JumpNames == {"JP_NN", "JP_CC_NN", "JR_E", "JR_DD_E", "JP_HL", "DJNZ_E"}
CallNames == {"CALL_NN", "CALL_CC_NN", "RET", "RET_CC", "RETI_RETN", "RST_P"}

(* The effect of any of these instructions. *)
Effect(c, n, op) ==
  CASE n[1] \in Load8Names -> Load8(c, n, op)
    [] n[1] \in LoadIRNames -> LoadIR(c, n, op)
    [] n[1] \in Load16Names -> Load16(c, n, op)
    [] n[1] \in ExchangeNames -> Exchange(c, n, op)
    [] n[1] = "LDI_LDD" -> BlockLoad(c, n, op)
    [] n[1] = "CPI_CPD" -> BlockCompare(c, n, op)
    [] n[1] \in BlockPortNames -> BlockPort(c, n, op)
    [] n[1] \in InputNames -> Inputs(c, n, op)
    [] n[1] \in OutputNames -> Outputs(c, n, op)
    [] n[1] \in BitNames -> SetRes(c, n, op)
    [] n[1] \in TestNames -> TestBit(c, n, op)
    [] n[1] \in JumpNames -> Jumps(c, n, op)
    [] n[1] \in CallNames -> Calls(c, n, op)

-----------------------------------------------------------------------------
Refreshed(c) == [c EXCEPT !.r = 128 * (@ \div 128) + ((@ + 1) % 128)]

(* The instruction at pc, with the prefixes CB and ED; ED goes back to the *)
(* plain register table, and the opcode after DD CB is fetched from behind *)
(* the displacement, to which pc still points.                             *)
Fetched(c, n, op, kind) == [cpu |-> c, n |-> n, op |-> op, kind |-> kind]
Fetch(c) ==
  LET op == N(c)
      d == Refreshed(Skip(c, 1))
      n == INSTRUCTION_TABLE[op]
      next == N(d)
      indexed == Read(d, d.pc + 1)
      e == Refreshed(Skip(d, 1))
  IN
  CASE n[1] = "ED_PREFIX" -> Fetched([e EXCEPT !.table = "HL"], ED_INSTRUCTION_TABLE[next], next, "ED")
    [] n[1] = "CB_PREFIX" /\ c.table = "HL" -> Fetched(e, CB_INSTRUCTION_TABLE[next], next, "CB")
    [] n[1] = "CB_PREFIX" /\ c.table # "HL" -> Fetched(d, CB_INSTRUCTION_TABLE[indexed], indexed, "CB")
    [] OTHER -> Fetched(d, n, op, "plain")

Running == steps < entered.limit /\ cpu.pc # entered.end

(* DD or FD: the next opcode uses the other register table. *)
Prefix ==
  LET f == Fetch(cpu) IN
  /\ Running /\ f.n[1] \in {"DD_PREFIX", "FD_PREFIX"}
  /\ cpu' = [f.cpu EXCEPT !.table = IF f.n[1] = "DD_PREFIX" THEN "IX" ELSE "IY"]
  /\ UNCHANGED <<entered, steps, last>>

(* The bus knows these ports, and port F0 one function, 36; the process    *)
(* ends at any other.                                                      *)
Port(f) == IF f.n[1] \in {"IN_A_N", "OUT_N_A"} THEN N(f.cpu) ELSE RegC(f.cpu)
Accepted(f) ==
  /\ f.n[1] \in InputNames \cup {"INI_IND"} => Port(f) \in InPorts
  /\ f.n[1] \in OutputNames \cup {"OUTI_OUTD"} =>
       Port(f) \in OutPorts /\ (Port(f) = 240 => Effect(f.cpu, f.n, f.op).sent = 54)

Executes(names) ==
  LET f == Fetch(cpu) IN
  /\ Running /\ f.n[1] \in names /\ Accepted(f)
  /\ cpu' = [Effect(f.cpu, f.n, f.op) EXCEPT !.table = "HL"]
  /\ steps' = steps + 1
  /\ last' = f
  /\ UNCHANGED entered

Next ==
  \/ Prefix
  \/ Executes(Load8Names)
  \/ Executes(LoadIRNames)
  \/ Executes(Load16Names)
  \/ Executes(ExchangeNames)
  \/ Executes({"LDI_LDD"})
  \/ Executes({"CPI_CPD"})
  \/ Executes(BlockPortNames)
  \/ Executes(InputNames)
  \/ Executes(OutputNames)
  \/ Executes(BitNames)
  \/ Executes(TestNames)
  \/ Executes(JumpNames)
  \/ Executes(CallNames)

Init ==
  /\ entered \in Cases
  /\ cpu = entered.cpu
  /\ steps = 0
  /\ last = [cpu |-> cpu, n |-> Whole("NOP"), op |-> 0, kind |-> "plain"]

Spec == Init /\ [][Next]_vars

Finished == steps > 0 /\ ~Running

-----------------------------------------------------------------------------
(* A pair of instructions of which the second undoes or carries on the     *)
(* first (PUSH and POP, a store and a load, two exchanges, CALL and RET,   *)
(* SET and RES ...) leaves in each word what the case says was in some     *)
(* word before it, memory as before if the case says so, and pc behind it: *)
(* also where a word wraps around the end of memory.                       *)
PairsRestore ==
  (entered.kind = "pair" /\ Finished) =>
    LET was == entered.cpu IN
    /\ \A w \in Words \ entered.lost : cpu.word[w] = was.word[entered.moved[w]]
    /\ cpu.alternates = was.alternates
    /\ cpu.pc = entered.end
    /\ entered.kept => \A a \in DOMAIN cpu.memory : cpu.memory[a] = Read(was, a)

(* A loop that a guest closes with JP PE or DJNZ around one step of a      *)
(* block instruction runs as often as BC or B says, 65536 or 256 times for *)
(* and has then copied or searched the whole range.                        *)
LoopsCount ==
  (entered.kind = "loop" /\ Finished) =>
    LET was == entered.cpu IN
    /\ cpu.pc = entered.end
    /\ steps = entered.each * entered.count
    /\ entered.copies => \A k \in 0..entered.count-1 :
         Read(cpu, was.word.DE + entered.way * k) = Read(was, was.word.HL + entered.way * k)

(* What the documented instruction set says of the opcode: operand bytes   *)
(* that follow it, and whether one more byte is an index.                  *)
WordFollows == {1, 17, 33, 49, 34, 42, 50, 58, 195, 205} \cup {194 + 8*k : k \in 0..7} \cup {196 + 8*k : k \in 0..7}
ByteFollows == {6 + 8*k : k \in 0..7} \cup {16, 24, 32, 40, 48, 56, 211, 219}
UsesHLMemory == {54} \cup {70 + 8*k : k \in 0..7} \cup 112..119
Length(f) ==
  CASE f.kind = "CB" -> IF f.cpu.table = "HL" THEN 0 ELSE 2
    [] f.kind = "ED" -> IF f.op \in {67 + 8*k : k \in 0..7} THEN 2 ELSE 0
    [] OTHER -> (IF f.op \in WordFollows THEN 2 ELSE IF f.op \in ByteFollows THEN 1 ELSE 0)
                + (IF f.cpu.table # "HL" /\ f.op \in UsesHLMemory THEN 1 ELSE 0)

(* NZ, Z, NC, C, PO, PE, P, M. *)
Holds(c, k) == Bit(Flags(c), <<6, 0, 2, 7>>[k \div 2 + 1]) = k % 2
Taken(f) ==
  CASE f.n[1] \in {"JP_CC_NN", "CALL_CC_NN", "RET_CC"} -> Holds(f.cpu, Y(f.op))
    [] f.n[1] = "JR_DD_E" -> Holds(f.cpu, Y(f.op) - 4)
    [] f.n[1] = "DJNZ_E" -> Get(f.cpu, RegB) # 1
    [] OTHER -> f.n[1] \in JumpNames \cup CallNames

(* Where an instruction goes that is not the next one. *)
Target(f) ==
  CASE f.n[1] \in {"RET", "RET_CC", "RETI_RETN"} -> Top(f.cpu)
    [] f.n[1] = "RST_P" -> f.op - 199
    [] f.n[1] = "JP_HL" -> f.cpu.word[f.cpu.table]
    [] f.n[1] \in {"JR_E", "JR_DD_E", "DJNZ_E"} -> f.cpu.pc + 1 + Signed(N(f.cpu))
    [] OTHER -> NN(f.cpu)
Behind(f) == Wrap(f.cpu.pc + Length(f))

(* Every instruction goes on where the documentation says: behind its      *)
(* operands and index, or at its target exactly if its condition holds;    *)
(* calls leave the address behind them on the stack, returns take it off,  *)
(* and neither jumps nor what is not taken move the stack pointer.         *)
(* Excepted is DD CB with an operand that is not 6 (CB_PREFIX).            *)
ControlFollows ==
  (steps > 0 /\ cpu.table = "HL" /\ ~(last.kind = "CB" /\ last.cpu.table # "HL" /\ Z(last.op) # 6)) =>
    LET calls == Taken(last) /\ last.n[1] \in {"CALL_NN", "CALL_CC_NN", "RST_P"} IN
    /\ cpu.pc = IF Taken(last) THEN Wrap(Target(last)) ELSE Behind(last)
    /\ calls => Top(cpu) = Behind(last)
    /\ last.n[1] \in JumpNames \cup CallNames =>
         cpu.word.SP = Wrap(last.cpu.word.SP + (IF ~Taken(last) \/ last.n[1] \in JumpNames THEN 0
                                               ELSE IF calls THEN -2 ELSE 2))

(* The processor with two words exchanged, in the tables too. *)
Other(w, u, v) == IF w = u THEN v ELSE IF w = v THEN u ELSE w
Swapped(c, u, v) ==
  [c EXCEPT !.word = [w \in Words |-> c.word[Other(w, u, v)]], !.table = Other(@, u, v)]
Same(f, u, v) ==
  Effect(Swapped(f.cpu, u, v), f.n, f.op) = Swapped(Effect(f.cpu, f.n, f.op), u, v)

(* The processor a plain instruction has for an operand at a.              *)
AtOperand(c, a) == [c EXCEPT !.word.HL = a, !.table = "HL"]

(* A prefixed instruction does with IX what it does with IY, and with IX   *)
(* what the plain one does with HL, bytes and words, registers, stack and  *)
(* jumps: except for EX DE,HL, EXX and port F1, which always use HL, and   *)
(* for the memory operand, which reads and writes at IX + d what the plain *)
(* one does at (HL), and whose other register is then H or L itself.       *)
IndexReplacesHL ==
  (steps > 0 /\ last.cpu.table # "HL") =>
    LET c == last.cpu
        t == c.table
        a == Wrap(Place(c))
    IN
    /\ Same(last, "IX", "IY")
    /\ last.kind = "plain" /\ last.op \in UsesHLMemory =>
         /\ cpu.word[t] = c.word[t]
         /\ Y(last.op) \notin {4, 5} /\ Z(last.op) \notin {4, 5} =>
              Effect(AtOperand(Skip(c, 1), a), last.n, last.op) = AtOperand(Effect(c, last.n, last.op), a)
    /\ last.kind = "plain" /\ last.op \notin UsesHLMemory /\ last.n[1] \notin {"EX_DE_HL", "EXX", "IN_A_N"} =>
         Same(last, "HL", t)
===============================================================================
