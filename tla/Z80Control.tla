------------------------------ MODULE Z80Control ------------------------------
(***************************************************************************)
(* The control of z80emu.c: Z80Emulate and its loop over instructions and  *)
(* prefixes within a budget of cycles, HALT, EI and DI, RST and RET, and   *)
(* the interrupts the host may ask for between two calls.  The program is  *)
(* any sequence of the given bytes in a small address space; each byte     *)
(* means what it means as an opcode, as a displacement, and after the      *)
(* prefixes CB, DD and ED.  The stack is kept apart from the program.      *)
(***************************************************************************)
EXTENDS Integers, Sequences

CONSTANTS
  PcBase,       \* 65536
  ProgramBytes, \* the bytes programs are made of
  Budgets,      \* values of number_cycles
  StackWords,   \* words of the stack, which wraps around
  RstVector,    \* 0: where C7 goes, also from the bus in interrupt mode 0
  Mode1Vector,  \* 0x38
  Mode2Vector,  \* i * 256 + data_on_bus, of which bit 0 is cleared
  NmiVector     \* 0x66

Address == 0..PcBase-1

(* NOP, LD B,n (after CB: RLC (HL)), LD B,L (ED: RETN), LD D,(HL)          *)
(* (ED: IM 1), LD E,(HL) (ED: IM 2), HALT, RST 0, RET, CB, DD, ED, DI, EI. *)
Opcodes == {"00", "06", "45", "56", "5E", "76", "C7", "C9", "CB", "DD", "ED", "F3", "FB"}

ASSUME ControlAssumption ==
  /\ PcBase \in Nat \ {0} /\ StackWords \in Nat \ {0}
  /\ ProgramBytes \subseteq Opcodes
  /\ Budgets \subseteq Nat \ {0}
  /\ {RstVector, Mode1Vector, Mode2Vector, NmiVector} \subseteq Address

VARIABLES
  program,
  phase,       \* "stopped": outside of Z80Emulate; "run": inside
  pc,
  indexed,     \* has a DD prefix selected IX for the opcode at pc?
  left,        \* number_cycles - elapsed_cycles, or 0 when it is not positive
  sp, stack,
  iff1, iff2, im,
  shadow,      \* history: was the last instruction an EI or DI, and prefixed?
  frames       \* history: the calls and interrupts not yet returned from

flipflops == <<iff1, iff2, im>>
vars == <<program, phase, pc, indexed, left, sp, stack, flipflops, shadow, frames>>

Frame == [kind : {"call", "interrupt", "nmi"}, pc : Address, iff : BOOLEAN, clean : BOOLEAN]

TypeOK ==
  /\ program \in [Address -> ProgramBytes]
  /\ phase \in {"stopped", "run"} /\ pc \in Address /\ indexed \in BOOLEAN
  /\ left \in Nat
  /\ sp \in 0..StackWords-1 /\ stack \in [0..StackWords-1 -> Address]
  /\ iff1 \in BOOLEAN /\ iff2 \in BOOLEAN /\ im \in 0..2
  /\ shadow \in {"none", "plain", "prefixed"}
  /\ frames \in Seq(Frame) /\ Len(frames) <= StackWords

(* Z80Reset. *)
Init ==
  /\ program \in [Address -> ProgramBytes]
  /\ phase = "stopped" /\ pc = 0 /\ indexed = FALSE /\ left = 0
  /\ sp = 0 /\ stack = [i \in 0..StackWords-1 |-> 0]
  /\ iff1 = FALSE /\ iff2 = FALSE /\ im = 0
  /\ shadow = "none" /\ frames = <<>>

-----------------------------------------------------------------------------
At(k) == (pc + k) % PcBase
Byte(k) == program[At(k)]

(* Faulty: the stack pointer does not wrap around. *)
PushUnwrapped(x) ==
  sp' = sp - 1 /\ stack' = [stack EXCEPT ![(sp - 1) % StackWords] = x]

Push(x) ==
  LET top == (sp - 1) % StackWords IN
  sp' = top /\ stack' = [stack EXCEPT ![top] = x]

(* The history of a push: what is below the words of the stack is lost.    *)
Entered(kind, x) ==
  LET soiled == [i \in DOMAIN frames |-> [frames[i] EXCEPT !.clean = @ /\ kind = "call"]]
      all == Append(soiled, [kind |-> kind, pc |-> x, iff |-> iff1, clean |-> TRUE])
  IN frames' = IF Len(all) > StackWords THEN Tail(all) ELSE all

Soil == frames' = [i \in DOMAIN frames |-> [frames[i] EXCEPT !.clean = FALSE]]

(* The end of an instruction that took k cycles, at the address a: the     *)
(* loop goes on while cycles are left.                                     *)
Spend(k) == left' = IF left > k THEN left - k ELSE 0

Retire(k, a) ==
  /\ Spend(k)
  /\ phase' = IF left > k THEN "run" ELSE "stopped"
  /\ pc' = a
  /\ indexed' = FALSE

Running(b) == phase = "run" /\ Byte(0) = b
Straight == shadow' = "none" /\ UNCHANGED <<program, sp, stack, flipflops, frames>>

(* Z80Emulate: the first instruction is executed whatever number_cycles.   *)
Z80Emulate(n) ==
  /\ phase = "stopped"
  /\ phase' = "run" /\ left' = n
  /\ UNCHANGED <<program, pc, indexed, sp, stack, flipflops, shadow, frames>>

Register ==
  /\ Running("00") \/ Running("45")
  /\ Retire(4, At(1)) /\ Straight

LoadConstant ==
  /\ Running("06")
  /\ Retire(7, At(2)) /\ Straight

(* LD r,(HL), or LD r,(IX+d) with its displacement. *)
LoadIndirect ==
  /\ Running("56") \/ Running("5E")
  /\ IF indexed THEN Retire(15, At(2)) ELSE Retire(7, At(1))
  /\ Straight

(* Faulty: the cycles are not given back. *)
EiDiCounted ==
  /\ Running("FB") \/ Running("F3")
  /\ Retire(4, At(1))
  /\ iff1' = Running("FB") /\ iff2' = Running("FB")
  /\ shadow' = (IF indexed THEN "prefixed" ELSE "plain")
  /\ Soil
  /\ UNCHANGED <<program, sp, stack, im>>

(* EI and DI give back the four cycles they take.                          *)
EiDi ==
  /\ Running("FB") \/ Running("F3")
  /\ Retire(0, At(1))
  /\ iff1' = Running("FB") /\ iff2' = Running("FB")
  /\ shadow' = (IF indexed THEN "prefixed" ELSE "plain")
  /\ Soil
  /\ UNCHANGED <<program, sp, stack, im>>

(* Faulty: the processor waits in the loop, without using up cycles. *)
HaltInLoop ==
  /\ Running("76")
  /\ shadow' = "none" /\ indexed' = FALSE
  /\ UNCHANGED <<program, phase, pc, left, sp, stack, flipflops, frames>>

(* HALT uses up the cycles of this call; pc is past it. *)
Halt ==
  /\ Running("76")
  /\ phase' = "stopped" /\ pc' = At(1) /\ indexed' = FALSE
  /\ left' = 0
  /\ shadow' = "none"
  /\ UNCHANGED <<program, sp, stack, flipflops, frames>>

Rst ==
  /\ Running("C7")
  /\ Retire(11, RstVector)
  /\ Push(At(1)) /\ Entered("call", At(1))
  /\ shadow' = "none"
  /\ UNCHANGED <<program, flipflops>>

Pop(k) ==
  /\ Retire(k, stack[sp])
  /\ sp' = (sp + 1) % StackWords
  /\ shadow' = "none"
  /\ UNCHANGED <<program, stack>>

Dropped(fs) == IF fs = <<>> THEN <<>> ELSE SubSeq(fs, 1, Len(fs) - 1)

Ret ==
  /\ Running("C9")
  /\ Pop(10) /\ frames' = Dropped(frames)
  /\ UNCHANGED flipflops

(* A prefix is followed at once by the next byte: the cycles are not       *)
(* looked at in between.                                                   *)
DdPrefix ==
  /\ Running("DD")
  /\ Spend(4) /\ pc' = At(1) /\ indexed' = TRUE
  /\ UNCHANGED <<program, phase, sp, stack, flipflops, shadow, frames>>

(* Operands of CB opcodes: (HL) if the low three bits are 6. *)
OnMemory(b) == b \in {"06", "56", "5E", "76"}
TestsBit(b) == b \in {"45", "56", "5E", "76"}

CbPrefix ==
  /\ Running("CB") /\ ~indexed
  /\ Retire(CASE ~OnMemory(Byte(1)) -> 8
              [] OnMemory(Byte(1)) /\ TestsBit(Byte(1)) -> 12
              [] OTHER -> 15, At(2))
  /\ Straight

(* DD CB d op: the opcode is fetched past the displacement; the operation  *)
(* on (IX+d) moves pc past both, the one on a register moves it past none. *)
IndexedCbPrefix ==
  /\ Running("CB") /\ indexed
  /\ CASE ~OnMemory(Byte(2)) -> Retire(8, At(1))
       [] OnMemory(Byte(2)) /\ TestsBit(Byte(2)) -> Retire(16, At(3))
       [] OTHER -> Retire(19, At(3))
  /\ Straight

(* ED cancels DD. *)
EdOpcode(b) == Running("ED") /\ Byte(1) = b

InterruptMode ==
  /\ EdOpcode("56") \/ EdOpcode("5E") \/ EdOpcode("76")
  /\ im' = IF EdOpcode("5E") THEN 2 ELSE 1
  /\ Retire(8, At(2))
  /\ shadow' = "none"
  /\ UNCHANGED <<program, sp, stack, iff1, iff2, frames>>

(* Faulty: the interrupt state is not brought back. *)
RetnAsRet ==
  /\ EdOpcode("45")
  /\ Pop(14)
  /\ frames' = [i \in DOMAIN Dropped(frames) |-> [frames[i] EXCEPT !.clean = FALSE]]
  /\ UNCHANGED flipflops

Retn ==
  /\ EdOpcode("45")
  /\ iff1' = iff2
  /\ Pop(14)
  /\ frames' = [i \in DOMAIN Dropped(frames) |-> [frames[i] EXCEPT !.clean = FALSE]]
  /\ UNCHANGED <<iff2, im>>

UndefinedEd ==
  /\ Running("ED") /\ Byte(1) \notin {"45", "56", "5E", "76"}
  /\ Retire(8, At(2)) /\ Straight

-----------------------------------------------------------------------------
(* Z80Interrupt and Z80NonMaskableInterrupt, from the host, with an RST on *)
(* the bus in mode 0.  Mode 2 goes to the vector itself.                   *)
Vector == CASE im = 0 -> RstVector [] im = 1 -> Mode1Vector [] im = 2 -> Mode2Vector

(* Faulty: interrupts stay enabled. *)
Z80InterruptEnabled ==
  /\ phase = "stopped" /\ iff1
  /\ Push(pc) /\ Entered("interrupt", pc)
  /\ pc' = Vector
  /\ shadow' = "none"
  /\ UNCHANGED <<program, phase, indexed, left, flipflops>>

Z80Interrupt ==
  /\ phase = "stopped" /\ iff1
  /\ Push(pc) /\ Entered("interrupt", pc)
  /\ pc' = Vector
  /\ iff1' = FALSE /\ iff2' = FALSE
  /\ shadow' = "none"
  /\ UNCHANGED <<program, phase, indexed, left, im>>

Z80NonMaskableInterrupt ==
  /\ phase = "stopped"
  /\ Push(pc) /\ Entered("nmi", pc)
  /\ pc' = NmiVector
  /\ iff2' = iff1 /\ iff1' = FALSE
  /\ shadow' = "none"
  /\ UNCHANGED <<program, phase, indexed, left, im>>

Instruction ==
  \/ Register \/ LoadConstant \/ LoadIndirect
  \/ EiDi \/ Halt \/ Rst \/ Ret
  \/ DdPrefix \/ CbPrefix \/ IndexedCbPrefix
  \/ InterruptMode \/ Retn \/ UndefinedEd

Next ==
  \/ \E n \in Budgets : Z80Emulate(n)
  \/ Instruction
  \/ Z80Interrupt
  \/ Z80NonMaskableInterrupt

(* Inside Z80Emulate the loop runs on. *)
Spec == Init /\ [][Next]_vars /\ WF_vars(Instruction)

-----------------------------------------------------------------------------
(* A program is not interrupted between an EI or DI and the instruction    *)
(* that follows it: the cycles given back keep the loop going, unless a    *)
(* prefix has used them up.                                                *)
EiShadow == [][Z80Interrupt => shadow # "plain"]_vars

(* The handler of an interrupt or of an NMI runs with interrupts disabled  *)
(* until it changes that itself, and an NMI keeps the state of before it   *)
(* for RETN.                                                               *)
HandlersRunMasked ==
  \A i \in DOMAIN frames : frames[i].clean /\ frames[i].kind # "call" =>
    /\ ~iff1
    /\ frames[i].kind = "nmi" => iff2 = frames[i].iff

(* An interrupt is invisible to the program it interrupts: whatever calls, *)
(* interrupts and prefixes come in between, a return resumes at the        *)
(* instruction that was next, and RETN brings back the interrupt state.    *)
ReturnsResume ==
  [][(Ret \/ Retn) /\ frames # <<>> =>
       LET last == frames[Len(frames)] IN
       /\ pc' = last.pc
       /\ Retn /\ last.kind = "nmi" /\ last.clean => iff1' = last.iff]_vars

(* "Execute instructions as long as the number of elapsed cycles is        *)
(* smaller than number_cycles": the loop ends, for every program that has  *)
(* a byte other than the ones whose cycles are not counted or not looked   *)
(* at.                                                                     *)
EmulateReturns ==
  (phase = "run" /\ \E a \in Address : program[a] \notin {"DD", "F3", "FB"}) ~> phase = "stopped"
=============================================================================
