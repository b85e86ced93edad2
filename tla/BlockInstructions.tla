-------------------------- MODULE BlockInstructions --------------------------
(***************************************************************************)
(* The repeating block instructions of emulate() in z80emu.c: LDIR, CPIR,  *)
(* INIR, OTIR and their decrementing forms.  The emulator runs the         *)
(* iterations in a loop over copies of the registers, until the counter is *)
(* zero or the cycles of this call of Z80Emulate are used up; in that case *)
(* it stores the copies, sets pc back on the instruction, and the next     *)
(* call resumes it.  Iterations that change the instruction itself are not *)
(* modelled (Z80_HANDLE_SELF_MODIFYING_CODE is off).                       *)
(***************************************************************************)
EXTENDS Integers, Sequences

CONSTANTS
  ByteBase,    \* 256
  WordBase,    \* 65536
  RBase,       \* 128: the refresh counter has seven bits
  MaxChunk,    \* iterations in the cycles of one call: 160000 / 21
  Ops,         \* the instructions to execute
  Counters,    \* of each instruction, initial values of its counter, B or BC
  Pointers,    \* initial values of HL and of DE
  Port,        \* register C: the port of INIR and OTIR
  Sought       \* what register A holds: the byte CPIR looks for

ASSUME WidthAssumption ==
  /\ ByteBase \in Nat /\ WordBase \in Nat /\ RBase \in Nat
  /\ 1 < ByteBase /\ 1 < RBase /\ MaxChunk \in Nat \ {0}
  /\ MaxChunk < WordBase /\ WordBase % ByteBase = 0 /\ Port \in 0..ByteBase-1
  /\ Counters \in [Ops -> SUBSET (0..WordBase-1)] /\ Pointers \subseteq 0..WordBase-1

VARIABLES
  op,
  A,
  at,          \* "instruction": pc is on it; "loop": inside; "next": pc is past
  left,        \* iterations the cycles of this call still allow
  counter, HL, DE,     \* the registers; counter is B of INIR, OTIR, else BC
  c, hl, de,           \* the loop's int copies of them
  memory,
  read,        \* bytes taken from the port
  written,     \* bytes given to the port
  r,           \* refresh counter
  Z, P         \* the flags that depend on the loop's end

registers == <<counter, HL, DE>>
copies == <<c, hl, de>>
vars == <<op, A, at, left, registers, copies, memory, read, written, r, Z, P>>

WordOps == {"LDIR", "LDDR", "CPIR", "CPDR"}
PortOps == {"INIR", "INDR", "OTIR", "OTDR"}
AllOps == WordOps \cup PortOps

(* 1 for the incrementing forms. *)
Direction == IF op \in {"LDIR", "CPIR", "INIR", "OTIR"} THEN 1 ELSE -1
CounterBase == IF op \in WordOps THEN WordBase ELSE ByteBase

(* The byte the port gives k-th, unlike any that memory holds.             *)
InputByte(k) == WordBase + k

Init ==
  /\ op \in Ops /\ A = Sought /\ at = "instruction" /\ left = 0
  /\ counter \in {n \in Counters[op] : n < CounterBase}
  /\ HL \in Pointers /\ DE \in Pointers
  /\ c = 0 /\ hl = 0 /\ de = 0
  /\ memory = [a \in 0..WordBase-1 |-> a]
  /\ read = 0 /\ written = <<>> /\ r = 0
  /\ Z = FALSE /\ P = FALSE

(* Z80Emulate reaches the instruction with cycles for n iterations.  The   *)
(* two refreshes of its fetch are taken back, each iteration adds its own. *)
Enter(n) ==
  /\ at = "instruction"
  /\ at' = "loop" /\ left' = n
  /\ c' = counter /\ hl' = HL /\ de' = DE
  /\ UNCHANGED <<op, A, registers, memory, read, written, r, Z, P>>

(* The body of each loop; addresses are masked where memory is accessed.   *)
Load ==
  /\ op \in {"LDIR", "LDDR"}
  /\ memory' = [memory EXCEPT ![de % WordBase] = memory[hl % WordBase]]
  /\ de' = de + Direction
  /\ UNCHANGED <<A, read, written>>

Compare ==
  /\ op \in {"CPIR", "CPDR"}
  /\ UNCHANGED <<A, memory, de, read, written>>

(* Z80_INPUT_BYTE(C, x) calls _Z80_INPUT_BYTE, which puts the byte in      *)
(* register A; x keeps its initial 0.                                      *)
Input ==
  /\ op \in {"INIR", "INDR"}
  /\ A' = InputByte(read) /\ read' = read + 1
  /\ memory' = [memory EXCEPT ![hl % WordBase] = 0]
  /\ UNCHANGED <<de, written>>

(* Z80_OUTPUT_BYTE(C, x): _Z80_OUTPUT_BYTE takes the byte from register A. *)
Output ==
  /\ op \in {"OTIR", "OTDR"}
  /\ written' = Append(written, A)
  /\ UNCHANGED <<A, memory, de, read>>

Found == op \in {"CPIR", "CPDR"} /\ memory[hl % WordBase] = A

(* The counter copy is an int: from 0 it goes to -1.                       *)
Finished == c - 1 = 0 \/ Found
OutOfCycles == ~Finished /\ left = 1

(* SZYXP_FLAGS_TABLE[m ^ n] & Z80_P_FLAG: the bits of m ^ n are even.      *)
Bit(n, k) == (n \div 2^k) % 2
OneBits(n) == Bit(n, 0) + Bit(n, 1) + Bit(n, 2) + Bit(n, 3)
              + Bit(n, 4) + Bit(n, 5) + Bit(n, 6) + Bit(n, 7)
EvenParity(m, n) == (OneBits(m) + OneBits(n)) % 2 = 0

(* x behind the loops of INIR and OTIR, with HL moved on to h: the byte of *)
(* the last iteration, which INIR does not get from the port, and a number.*)
Added(h) == IF op \in {"INIR", "INDR"}
            THEN (Port + Direction) % ByteBase
            ELSE memory[(h - Direction) % WordBase] + (h % ByteBase)
PortParity(b, h) == EvenParity(Added(h) % 8, b)

(* With b outside the flag tables, what is read beside them. *)
InTable(b) == b \in 0..ByteBase-1

(* Faulty: the counter is one iteration behind. *)
StoreCopiesBehind ==
  /\ counter' = c % CounterBase
  /\ HL' = (hl + Direction) % WordBase
  /\ DE' = de' % WordBase

(* After the loop: the copies go back into the registers of their width.   *)
StoreCopies ==
  /\ counter' = (c - 1) % CounterBase
  /\ HL' = (hl + Direction) % WordBase
  /\ DE' = de' % WordBase

Body ==
  /\ at = "loop"
  /\ Load \/ Compare \/ Input \/ Output
  /\ c' = c - 1 /\ hl' = hl + Direction
  /\ r' = (r + 2) % RBase
  /\ UNCHANGED op

Continue ==
  /\ Body /\ ~Finished /\ ~OutOfCycles
  /\ left' = left - 1
  /\ UNCHANGED <<at, registers, Z, P>>

(* Flags: LDIR sets P if it is to go on, CPIR sets P and Z by the last     *)
(* comparison, INIR and OTIR look both up with the counter as it is left.  *)
Leave ==
  /\ Body /\ (Finished \/ OutOfCycles)
  /\ StoreCopies
  /\ at' = IF Finished THEN "next" ELSE "instruction"
  /\ left' = 0
  /\ P' \in IF op \in WordOps THEN {c - 1 # 0}
            ELSE IF InTable(c - 1) THEN {PortParity(c - 1, hl + Direction)}
            ELSE BOOLEAN
  /\ Z' \in IF op \in {"LDIR", "LDDR"} THEN {Z}
            ELSE IF op \in {"CPIR", "CPDR"} THEN {Found}
            ELSE IF InTable(c - 1) THEN {c - 1 = 0}
            ELSE BOOLEAN

Next == (\E n \in 1..MaxChunk : Enter(n)) \/ Continue \/ Leave

(* The host calls Z80Emulate in an endless loop. *)
Spec == Init /\ [][Next]_vars /\ WF_vars(Next)

-----------------------------------------------------------------------------
(* The registers as the instruction sees them: inside the loop, the copies *)
(* cut to their width; and the flags that an interruption there would set. *)
Inside == at = "loop"
Started == c # counter

Reference == INSTANCE BlockReference WITH
  counter <- IF Inside THEN c % CounterBase ELSE counter,
  source <- IF Inside THEN hl % WordBase ELSE HL,
  dest <- IF Inside THEN de % WordBase ELSE DE,
  refresh <- r,
  Z <- IF Inside /\ Started /\ op \notin {"LDIR", "LDDR"} THEN FALSE ELSE Z,
  P <- IF Inside /\ Started THEN op \in WordOps \/ PortParity(c, hl) ELSE P,
  done <- at = "next"

(* However the cycles of the calls cut the loop, memory, port, registers,  *)
(* refresh counter and flags go through the states of the instruction      *)
(* executed iteration by iteration, and it ends.                           *)
ImplementsReference == Reference!Spec
=============================================================================
