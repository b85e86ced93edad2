---------------------------- MODULE BlockReference ----------------------------
(***************************************************************************)
(* What the repeating block instructions of the Z80 do: each iteration is  *)
(* an instruction of its own, that is fetched again until the counter      *)
(* register, which wraps around, reaches zero or the search succeeds.      *)
(* The ports are those of sysbus.c: what a port is read for goes to A      *)
(* while the instruction stores 0, and a port is given what is in A.  An   *)
(* iteration of INIR leaves Z and P as INI does, one of OTIR as OUTI does. *)
(***************************************************************************)
EXTENDS Integers, Sequences

CONSTANTS ByteBase, WordBase, RBase, Port, Sought

VARIABLES op, A, counter, source, dest, memory, read, written, refresh, Z, P, done

vars == <<op, A, counter, source, dest, memory, read, written, refresh, Z, P, done>>

Step(o) == IF o \in {"LDIR", "CPIR", "INIR", "OTIR"} THEN 1 ELSE -1
CounterBase(o) == IF o \in {"LDIR", "LDDR", "CPIR", "CPDR"} THEN WordBase ELSE ByteBase
InputByte(k) == WordBase + k

Init ==
  /\ ~done /\ A = Sought /\ read = 0 /\ written = <<>> /\ refresh = 0 /\ ~Z /\ ~P
  /\ memory = [a \in 0..WordBase-1 |-> a]

Moved(x) == (x + Step(op)) % WordBase
Left == (counter - 1) % CounterBase(op)

(* Parity of the exclusive or of m and n. *)
Bit(n, k) == (n \div 2^k) % 2
OneBits(n) == Bit(n, 0) + Bit(n, 1) + Bit(n, 2) + Bit(n, 3)
              + Bit(n, 4) + Bit(n, 5) + Bit(n, 6) + Bit(n, 7)
EvenParity(m, n) == (OneBits(m) + OneBits(n)) % 2 = 0

Load ==
  /\ op \in {"LDIR", "LDDR"}
  /\ memory' = [memory EXCEPT ![dest] = memory[source]]
  /\ dest' = Moved(dest)
  /\ P' = (Left # 0) /\ Z' = Z
  /\ done' = (Left = 0)
  /\ UNCHANGED <<A, read, written>>

Compare ==
  /\ op \in {"CPIR", "CPDR"}
  /\ Z' = (memory[source] = A) /\ P' = (Left # 0)
  /\ done' = (Left = 0 \/ Z')
  /\ UNCHANGED <<A, memory, dest, read, written>>

Input ==
  /\ op \in {"INIR", "INDR"}
  /\ A' = InputByte(read) /\ memory' = [memory EXCEPT ![source] = 0]
  /\ read' = read + 1
  /\ Z' = (Left = 0) /\ done' = Z'
  /\ P' = EvenParity(((Port + Step(op)) % ByteBase) % 8, Left)
  /\ UNCHANGED <<dest, written>>

Output ==
  /\ op \in {"OTIR", "OTDR"}
  /\ written' = Append(written, A)
  /\ Z' = (Left = 0) /\ done' = Z'
  /\ P' = EvenParity((memory[source] + (Moved(source) % ByteBase)) % 8, Left)
  /\ UNCHANGED <<A, memory, dest, read>>

Next ==
  /\ ~done
  /\ Load \/ Compare \/ Input \/ Output
  /\ source' = Moved(source)
  /\ counter' = Left
  /\ refresh' = (refresh + 2) % RBase
  /\ UNCHANGED op

Spec == Init /\ [][Next]_vars /\ WF_vars(Next)
=============================================================================
