-------------------------------- MODULE Decode --------------------------------
(***************************************************************************)
(* The instruction tables of the processor as maketables.c builds them:    *)
(* what each opcode means alone, after CB and after ED.  An instruction of *)
(* the enumeration in instructions.h is a pair: the name and its operand,  *)
(* or "" for a name that is printed whole.                                 *)
(***************************************************************************)
EXTENDS Integers, Sequences

Opcode == 0..255

(* Bits 5-3, 2-0, 5-4 and 4-3 of an opcode. *)
Y(op) == (op \div 8) % 8
Z(op) == op % 8
P(op) == (op \div 16) % 4
Q(op) == (op \div 8) % 4

INDIRECT_HL == 6
Operand(k) == IF k = INDIRECT_HL THEN "INDIRECT_HL" ELSE "R"
Whole(name) == <<name, "">>
Even(k) == k % 2 = 0

Quarter(op) == op \div 64

(* Opcodes 00 to 3F. *)
LoadIndirect == <<"LD_INDIRECT_BC_A", "LD_A_INDIRECT_BC", "LD_INDIRECT_DE_A", "LD_A_INDIRECT_DE",
                  "LD_INDIRECT_NN_HL", "LD_HL_INDIRECT_NN", "LD_INDIRECT_NN_A", "LD_A_INDIRECT_NN">>
OnAccumulator == <<"RLCA", "RRCA", "RLA", "RRA", "DAA", "CPL", "SCF", "CCF">>
RelativeJumps == <<"NOP", "EX_AF_AF_PRIME", "DJNZ_E", "JR_E", "JR_DD_E", "JR_DD_E", "JR_DD_E", "JR_DD_E">>

FirstQuarter(y, z) ==
  CASE z = 0 -> Whole(RelativeJumps[y+1])
    [] z = 1 -> Whole(IF Even(y) THEN "LD_RR_NN" ELSE "ADD_HL_RR")
    [] z = 2 -> Whole(LoadIndirect[y+1])
    [] z = 3 -> Whole(IF Even(y) THEN "INC_RR" ELSE "DEC_RR")
    [] z = 4 -> <<"INC", Operand(y)>>
    [] z = 5 -> <<"DEC", Operand(y)>>
    [] z = 6 -> <<IF y = INDIRECT_HL THEN "LD_INDIRECT_HL" ELSE "LD_R", "N">>
    [] z = 7 -> Whole(OnAccumulator[y+1])

(* 40 to 7F: a register loaded with itself is a NOP. *)
Loads(y, z) ==
  IF y = z THEN Whole(IF y = INDIRECT_HL THEN "HALT" ELSE "NOP")
  ELSE <<IF y = INDIRECT_HL THEN "LD_INDIRECT_HL" ELSE "LD_R", Operand(z)>>

(* 80 to BF, and again with a constant. *)
Operations == <<"ADD", "ADC", "SUB", "SBC", "AND", "XOR", "OR", "CP">>

(* C0 to FF. *)
Returns == <<"RET", "EXX", "JP_HL", "LD_SP_HL">>
Miscellaneous == <<"JP_NN", "CB_PREFIX", "OUT_N_A", "IN_A_N", "EX_INDIRECT_SP_HL", "EX_DE_HL", "DI", "EI">>
Prefixes == <<"CALL_NN", "DD_PREFIX", "ED_PREFIX", "FD_PREFIX">>

LastQuarter(y, z) ==
  CASE z = 0 -> Whole("RET_CC")
    [] z = 1 -> Whole(IF Even(y) THEN "POP_SS" ELSE Returns[(y \div 2) + 1])
    [] z = 2 -> Whole("JP_CC_NN")
    [] z = 3 -> Whole(Miscellaneous[y+1])
    [] z = 4 -> Whole("CALL_CC_NN")
    [] z = 5 -> Whole(IF Even(y) THEN "PUSH_SS" ELSE Prefixes[(y \div 2) + 1])
    [] z = 6 -> <<Operations[y+1], "N">>
    [] z = 7 -> Whole("RST_P")

INSTRUCTION_TABLE == [op \in Opcode |->
  CASE Quarter(op) = 0 -> FirstQuarter(Y(op), Z(op))
    [] Quarter(op) = 1 -> Loads(Y(op), Z(op))
    [] Quarter(op) = 2 -> <<Operations[Y(op)+1], Operand(Z(op))>>
    [] Quarter(op) = 3 -> LastQuarter(Y(op), Z(op))]

Rotations == <<"RLC", "RRC", "RL", "RR", "SLA", "SRA", "SLL", "SRL">>
OnBits == <<"BIT_B", "RES_B", "SET_B">>

CB_INSTRUCTION_TABLE == [op \in Opcode |->
  <<IF Quarter(op) = 0 THEN Rotations[Y(op)+1] ELSE OnBits[Quarter(op)], Operand(Z(op))>>]

(* ED 40 to 7F; the rest of ED is undefined but for the block instructions. *)
Specials == <<"LD_I_A_LD_R_A", "LD_I_A_LD_R_A", "LD_A_I_LD_A_R", "LD_A_I_LD_A_R",
              "RLD_RRD", "RLD_RRD", "ED_UNDEFINED", "ED_UNDEFINED">>

EdLoads(y, z) ==
  CASE z = 0 -> "IN_R_C"
    [] z = 1 -> "OUT_C_R"
    [] z = 2 -> IF Even(y) THEN "SBC_HL_RR" ELSE "ADC_HL_RR"
    [] z = 3 -> IF Even(y) THEN "LD_INDIRECT_NN_RR" ELSE "LD_RR_INDIRECT_NN"
    [] z = 4 -> "NEG"
    [] z = 5 -> "RETI_RETN"
    [] z = 6 -> "IM_N"
    [] z = 7 -> Specials[y+1]

Blocks == <<"LDI_LDD", "CPI_CPD", "INI_IND", "OUTI_OUTD">>
RepeatingBlocks == <<"LDIR_LDDR", "CPIR_CPDR", "INIR_INDR", "OTIR_OTDR">>

ED_INSTRUCTION_TABLE == [op \in Opcode |-> Whole(
  CASE Quarter(op) = 1 -> EdLoads(Y(op), Z(op))
    [] Quarter(op) = 2 /\ Y(op) \in 4..5 /\ Z(op) < 4 -> Blocks[Z(op)+1]
    [] Quarter(op) = 2 /\ Y(op) \in 6..7 /\ Z(op) < 4 -> RepeatingBlocks[Z(op)+1]
    [] OTHER -> "ED_UNDEFINED")]
===============================================================================
