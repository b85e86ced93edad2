-------------------------------- MODULE MCAlu --------------------------------
(***************************************************************************)
(* Bytes and words at their boundaries: all accumulators against operands  *)
(* that meet each digit, sign and carry; all decimal numbers for DAA.      *)
(***************************************************************************)
EXTENDS Alu

On(name, where) == [name |-> name, on |-> where, bit |-> 0]
Program(names) == [i \in DOMAIN names |-> On(names[i], "x")]

ByteOps == {"ADD", "ADC", "SUB", "SBC", "CP", "AND", "XOR", "OR", "INC", "DEC"}
ShiftOps == {"RLC", "RL", "SLA", "SLL", "RRC", "RR", "SRA", "SRL"}
AOps == {"NEG", "CPL", "SCF", "CCF", "DAA", "RLCA", "RLA", "RRCA", "RRA"}
WordOps == {"ADD HL", "ADC HL", "SBC HL", "INC HL", "DEC HL"}

AllFlags(b, c) == [[n \in FlagNames |-> b] EXCEPT !["C"] = c]
FlagSets == {AllFlags(b, c) : b \in 0..1, c \in 0..1}
DaaFlags == {[AllFlags(0, c) EXCEPT !["H"] = h, !["N"] = n] : c, h, n \in 0..1}

EdgeBytes == {0, 1, 15, 16, 127, 128, 153, 255}
DecimalBytes == {16*t + u : t \in 0..9, u \in 0..9}
EdgeWords == {0, 1, 255, 256, 4095, 4096, 32767, 32768, 61440, 65535}

Starts(as, fs, xs, hls, rrs) ==
  [A : as, F : fs, x : xs, HL : hls, rr : rrs]
Runs(programs, starts) == [program : programs, start : starts]

MCCases ==
  Runs({<<On(n, "x")>> : n \in ByteOps}, Starts(Byte, FlagSets, EdgeBytes, {0}, {0}))
  \cup Runs({<<On(n, "A")>> : n \in ByteOps \cup ShiftOps \cup (AOps \ {"DAA"})},
            Starts(Byte, FlagSets, {0}, {0}, {0}))
  \cup Runs({<<On("DAA", "A")>>}, Starts(Byte, DaaFlags, {0}, {0}, {0}))
  \cup Runs({Program(<<n, "DAA">>) : n \in {"ADD", "ADC", "SUB", "SBC"}},
            Starts(DecimalBytes, {AllFlags(0, 0), AllFlags(1, 1)}, DecimalBytes, {0}, {0}))
  \cup Runs({Program(p) : p \in Undoing}, Starts({0, 90, 255}, FlagSets, EdgeBytes, {0, 65535}, {0}))
  \cup Runs({<<[name |-> n, on |-> "x", bit |-> b]>> : n \in {"BIT", "SET", "RES"}, b \in Bits},
            Starts({0}, FlagSets, EdgeBytes, {0}, {0}))
  \cup Runs({<<On(n, "x")>> : n \in WordOps}, Starts({0}, FlagSets, {0}, EdgeWords, EdgeWords))
=============================================================================
