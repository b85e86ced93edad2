---------------------------- MODULE MCZ80Transfer ----------------------------
(***************************************************************************)
(* Every opcode of the transfer instructions, alone and after DD, FD, DD   *)
(* FD, CB, DD CB and ED, from three sets of registers that put HL, DE, SP, *)
(* IX or pc at the ends of memory and the flags all clear, all set and     *)
(* mixed; pairs that undo each other; and loops.  Ports: 1 is read and     *)
(* written, F0 too, F1 is the clock.                                       *)
(***************************************************************************)
EXTENDS Z80Transfer, TLC

MCMemory == [a \in Word |-> (7 * a + a \div 256 + 3) % 256]
MCAnswer == [p \in {0, 1, 14, 240} |-> p + 10]

Low == [BC |-> 257, DE |-> 32768, HL |-> 16387, AF |-> 21760, IX |-> 24592, IY |-> 28912, SP |-> 1]
High == [BC |-> 241, DE |-> 65535, HL |-> 65535, AF |-> 41215, IX |-> 65520, IY |-> 5, SP |-> 36864]
Mixed == [BC |-> 1, DE |-> 0, HL |-> 16384, AF |-> 321, IX |-> 258, IY |-> 49407, SP |-> 65535]

(* Port F0 in C, and 36 in the registers and at (HL) to send it. *)
Dispatch == [Low EXCEPT !.BC = 496, !.DE = 13878, !.HL = 13878, !.AF = 13824]

Placed(at, bytes) == [a \in {(at + k) % 65536 : k \in 0..Len(bytes)-1} |->
                        bytes[1 + ((a - at) % 65536)]]

Start(words, at, code) ==
  [word |-> words, alternates |-> [BC |-> 1, DE |-> 2, HL |-> 3, AF |-> 4], i |-> 255, r |-> 127,
   pc |-> at, iff1 |-> 0, iff2 |-> 1, table |-> "HL", sent |-> 0, memory |-> code]
Case(kind, start, limit, end) ==
  [kind |-> kind, cpu |-> start, limit |-> limit, end |-> end, moved |-> [w \in Words |-> w],
   lost |-> {}, kept |-> FALSE, each |-> 0, count |-> 0, copies |-> FALSE, way |-> 0]

Single(words, at, bytes) == Case("single", Start(words, at, Placed(at, bytes)), 1, -1)
Plain == Load8Names \cup Load16Names \cup ExchangeNames \cup JumpNames \cup CallNames
OpcodesOf(table, names) == {op \in Opcode : table[op][1] \in names}
Indexes == {<<>>, <<221>>, <<253>>, <<221, 253>>}

At == 8192
Singles ==
  {Single(w, at, p \o <<op>> \o nn) :
     w \in {Low, High, Mixed}, at \in {At, 65534}, p \in Indexes,
     op \in OpcodesOf(INSTRUCTION_TABLE, Plain), nn \in {<<5, 64>>, <<254, 255>>}}
  \cup {Single(w, At, p \o <<237, op, 255, 255>>) :
     w \in {Low, High, Mixed}, p \in {<<>>, <<221>>},
     op \in OpcodesOf(ED_INSTRUCTION_TABLE, LoadIRNames \cup Load16Names \cup CallNames
                                            \cup {"LDI_LDD", "CPI_CPD", "IN_R_C", "INI_IND"})}
  \cup {Single([w EXCEPT !.BC = 1], At, <<237, op>>) :
     w \in {Low, High, Mixed}, op \in OpcodesOf(ED_INSTRUCTION_TABLE, {"OUT_C_R", "OUTI_OUTD"})}
  \cup {Case("single", Start(Dispatch, At, Placed(At, <<237, op>>) @@ (Dispatch.HL :> 54)), 1, -1) :
     op \in OpcodesOf(ED_INSTRUCTION_TABLE, {"OUT_C_R", "OUTI_OUTD"})}
  \cup {Single(w, At, p \o <<op, 1>>) : w \in {Low, High, Mixed}, p \in {<<>>, <<221>>}, op \in {211, 219}}
  \cup {Single(w, At, p \o <<219, 241>>) : w \in {Low, High, Mixed}, p \in {<<>>, <<221>>}}
  \cup {Single(w, At, p) :
     w \in {Low, Mixed}, p \in {<<203, op>> : op \in 64..255} \cup {<<221, 203, 253, op>> : op \in 64..255}}

Pair(words, bytes) ==
  Case("pair", Start(words, At, Placed(At, bytes)), 2, At + Len(bytes))
Moving(c, to, from) == [c EXCEPT !.moved[to] = from]
Undo(words, bytes) == [Pair(words, bytes \o bytes) EXCEPT !.kept = TRUE]
Returning(words, call, at) ==
  Case("pair", Start(words, At, Placed(at, <<201>>) @@ Placed(At, call)), 2, At + Len(call))

(* LD (FFFF),word and LD word,(FFFF). *)
StoreOf == [BC |-> <<237, 67, 255, 255>>, DE |-> <<237, 83, 255, 255>>, HL |-> <<34, 255, 255>>,
            SP |-> <<237, 115, 255, 255>>, IX |-> <<221, 34, 255, 255>>, IY |-> <<253, 34, 255, 255>>]
LoadOf == [BC |-> <<237, 75, 255, 255>>, DE |-> <<237, 91, 255, 255>>, HL |-> <<42, 255, 255>>,
           SP |-> <<237, 123, 255, 255>>, IX |-> <<221, 42, 255, 255>>, IY |-> <<253, 42, 255, 255>>]
PushOf == [BC |-> <<197>>, DE |-> <<213>>, HL |-> <<229>>, AF |-> <<245>>, IX |-> <<221, 229>>, IY |-> <<253, 229>>]
PopOf == [BC |-> <<193>>, DE |-> <<209>>, HL |-> <<225>>, AF |-> <<241>>, IX |-> <<221, 225>>, IY |-> <<253, 225>>]

Pairs(w) ==
  {Moving(Pair(w, StoreOf[u] \o LoadOf[v]), v, u) : u \in DOMAIN StoreOf, v \in DOMAIN LoadOf}
  \cup {Moving(Pair(w, PushOf[u] \o PopOf[v]), v, u) : u \in DOMAIN PushOf, v \in DOMAIN PopOf}
  \cup {Undo(w, x) : x \in {<<235>>, <<8>>, <<217>>, <<227>>, <<221, 227>>, <<253, 227>>, <<221, 235>>}}
  \cup {Pair(w, <<112 + k, 70 + 8*k>>) : k \in {0, 1, 2, 3, 7}}
  \cup {Pair(w, <<221, 112 + k, d, 221, 70 + 8*k, d>>) : k \in {0, 1, 2, 3, 4, 5, 7}, d \in {127, 128}}
  \cup {Pair(w, b) : b \in {<<2, 10>>, <<18, 26>>, <<50, 255, 255, 58, 255, 255>>}}
  \cup {[Pair(w, <<237, 160, 237, 168>>) EXCEPT !.lost = {"BC", "AF"}]}
  \cup {[Pair(w, <<203, 198 + 8*k, 203, 134 + 8*k>>) EXCEPT !.kept = Bit(MCMemory[w.HL], k) = 0] : k \in 0..7}
  \cup {Returning(w, <<205, 0, 48>>, 12288), Returning(w, <<255>>, 56), Returning(w, <<207>>, 8)}

Loop(words, bytes, each, count) ==
  [Case("loop", Start(words, At, Placed(At, bytes)), each * count + 1, At + Len(bytes))
     EXCEPT !.each = each, !.count = count]
Back == <<234, 0, 32>>  \* JP PE to At
BCs == {1, 2, 3, 259}
Bs == {0, 1, 2, 255}
Loops ==
  {[Loop([w EXCEPT !.BC = n], <<237, 160>> \o Back, 2, n) EXCEPT !.copies = TRUE, !.way = 1] :
     w \in {Low, [Low EXCEPT !.DE = 65535]}, n \in BCs}
  \cup {[Loop([Low EXCEPT !.BC = n], <<237, 168>> \o Back, 2, n) EXCEPT !.copies = TRUE, !.way = -1] : n \in BCs}
  \cup {Loop([High EXCEPT !.BC = n], <<237, op>> \o Back, 2, n) : op \in {161, 169}, n \in BCs}
  \cup {Loop([Low EXCEPT !.BC = 256 * n], <<18, 16, 253>>, 2, IF n = 0 THEN 256 ELSE n) : n \in Bs}
  \cup {Loop([Low EXCEPT !.BC = 256 * n + 1], <<237, op, 32, 252>>, 2, IF n = 0 THEN 256 ELSE n) :
          op \in {162, 163, 170, 171}, n \in Bs}

MCCases == Singles \cup Pairs(Low) \cup Pairs(High) \cup Pairs(Mixed) \cup Loops
===============================================================================
