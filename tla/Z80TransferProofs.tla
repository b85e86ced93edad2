-------------------------- MODULE Z80TransferProofs --------------------------
(***************************************************************************)
(* The transfer instructions, for every program, memory, answer of a port  *)
(* and set of registers: type correctness; that each instruction goes on   *)
(* where its opcode says; and that IX, IY and HL stand for each other.     *)
(***************************************************************************)
EXTENDS Z80Transfer, TLAPS

-----------------------------------------------------------------------------
(* Bytes, words and their halves. *)

LEMMA WordRange ==
  \A n \in Word : n \in Int /\ 0 <= n /\ n < 256 * 256
<1> DEFINE top == 65535
<1>1. Word = 0..top
  BY DEF Word
<1>2. top \in Int /\ top < 256 * 256
  BY SMT
<1> HIDE DEF top
<1> QED
  BY <1>1, <1>2, SMT

LEMMA WordIsInt ==
  ASSUME NEW n \in Word
  PROVE  n \in Int /\ 0 <= n /\ n <= 65535
<1>1. n \in Int /\ 0 <= n /\ n < 256 * 256
  BY WordRange
<1> QED
  BY <1>1, SMT

LEMMA WrapIsWord ==
  ASSUME NEW n \in Int
  PROVE  Wrap(n) \in Word
<1> DEFINE m == 65536
           top == 65535
<1>1. Word = 0..top
  BY DEF Word
<1>2. Wrap(n) = n % m
  BY DEF Wrap
<1>3. m \in Int /\ 0 < m
  BY SMT
<1>4. m - 1 = top
  BY SMT
<1> HIDE DEF m, top
<1>5. n % m \in 0..top
  BY <1>3, <1>4, SMT
<1> QED
  BY <1>1, <1>2, <1>5

LEMMA IntIsWord ==
  ASSUME NEW n \in Int, 0 <= n, n <= 65535
  PROVE  n \in Word
<1>1. Wrap(n) = n
  BY SMT DEF Wrap
<1> QED
  BY <1>1, WrapIsWord

LEMMA ByteIsInt ==
  ASSUME NEW n \in Byte
  PROVE  n \in Int /\ 0 <= n /\ n <= 255
BY SMT DEF Byte

LEMMA WordWraps ==
  ASSUME NEW n \in Word
  PROVE  Wrap(n) = n
<1>1. n \in Int /\ 0 <= n /\ n <= 65535
  BY WordIsInt
<1> QED
  BY <1>1, SMT DEF Wrap

LEMMA WrapTwice ==
  ASSUME NEW n \in Int, NEW k \in Int
  PROVE  Wrap(Wrap(n) + k) = Wrap(n + k)
BY SMT DEF Wrap

LEMMA RemainderIsByte ==
  ASSUME NEW n \in Int
  PROVE  n % 256 \in Byte
BY SMT DEF Byte

LEMMA Halves ==
  ASSUME NEW n \in Word
  PROVE  n \div 256 \in Byte /\ n % 256 \in Byte /\ n = (n % 256) + 256 * (n \div 256)
<1>1. n \in Int /\ 0 <= n /\ n <= 65535
  BY WordIsInt
<1> QED
  BY <1>1, SMT DEF Byte

LEMMA BytesMakeWord ==
  ASSUME NEW h \in Byte, NEW l \in Byte
  PROVE  l + 256 * h \in Word
<1>1. h \in Int /\ 0 <= h /\ h <= 255 /\ l \in Int /\ 0 <= l /\ l <= 255
  BY ByteIsInt
<1>2. l + 256 * h \in Int /\ 0 <= l + 256 * h /\ l + 256 * h <= 65535
  BY <1>1
<1> QED
  BY <1>2, IntIsWord

LEMMA SignedIsInt ==
  ASSUME NEW b \in Byte
  PROVE  Signed(b) \in Int
<1>1. b \in Int
  BY ByteIsInt
<1> QED
  BY <1>1, SMT DEF Signed

LEMMA BitIsBit ==
  ASSUME NEW n \in Int, NEW k \in 0..7
  PROVE  Bit(n, k) \in 0..1 /\ Bit(n, k) \in Int
<1>1. Power(k) \in Nat \ {0}
  BY SMT DEF Power
<1>2. n \div Power(k) \in Int
  BY <1>1, SMT
<1> QED
  BY <1>2, SMT DEF Bit

-----------------------------------------------------------------------------
(* What the helpers return and leave alone. *)

LEMMA Fields ==
  ASSUME NEW c, IsProcessor(c)
  PROVE  /\ c.word \in [Words -> Word] /\ c.alternates \in [Primed -> Word]
         /\ c.i \in Byte /\ c.r \in Byte /\ c.pc \in Word
         /\ c.iff1 \in 0..1 /\ c.iff2 \in 0..1 /\ c.table \in {"HL", "IX", "IY"}
         /\ \A w \in Words : c.word[w] \in Word
BY SMT DEF IsProcessor

LEMMA Numbers ==
  ASSUME NEW c, IsProcessor(c)
  PROVE  /\ c.i \in Int /\ c.r \in Int /\ c.pc \in Int /\ c.iff1 \in Int /\ c.iff2 \in Int
         /\ \A w \in Words : c.word[w] \in Int
         /\ c.table \in Words
<1>1. c.iff1 \in 0..1 /\ c.iff2 \in 0..1 /\ c.table \in {"HL", "IX", "IY"}
  BY Fields
<1>2. c.iff1 \in Int /\ c.iff2 \in Int /\ c.table \in Words
  BY <1>1, SMT DEF Words
<1> QED
  BY <1>2, Fields, WordIsInt, ByteIsInt

LEMMA ReadIsByte ==
  ASSUME NEW c, IsProcessor(c), NEW a \in Int
  PROVE  Read(c, a) \in Byte
BY WrapIsWord, TransferAssumption, SMT DEF Read, IsProcessor

LEMMA ReadWordIsWord ==
  ASSUME NEW c, IsProcessor(c), NEW a \in Int
  PROVE  ReadWord(c, a) \in Word
BY ReadIsByte, BytesMakeWord, SMT DEF ReadWord

LEMMA WriteKeeps ==
  ASSUME NEW c, IsProcessor(c), NEW a \in Int, NEW v \in Int
  PROVE  /\ IsProcessor(Write(c, a, v))
         /\ Write(c, a, v).word = c.word /\ Write(c, a, v).pc = c.pc
         /\ Write(c, a, v).table = c.table
<1> DEFINE m == [b \in DOMAIN c.memory \cup {Wrap(a)} |->
                   IF b = Wrap(a) THEN v % 256 ELSE c.memory[b]]
<1>1. Write(c, a, v) = [c EXCEPT !.memory = m]
  BY DEF Write
<1>2. DOMAIN m \subseteq Word /\ \A b \in DOMAIN m : m[b] \in Byte
  BY WrapIsWord, RemainderIsByte DEF IsProcessor
<1> HIDE DEF m
<1> QED
  BY <1>1, <1>2, SMT DEF IsProcessor

LEMMA WriteWordKeeps ==
  ASSUME NEW c, IsProcessor(c), NEW a \in Int, NEW v \in Int
  PROVE  /\ IsProcessor(WriteWord(c, a, v))
         /\ WriteWord(c, a, v).word = c.word /\ WriteWord(c, a, v).pc = c.pc
         /\ WriteWord(c, a, v).table = c.table
<1>1. v \div 256 \in Int /\ a + 1 \in Int
  OBVIOUS
<1> QED
  BY <1>1, WriteKeeps DEF WriteWord

LEMMA SetWordKeeps ==
  ASSUME NEW c, IsProcessor(c), NEW w \in Words, NEW v \in Int
  PROVE  /\ IsProcessor(SetWord(c, w, v))
         /\ SetWord(c, w, v).word = [c.word EXCEPT ![w] = Wrap(v)]
         /\ SetWord(c, w, v).pc = c.pc /\ SetWord(c, w, v).table = c.table
         /\ SetWord(c, w, v).memory = c.memory
BY WrapIsWord, SMT DEF SetWord, IsProcessor

LEMMA JumpKeeps ==
  ASSUME NEW c, IsProcessor(c), NEW a \in Int
  PROVE  /\ IsProcessor(Jump(c, a)) /\ Jump(c, a).pc = Wrap(a) /\ Jump(c, a).word = c.word
         /\ Jump(c, a).table = c.table /\ Jump(c, a).memory = c.memory
BY WrapIsWord, SMT DEF Jump, IsProcessor

LEMMA SkipKeeps ==
  ASSUME NEW c, IsProcessor(c), NEW k \in Int
  PROVE  /\ IsProcessor(Skip(c, k)) /\ Skip(c, k).pc = Wrap(c.pc + k) /\ Skip(c, k).word = c.word
         /\ Skip(c, k).table = c.table /\ Skip(c, k).memory = c.memory
<1>1. c.pc + k \in Int
  BY Numbers
<1> QED
  BY <1>1, WrapIsWord, SMT DEF Skip, IsProcessor

AllHalves == [word : Words, high : BOOLEAN]

LEMMA GetIsByte ==
  ASSUME NEW c, IsProcessor(c), NEW h \in AllHalves
  PROVE  Get(c, h) \in Byte /\ Get(c, h) \in Int
<1>1. c.word[h.word] \in Word
  BY Fields DEF AllHalves
<1> QED
  BY <1>1, Halves, ByteIsInt DEF Get

LEMMA SetKeeps ==
  ASSUME NEW c, IsProcessor(c), NEW h \in AllHalves, NEW v \in Int
  PROVE  /\ IsProcessor(Set(c, h, v))
         /\ \A u \in Words \ {h.word} : Set(c, h, v).word[u] = c.word[u]
         /\ Set(c, h, v).pc = c.pc /\ Set(c, h, v).table = c.table
         /\ Set(c, h, v).memory = c.memory
<1> DEFINE n == IF h.high THEN 256 * (v % 256) + (c.word[h.word] % 256)
                ELSE 256 * (c.word[h.word] \div 256) + (v % 256)
<1>1. h.word \in Words /\ c.word[h.word] \in Word /\ c.word \in [Words -> Word]
  BY Fields DEF AllHalves
<1>2. n \in Int
  <2>1. /\ v % 256 \in Int /\ c.word[h.word] % 256 \in Int /\ c.word[h.word] \div 256 \in Int
    BY <1>1, Halves, ByteIsInt, RemainderIsByte
  <2> QED
    BY <2>1
<1>3. Set(c, h, v) = SetWord(c, h.word, n)
  BY DEF Set
<1> HIDE DEF n
<1>4. /\ IsProcessor(SetWord(c, h.word, n))
      /\ SetWord(c, h.word, n).word = [c.word EXCEPT ![h.word] = Wrap(n)]
      /\ SetWord(c, h.word, n).pc = c.pc /\ SetWord(c, h.word, n).table = c.table
      /\ SetWord(c, h.word, n).memory = c.memory
  BY <1>1, <1>2, SetWordKeeps
<1>5. \A u \in Words \ {h.word} : [c.word EXCEPT ![h.word] = Wrap(n)][u] = c.word[u]
  BY <1>1
<1> QED
  BY <1>3, <1>4, <1>5

LEMMA SetIsProcessor ==
  ASSUME NEW c, IsProcessor(c), NEW h \in AllHalves, NEW v \in Int
  PROVE  IsProcessor(Set(c, h, v)) /\ Set(c, h, v).pc = c.pc
BY SetKeeps

LEMMA SetWordIsProcessor ==
  ASSUME NEW c, IsProcessor(c), NEW w \in Words, NEW v \in Int
  PROVE  IsProcessor(SetWord(c, w, v)) /\ SetWord(c, w, v).pc = c.pc
BY SetWordKeeps

LEMMA TableHalves ==
  ASSUME NEW t \in Words, NEW k \in 0..7
  PROVE  R(t, k) \in AllHalves
<1>1. t \in Words /\ {"BC", "DE", "AF"} \subseteq Words
  BY DEF Words
<1>2. /\ R(t, 0) = Half("BC", TRUE) /\ R(t, 1) = Half("BC", FALSE)
      /\ R(t, 2) = Half("DE", TRUE) /\ R(t, 3) = Half("DE", FALSE)
      /\ R(t, 4) = Half(t, TRUE) /\ R(t, 5) = Half(t, FALSE)
      /\ R(t, 6) = Half(t, FALSE) /\ R(t, 7) = RegA
  BY DEF R
<1>3. \A w \in Words, b \in BOOLEAN : Half(w, b) \in AllHalves
  BY DEF Half, AllHalves
<1>4. /\ R(t, 0) \in AllHalves /\ R(t, 1) \in AllHalves /\ R(t, 2) \in AllHalves
      /\ R(t, 3) \in AllHalves /\ R(t, 4) \in AllHalves /\ R(t, 5) \in AllHalves
      /\ R(t, 6) \in AllHalves /\ R(t, 7) \in AllHalves
  BY <1>1, <1>2, <1>3 DEF RegA
<1>5. k \in {0, 1, 2, 3, 4, 5, 6, 7}
  OBVIOUS
<1> QED
  BY <1>4, <1>5

LEMMA NamedHalves ==
  /\ RegA \in AllHalves /\ RegB \in AllHalves /\ Half("AF", FALSE) \in AllHalves
  /\ RegA.word = "AF" /\ RegB.word = "BC" /\ Half("AF", FALSE).word = "AF"
BY SMT DEF RegA, RegB, Half, AllHalves, Words

LEMMA TableWords ==
  ASSUME NEW t \in Words, NEW k \in 0..3
  PROVE  RR(t, k) \in Words /\ SS(t, k) \in Words
BY SMT DEF RR, SS, Words

LEMMA SetFKeeps ==
  ASSUME NEW c, IsProcessor(c), NEW f \in Int
  PROVE  /\ IsProcessor(SetF(c, f))
         /\ SetF(c, f).word["SP"] = c.word["SP"]
         /\ SetF(c, f).pc = c.pc /\ SetF(c, f).table = c.table /\ SetF(c, f).memory = c.memory
<1>1. "SP" \in Words \ {"AF"}
  BY DEF Words
<1> DEFINE h == Half("AF", FALSE)
<1>2. h \in AllHalves /\ h.word = "AF"
  BY NamedHalves
<1>3. SetF(c, f) = Set(c, h, f)
  BY DEF SetF
<1> HIDE DEF h
<1> QED
  BY <1>1, <1>2, <1>3, SetKeeps

LEMMA FlagsAreByte ==
  ASSUME NEW c, IsProcessor(c)
  PROVE  Flags(c) \in Byte /\ Flags(c) \in Int /\ Flags(c) % 2 \in Int /\ Flags(c) \div 64 \in Int
<1>1. c.word["AF"] \in Word
  BY Fields DEF Words
<1>2. Flags(c) \in Byte
  BY <1>1, Halves DEF Flags
<1>3. Flags(c) \in Int
  BY <1>2, ByteIsInt
<1> QED
  BY <1>2, <1>3

LEMMA OperandsAreBytes ==
  ASSUME NEW c, IsProcessor(c)
  PROVE  /\ N(c) \in Byte /\ N(c) \in Int /\ NN(c) \in Word /\ NN(c) \in Int
         /\ Place(c) \in Int /\ Signed(N(c)) \in Int
<1>1. c.pc \in Int /\ c.table \in Words /\ c.word["HL"] \in Int /\ c.word[c.table] \in Int
  BY Numbers DEF Words
<1>2. N(c) \in Byte /\ N(c) \in Int /\ NN(c) \in Word /\ NN(c) \in Int
  BY <1>1, ReadIsByte, ReadWordIsWord, ByteIsInt, WordIsInt DEF N, NN
<1>3. Signed(N(c)) \in Int
  BY <1>2, SignedIsInt
<1> QED
  BY <1>1, <1>2, <1>3 DEF Place

LEMMA PastDKeeps ==
  ASSUME NEW c, IsProcessor(c)
  PROVE  /\ IsProcessor(PastD(c)) /\ PastD(c).word = c.word
         /\ PastD(c).pc = Wrap(c.pc + (IF c.table = "HL" THEN 0 ELSE 1))
         /\ PastD(c).table = c.table /\ PastD(c).memory = c.memory
<1>1. c.pc \in Int /\ c.pc + 0 = c.pc /\ Wrap(c.pc) = c.pc
  BY Numbers, Fields, WordWraps
<1>2. CASE c.table = "HL"
  BY <1>1, <1>2 DEF PastD
<1>3. CASE c.table # "HL"
  BY <1>3, SkipKeeps DEF PastD
<1> QED
  BY <1>2, <1>3

LEMMA PushKeeps ==
  ASSUME NEW c, IsProcessor(c), NEW v \in Int
  PROVE  /\ IsProcessor(Push(c, v)) /\ Push(c, v).pc = c.pc /\ Push(c, v).table = c.table
         /\ Push(c, v).word = [c.word EXCEPT !["SP"] = Wrap(@ - 2)]
<1> DEFINE d == SetWord(c, "SP", c.word["SP"] - 2)
<1>1. "SP" \in Words /\ c.word["SP"] - 2 \in Int
  BY Numbers DEF Words
<1>2. /\ IsProcessor(d) /\ d.word = [c.word EXCEPT !["SP"] = Wrap(c.word["SP"] - 2)]
      /\ d.pc = c.pc /\ d.table = c.table
  BY <1>1, SetWordKeeps
<1>3. d.word["SP"] \in Int
  BY <1>1, <1>2, Numbers
<1>4. Push(c, v) = WriteWord(d, d.word["SP"], v)
  BY DEF Push
<1> HIDE DEF d
<1> QED
  BY <1>2, <1>3, <1>4, WriteWordKeeps

LEMMA PushIsProcessor ==
  ASSUME NEW c, IsProcessor(c), NEW v \in Int
  PROVE  IsProcessor(Push(c, v)) /\ Push(c, v).pc = c.pc
BY PushKeeps

LEMMA PoppedKeeps ==
  ASSUME NEW c, IsProcessor(c)
  PROVE  /\ IsProcessor(Popped(c)) /\ Popped(c).pc = c.pc /\ Popped(c).table = c.table
         /\ Popped(c).word = [c.word EXCEPT !["SP"] = Wrap(@ + 2)]
         /\ Top(c) \in Word /\ Top(c) \in Int
<1>1. "SP" \in Words /\ c.word["SP"] + 2 \in Int /\ c.word["SP"] \in Int
  BY Numbers DEF Words
<1> QED
  BY <1>1, SetWordKeeps, ReadWordIsWord, WordIsInt DEF Popped, Top

LEMMA AdvanceKeeps ==
  ASSUME NEW c, IsProcessor(c), NEW ws \in SUBSET Words, NEW d \in Int
  PROVE  /\ IsProcessor(Advance(c, ws, d))
         /\ Advance(c, ws, d).word = [w \in Words |-> IF w \in ws THEN Wrap(c.word[w] + d) ELSE c.word[w]]
         /\ Advance(c, ws, d).pc = c.pc /\ Advance(c, ws, d).table = c.table
         /\ Advance(c, ws, d).memory = c.memory
<1> DEFINE m == [w \in Words |-> IF w \in ws THEN Wrap(c.word[w] + d) ELSE c.word[w]]
<1>1. Advance(c, ws, d) = [c EXCEPT !.word = m]
  BY DEF Advance
<1>2. m \in [Words -> Word]
  <2>1. \A w \in Words : c.word[w] + d \in Int /\ c.word[w] \in Word
    BY Numbers, Fields
  <2> QED
    BY <2>1, WrapIsWord
<1> HIDE DEF m
<1>3. /\ IsProcessor([c EXCEPT !.word = m]) /\ [c EXCEPT !.word = m].word = m
      /\ [c EXCEPT !.word = m].pc = c.pc /\ [c EXCEPT !.word = m].table = c.table
      /\ [c EXCEPT !.word = m].memory = c.memory
  BY <1>2, SMT DEF IsProcessor
<1> QED
  BY <1>1, <1>3 DEF m

LEMMA RefreshedKeeps ==
  ASSUME NEW c, IsProcessor(c)
  PROVE  /\ IsProcessor(Refreshed(c)) /\ Refreshed(c).word = c.word /\ Refreshed(c).pc = c.pc
         /\ Refreshed(c).table = c.table /\ Refreshed(c).memory = c.memory
<1> DEFINE r == 128 * (c.r \div 128) + ((c.r + 1) % 128)
<1>1. r \in Byte
  <2>1. \A n \in Int : 0 <= n /\ n <= 255 => 128 * (n \div 128) + ((n + 1) % 128) \in Byte
    BY SMT DEF Byte
  <2> QED
    BY <2>1, Fields, ByteIsInt
<1>2. Refreshed(c) = [c EXCEPT !.r = r]
  BY DEF Refreshed
<1> HIDE DEF r
<1> QED
  BY <1>1, <1>2, SMT DEF IsProcessor

-----------------------------------------------------------------------------
(* Loads.  An instruction that does not jump goes on behind the bytes that *)
(* its code skips: constants, and the displacement of a memory operand.    *)

Constants(n) ==
  IF n[1] \in {"LD_RR_NN", "LD_HL_INDIRECT_NN", "LD_RR_INDIRECT_NN", "LD_INDIRECT_NN_HL",
               "LD_INDIRECT_NN_RR", "LD_A_INDIRECT_NN", "LD_INDIRECT_NN_A",
               "JP_NN", "JP_CC_NN", "CALL_NN", "CALL_CC_NN"} THEN 2
  ELSE IF n[1] \in {"IN_A_N", "OUT_N_A", "JR_E", "JR_DD_E", "DJNZ_E"} \/ n[2] = "N" THEN 1 ELSE 0
Displacement(c, n) ==
  IF c.table = "HL" THEN 0
  ELSE IF n[1] \in BitNames \cup TestNames THEN IF n[2] = "R" THEN 0 ELSE 2
  ELSE IF n[1] = "LD_INDIRECT_HL" \/ n[2] = "INDIRECT_HL" THEN 1 ELSE 0
GoesOn(c, n, d) == IsProcessor(d) /\ d.pc = Wrap(c.pc + (Constants(n) + Displacement(c, n)))

LEMMA Parts ==
  ASSUME NEW op \in Opcode
  PROVE  op \in Int /\ Y(op) \in 0..7 /\ Z(op) \in 0..7 /\ P(op) \in 0..3 /\ Q(op) \in 0..3
BY SMT DEF Opcode, Y, Z, P, Q

LEMMA Stays ==
  ASSUME NEW c, IsProcessor(c), NEW n, Constants(n) = 0, Displacement(c, n) = 0,
         NEW d, IsProcessor(d), d.pc = c.pc
  PROVE  GoesOn(c, n, d)
<1>1. c.pc \in Int /\ Wrap(c.pc) = c.pc
  BY Numbers, Fields, WordWraps
<1>2. c.pc + (0 + 0) = c.pc
  BY <1>1
<1> QED
  BY <1>1, <1>2 DEF GoesOn

LEMMA Advances ==
  ASSUME NEW c, IsProcessor(c), NEW n, NEW j \in 0..2, NEW k \in 0..2,
         Constants(n) = j, Displacement(c, n) = k,
         NEW d, IsProcessor(d), d.pc = Wrap(c.pc + (j + k))
  PROVE  GoesOn(c, n, d)
BY DEF GoesOn

LEMMA ReadIsInt ==
  ASSUME NEW c, IsProcessor(c), NEW a \in Int
  PROVE  Read(c, a) \in Int
BY ReadIsByte, ByteIsInt

Load8Instructions ==
  {<<"LD_R", "R">>, <<"LD_R", "N">>, <<"LD_R", "INDIRECT_HL">>,
   <<"LD_INDIRECT_HL", "R">>, <<"LD_INDIRECT_HL", "N">>}
  \cup {Whole(name) : name \in Load8Names \ {"LD_R", "LD_INDIRECT_HL"}}

LEMMA Load8Right ==
  ASSUME NEW c, IsProcessor(c), NEW n \in Load8Instructions, NEW op \in Opcode
  PROVE  GoesOn(c, n, Load8(c, n, op))
<1> DEFINE t == c.table
<1>1. /\ t \in Words /\ "HL" \in Words /\ c.word["BC"] \in Int /\ c.word["DE"] \in Int /\ c.pc \in Int
      /\ Wrap(c.pc) = c.pc
  BY Numbers, Fields, WordWraps DEF Words
<1>2. /\ R(t, Y(op)) \in AllHalves /\ R(t, Z(op)) \in AllHalves /\ R("HL", Y(op)) \in AllHalves
      /\ R("HL", Z(op)) \in AllHalves /\ RegA \in AllHalves
  BY <1>1, Parts, TableHalves, NamedHalves
<1>operands. /\ Read(c, c.word["BC"]) \in Int /\ Read(c, c.word["DE"]) \in Int
         /\ NN(c) \in Int /\ Read(c, NN(c)) \in Int /\ Get(c, RegA) \in Int
  BY <1>1, <1>2, OperandsAreBytes, ReadIsInt, GetIsByte
<1>behind. IsProcessor(Skip(c, 2)) /\ Skip(c, 2).pc = Wrap(c.pc + (2 + 0))
  BY SkipKeeps
<1>3. CASE n = <<"LD_R", "R">>
  <2>1. Load8(c, n, op) = Set(c, R(t, Y(op)), Get(c, R(t, Z(op))))
    BY <1>3 DEF Load8
  <2>2. Constants(n) = 0 /\ Displacement(c, n) = 0
    BY <1>3 DEF Constants, Displacement, BitNames, TestNames
  <2>3. Get(c, R(t, Z(op))) \in Int
    BY <1>2, GetIsByte
  <2> QED
    BY <1>2, <2>1, <2>2, <2>3, SetIsProcessor, Stays
<1>4. CASE n = <<"LD_R", "N">>
  <2>1. Load8(c, n, op) = Set(Skip(c, 1), R(t, Y(op)), N(c))
    BY <1>4 DEF Load8
  <2>2. Constants(n) = 1 /\ Displacement(c, n) = 0
    BY <1>4 DEF Constants, Displacement, BitNames, TestNames
  <2>3. IsProcessor(Skip(c, 1)) /\ Skip(c, 1).pc = Wrap(c.pc + (1 + 0))
    BY SkipKeeps
  <2> N(c) \in Int
    BY OperandsAreBytes
  <2>4. IsProcessor(Load8(c, n, op)) /\ Load8(c, n, op).pc = Wrap(c.pc + (1 + 0))
    BY <1>2, <2>1, <2>3, SetIsProcessor
  <2> QED
    BY <2>2, <2>4, Advances
<1>5. CASE n = <<"LD_R", "INDIRECT_HL">>
  <2>1. Load8(c, n, op) = Set(PastD(c), R("HL", Y(op)), Read(c, Place(c)))
    BY <1>5 DEF Load8
  <2>2. Constants(n) + Displacement(c, n) = IF c.table = "HL" THEN 0 ELSE 1
    BY <1>5 DEF Constants, Displacement, BitNames, TestNames
  <2>3. Read(c, Place(c)) \in Int
    BY OperandsAreBytes, ReadIsInt
  <2> QED
    <3>1. IsProcessor(PastD(c)) /\ PastD(c).pc = Wrap(c.pc + (IF c.table = "HL" THEN 0 ELSE 1))
      BY PastDKeeps
    <3>2. IsProcessor(Load8(c, n, op)) /\ Load8(c, n, op).pc = PastD(c).pc
      BY <1>2, <2>1, <2>3, <3>1, SetIsProcessor, ZenonT(30)
    <3> QED
      BY <2>2, <3>1, <3>2 DEF GoesOn
<1>6. CASE n = <<"LD_INDIRECT_HL", "R">>
  <2>1. Load8(c, n, op) = Write(PastD(c), Place(c), Get(c, R("HL", Z(op))))
    BY <1>6 DEF Load8
  <2>2. Constants(n) + Displacement(c, n) = IF c.table = "HL" THEN 0 ELSE 1
    BY <1>6 DEF Constants, Displacement, BitNames, TestNames
  <2>3. Get(c, R("HL", Z(op))) \in Int /\ Place(c) \in Int
    BY <1>2, GetIsByte, OperandsAreBytes
  <2> QED
    BY <2>1, <2>2, <2>3, PastDKeeps, WriteKeeps DEF GoesOn
<1>7. CASE n = <<"LD_INDIRECT_HL", "N">>
  <2> DEFINE k == IF c.table = "HL" THEN 0 ELSE 1
  <2>1. Load8(c, n, op) = Write(Skip(PastD(c), 1), Place(c), N(PastD(c)))
    BY <1>7 DEF Load8
  <2>2. Constants(n) + Displacement(c, n) = k + 1
    BY <1>7 DEF Constants, Displacement, BitNames, TestNames
  <2>3. Place(c) \in Int /\ IsProcessor(PastD(c)) /\ PastD(c).pc = Wrap(c.pc + k) /\ k \in Int
    BY OperandsAreBytes, PastDKeeps
  <2> HIDE DEF k
  <2>4. N(PastD(c)) \in Int
    BY <2>3, OperandsAreBytes
  <2>5. IsProcessor(Skip(PastD(c), 1)) /\ Skip(PastD(c), 1).pc = Wrap(Wrap(c.pc + k) + 1)
    BY <2>3, SkipKeeps, SMTT(30)
  <2>6. Wrap(Wrap(c.pc + k) + 1) = Wrap(c.pc + (k + 1))
    <3>1. c.pc + k \in Int /\ 1 \in Int /\ (c.pc + k) + 1 = c.pc + (k + 1)
      BY <1>1, <2>3
    <3>2. Wrap(Wrap(c.pc + k) + 1) = Wrap((c.pc + k) + 1)
      BY <3>1, WrapTwice
    <3> QED
      BY <3>1, <3>2
  <2> QED
    BY <2>1, <2>2, <2>3, <2>4, <2>5, <2>6, WriteKeeps DEF GoesOn
<1>8. CASE n = Whole("LD_A_INDIRECT_BC")
  <2>1. Load8(c, n, op) = Set(c, RegA, Read(c, c.word["BC"]))
    BY <1>8 DEF Load8, Whole
  <2>2. Constants(n) = 0 /\ Displacement(c, n) = 0
    BY <1>8 DEF Whole, Constants, Displacement, BitNames, TestNames
  <2> QED
    BY <1>1, <1>2, <1>operands, <2>1, <2>2, SetIsProcessor, Stays
<1>9. CASE n = Whole("LD_A_INDIRECT_DE")
  <2>1. Load8(c, n, op) = Set(c, RegA, Read(c, c.word["DE"]))
    BY <1>9 DEF Load8, Whole
  <2>2. Constants(n) = 0 /\ Displacement(c, n) = 0
    BY <1>9 DEF Whole, Constants, Displacement, BitNames, TestNames
  <2> QED
    BY <1>1, <1>2, <1>operands, <2>1, <2>2, SetIsProcessor, Stays
<1>10. CASE n = Whole("LD_A_INDIRECT_NN")
  <2>1. Load8(c, n, op) = Set(Skip(c, 2), RegA, Read(c, NN(c)))
    BY <1>10 DEF Load8, Whole
  <2>2. Constants(n) = 2 /\ Displacement(c, n) = 0
    BY <1>10 DEF Whole, Constants, Displacement, BitNames, TestNames
  <2>3. IsProcessor(Load8(c, n, op)) /\ Load8(c, n, op).pc = Wrap(c.pc + (2 + 0))
    BY <1>2, <1>behind, <1>operands, <2>1, SetIsProcessor
  <2> QED
    BY <2>2, <2>3, Advances
<1>11. CASE n = Whole("LD_INDIRECT_BC_A")
  <2>1. Load8(c, n, op) = Write(c, c.word["BC"], Get(c, RegA))
    BY <1>11 DEF Load8, Whole
  <2>2. Constants(n) = 0 /\ Displacement(c, n) = 0
    BY <1>11 DEF Whole, Constants, Displacement, BitNames, TestNames
  <2> QED
    BY <1>1, <1>2, <1>operands, <2>1, <2>2, WriteKeeps, Stays
<1>12. CASE n = Whole("LD_INDIRECT_DE_A")
  <2>1. Load8(c, n, op) = Write(c, c.word["DE"], Get(c, RegA))
    BY <1>12 DEF Load8, Whole
  <2>2. Constants(n) = 0 /\ Displacement(c, n) = 0
    BY <1>12 DEF Whole, Constants, Displacement, BitNames, TestNames
  <2> QED
    BY <1>1, <1>2, <1>operands, <2>1, <2>2, WriteKeeps, Stays
<1>13. CASE n = Whole("LD_INDIRECT_NN_A")
  <2>1. Load8(c, n, op) = Write(Skip(c, 2), NN(c), Get(c, RegA))
    BY <1>13 DEF Load8, Whole
  <2>2. Constants(n) = 2 /\ Displacement(c, n) = 0
    BY <1>13 DEF Whole, Constants, Displacement, BitNames, TestNames
  <2>3. IsProcessor(Load8(c, n, op)) /\ Load8(c, n, op).pc = Wrap(c.pc + (2 + 0))
    BY <1>2, <1>behind, <1>operands, <2>1, WriteKeeps
  <2> QED
    BY <2>2, <2>3, Advances
<1> QED
  BY <1>3, <1>4, <1>5, <1>6, <1>7, <1>8, <1>9, <1>10, <1>11, <1>12, <1>13 DEF Load8Instructions, Load8Names

LEMMA Load16Right ==
  ASSUME NEW c, IsProcessor(c), NEW n \in {Whole(name) : name \in Load16Names}, NEW op \in Opcode
  PROVE  GoesOn(c, n, Load16(c, n, op))
<1> DEFINE t == c.table
           rr == RR(t, P(op))
           ss == SS(t, P(op))
           d == Skip(c, 2)
<1>1. t \in Words /\ rr \in Words /\ ss \in Words /\ "SP" \in Words
  BY Numbers, Parts, TableWords DEF Words
<1>2. /\ c.word[t] \in Word /\ c.word[rr] \in Word /\ c.word[ss] \in Word
      /\ c.word[t] \in Int /\ c.word[rr] \in Int /\ c.word[ss] \in Int
  BY <1>1, Fields, Numbers
<1>3. NN(c) \in Int /\ Top(c) \in Int
  BY OperandsAreBytes, PoppedKeeps
<1>4. ReadWord(c, NN(c)) \in Int
  BY <1>3, ReadWordIsWord, WordIsInt
<1>5. IsProcessor(d) /\ d.pc = Wrap(c.pc + (2 + 0))
  BY SkipKeeps
<1>6. CASE n = Whole("LD_RR_NN")
  <2>1. Load16(c, n, op) = SetWord(d, rr, NN(c))
    BY <1>6 DEF Load16, Whole
  <2>2. Constants(n) = 2 /\ Displacement(c, n) = 0
    BY <1>6 DEF Whole, Constants, Displacement, BitNames, TestNames
  <2>3. IsProcessor(Load16(c, n, op)) /\ Load16(c, n, op).pc = Wrap(c.pc + (2 + 0))
    BY <1>1, <1>3, <1>5, <2>1, SetWordIsProcessor
  <2> QED
    BY <2>2, <2>3, Advances
<1>7. CASE n = Whole("LD_HL_INDIRECT_NN")
  <2>1. Load16(c, n, op) = SetWord(d, t, ReadWord(c, NN(c)))
    BY <1>7 DEF Load16, Whole
  <2>2. Constants(n) = 2 /\ Displacement(c, n) = 0
    BY <1>7 DEF Whole, Constants, Displacement, BitNames, TestNames
  <2>3. IsProcessor(Load16(c, n, op)) /\ Load16(c, n, op).pc = Wrap(c.pc + (2 + 0))
    BY <1>1, <1>4, <1>5, <2>1, SetWordIsProcessor
  <2> QED
    BY <2>2, <2>3, Advances
<1>8. CASE n = Whole("LD_RR_INDIRECT_NN")
  <2>1. Load16(c, n, op) = SetWord(d, rr, ReadWord(c, NN(c)))
    BY <1>8 DEF Load16, Whole
  <2>2. Constants(n) = 2 /\ Displacement(c, n) = 0
    BY <1>8 DEF Whole, Constants, Displacement, BitNames, TestNames
  <2>3. IsProcessor(Load16(c, n, op)) /\ Load16(c, n, op).pc = Wrap(c.pc + (2 + 0))
    BY <1>1, <1>4, <1>5, <2>1, SetWordIsProcessor, ZenonT(30)
  <2> QED
    BY <2>2, <2>3, Advances
<1>9. CASE n = Whole("LD_INDIRECT_NN_HL")
  <2>1. Load16(c, n, op) = WriteWord(d, NN(c), c.word[t])
    BY <1>9 DEF Load16, Whole
  <2>2. Constants(n) = 2 /\ Displacement(c, n) = 0
    BY <1>9 DEF Whole, Constants, Displacement, BitNames, TestNames
  <2>3. IsProcessor(Load16(c, n, op)) /\ Load16(c, n, op).pc = Wrap(c.pc + (2 + 0))
    BY <1>2, <1>3, <1>5, <2>1, WriteWordKeeps
  <2> QED
    BY <2>2, <2>3, Advances
<1>10. CASE n = Whole("LD_INDIRECT_NN_RR")
  <2>1. Load16(c, n, op) = WriteWord(d, NN(c), c.word[rr])
    BY <1>10 DEF Load16, Whole
  <2>2. Constants(n) = 2 /\ Displacement(c, n) = 0
    BY <1>10 DEF Whole, Constants, Displacement, BitNames, TestNames
  <2>3. IsProcessor(Load16(c, n, op)) /\ Load16(c, n, op).pc = Wrap(c.pc + (2 + 0))
    BY <1>2, <1>3, <1>5, <2>1, WriteWordKeeps
  <2> QED
    BY <2>2, <2>3, Advances
<1>11. CASE n = Whole("LD_SP_HL")
  <2>1. Load16(c, n, op) = SetWord(c, "SP", c.word[t])
    BY <1>11 DEF Load16, Whole
  <2>2. Constants(n) = 0 /\ Displacement(c, n) = 0
    BY <1>11 DEF Whole, Constants, Displacement, BitNames, TestNames
  <2>3. IsProcessor(Load16(c, n, op)) /\ Load16(c, n, op).pc = c.pc
    <3>1. "SP" \in Words /\ c.word[t] \in Int
      BY <1>1, <1>2 DEF Words
    <3> QED
      BY <2>1, <3>1, SetWordIsProcessor
  <2> QED
    BY <2>2, <2>3, Stays
<1>12. CASE n = Whole("PUSH_SS")
  <2>1. Load16(c, n, op) = Push(c, c.word[ss])
    BY <1>12 DEF Load16, Whole
  <2>2. Constants(n) = 0 /\ Displacement(c, n) = 0
    BY <1>12 DEF Whole, Constants, Displacement, BitNames, TestNames
  <2>3. IsProcessor(Load16(c, n, op)) /\ Load16(c, n, op).pc = c.pc
    BY <1>2, <2>1, PushIsProcessor
  <2> QED
    BY <2>2, <2>3, Stays
<1>13. CASE n = Whole("POP_SS")
  <2>1. Load16(c, n, op) = Popped(SetWord(c, ss, Top(c)))
    BY <1>13 DEF Load16, Whole
  <2>2. Constants(n) = 0 /\ Displacement(c, n) = 0
    BY <1>13 DEF Whole, Constants, Displacement, BitNames, TestNames
  <2>popped. IsProcessor(SetWord(c, ss, Top(c))) /\ SetWord(c, ss, Top(c)).pc = c.pc
    BY <1>1, <1>3, SetWordIsProcessor
  <2>3. IsProcessor(Load16(c, n, op)) /\ Load16(c, n, op).pc = c.pc
    BY <2>popped, <2>1, PoppedKeeps
  <2> QED
    BY <2>2, <2>3, Stays
<1> QED
  BY <1>6, <1>7, <1>8, <1>9, <1>10, <1>11, <1>12, <1>13 DEF Load16Names

(* The flags fit whatever they are put into. *)
LEMMA FlagTables ==
  ASSUME NEW v \in Int
  PROVE  SZYX(v) \in Int /\ Parity(v) \in Int /\ SZYXP(v) \in Int /\ YX(v) \in Int
<1>1. \A k \in 0..7 : Bit(v, k) \in Int
  BY BitIsBit
<1>2. /\ Bit(v, 0) \in Int /\ Bit(v, 1) \in Int /\ Bit(v, 2) \in Int /\ Bit(v, 3) \in Int
      /\ Bit(v, 4) \in Int /\ Bit(v, 5) \in Int /\ Bit(v, 6) \in Int /\ Bit(v, 7) \in Int
  BY <1>1
<1>3. SZYX(v) \in Int /\ Parity(v) \in Int /\ YX(v) \in Int
  BY <1>2 DEF SZYX, Parity, YX
<1> QED
  BY <1>3 DEF SZYXP

LEMMA LoadIRRight ==
  ASSUME NEW c, IsProcessor(c), NEW n \in {Whole(name) : name \in LoadIRNames}, NEW op \in Opcode
  PROVE  GoesOn(c, n, LoadIR(c, n, op))
<1> DEFINE a == Get(c, RegA)
           v == IF op = 87 THEN c.i ELSE c.r
           f == 256 * v + SZYX(v) + 4 * c.iff2 + (Flags(c) % 2)
<1>1. ASSUME NEW name \in LoadIRNames, n = Whole(name)
      PROVE  Constants(n) = 0 /\ Displacement(c, n) = 0
  <2>1. name \in {"LD_A_I_LD_A_R", "LD_I_A_LD_R_A"} /\ n[1] = name /\ n[2] = ""
    BY <1>1 DEF LoadIRNames, Whole
  <2> QED
    BY <2>1 DEF Constants, Displacement, BitNames, TestNames
<1>2. CASE n = Whole("LD_A_I_LD_A_R")
  <2>1. v \in Int /\ c.iff2 \in Int /\ Flags(c) % 2 \in Int
    BY Numbers, FlagsAreByte
  <2>2. f \in Int
    <3> HIDE DEF v
    <3> SZYX(v) \in Int
      BY <2>1, FlagTables
    <3> QED
      BY <2>1
  <2>3. LoadIR(c, n, op) = SetWord(c, "AF", f)
    BY <1>2 DEF LoadIR, Whole
  <2> HIDE DEF f
  <2> QED
    BY <1>1, <1>2, <2>2, <2>3, SetWordIsProcessor, Stays DEF Words, LoadIRNames
<1>3. CASE n = Whole("LD_I_A_LD_R_A")
  <2>1. a \in Byte
    BY GetIsByte, NamedHalves
  <2>2. LoadIR(c, n, op) = IF op = 71 THEN [c EXCEPT !.i = a] ELSE [c EXCEPT !.r = a]
    BY <1>3 DEF LoadIR, Whole
  <2> HIDE DEF a
  <2>3. /\ IsProcessor([c EXCEPT !.i = a]) /\ [c EXCEPT !.i = a].pc = c.pc
        /\ IsProcessor([c EXCEPT !.r = a]) /\ [c EXCEPT !.r = a].pc = c.pc
    BY <2>1, SMT DEF IsProcessor
  <2> QED
    BY <1>1, <1>3, <2>2, <2>3, Stays DEF LoadIRNames
<1> QED
  BY <1>2, <1>3 DEF LoadIRNames

LEMMA ExchangePrimedKeeps ==
  ASSUME NEW c, IsProcessor(c), NEW ws \in SUBSET Primed
  PROVE  IsProcessor(ExchangePrimed(c, ws)) /\ ExchangePrimed(c, ws).pc = c.pc
<1> DEFINE f == [w \in Words |-> IF w \in ws THEN c.alternates[w] ELSE c.word[w]]
           g == [w \in Primed |-> IF w \in ws THEN c.word[w] ELSE c.alternates[w]]
<1>1. ExchangePrimed(c, ws) = [c EXCEPT !.word = f, !.alternates = g]
  BY DEF ExchangePrimed
<1>2. f \in [Words -> Word] /\ g \in [Primed -> Word]
  BY Fields DEF Primed, Words
<1> HIDE DEF f, g
<1> DEFINE d == [c EXCEPT !.word = f]
<1>3. IsProcessor(d) /\ d.pc = c.pc
  BY <1>2, SMT DEF IsProcessor
<1>4. [c EXCEPT !.word = f, !.alternates = g] = [d EXCEPT !.alternates = g]
  BY SMT DEF IsProcessor
<1> HIDE DEF d
<1>5. IsProcessor([d EXCEPT !.alternates = g]) /\ [d EXCEPT !.alternates = g].pc = d.pc
  BY <1>2, <1>3, SMT DEF IsProcessor
<1> QED
  BY <1>1, <1>3, <1>4, <1>5

LEMMA ExchangeRight ==
  ASSUME NEW c, IsProcessor(c), NEW n \in {Whole(name) : name \in ExchangeNames}, NEW op \in Opcode
  PROVE  GoesOn(c, n, Exchange(c, n, op))
<1> DEFINE e == SetWord(c, "DE", c.word["HL"])
           x == WriteWord(c, c.word["SP"], c.word[c.table])
<1>1. "DE" \in Words /\ "HL" \in Words /\ "SP" \in Words /\ c.table \in Words
  BY Numbers DEF Words
<1>2. /\ c.word["HL"] \in Int /\ c.word["DE"] \in Int /\ c.word["SP"] \in Int
      /\ c.word[c.table] \in Int /\ Top(c) \in Int
  BY <1>1, Numbers, Fields, PoppedKeeps
<1>3. IsProcessor(e) /\ e.pc = c.pc
  BY <1>1, <1>2, SetWordIsProcessor
<1>4. IsProcessor(x) /\ x.pc = c.pc
  BY <1>1, <1>2, WriteWordKeeps
<1> HIDE DEF e, x
<1>5. {"AF"} \in SUBSET Primed /\ {"BC", "DE", "HL"} \in SUBSET Primed
  BY DEF Primed
<1>6. CASE n = Whole("EX_DE_HL")
  <2>1. Exchange(c, n, op) = SetWord(e, "HL", c.word["DE"])
    BY <1>6 DEF Exchange, Whole, e
  <2>2. Constants(n) = 0 /\ Displacement(c, n) = 0
    BY <1>6 DEF Whole, Constants, Displacement, BitNames, TestNames
  <2>3. IsProcessor(Exchange(c, n, op)) /\ Exchange(c, n, op).pc = c.pc
    <3>1. LET d == SetWord(e, "HL", c.word["DE"]) IN IsProcessor(d) /\ d.pc = e.pc
      BY <1>1, <1>2, <1>3, SetWordIsProcessor
    <3> QED
      BY <1>3, <2>1, <3>1
  <2> QED
    BY <2>2, <2>3, Stays
<1>7. CASE n = Whole("EX_AF_AF_PRIME")
  <2>1. Exchange(c, n, op) = ExchangePrimed(c, {"AF"})
    BY <1>7 DEF Exchange, Whole
  <2>2. Constants(n) = 0 /\ Displacement(c, n) = 0
    BY <1>7 DEF Whole, Constants, Displacement, BitNames, TestNames
  <2>3. IsProcessor(Exchange(c, n, op)) /\ Exchange(c, n, op).pc = c.pc
    BY <1>5, <2>1, ExchangePrimedKeeps
  <2> QED
    BY <2>2, <2>3, Stays
<1>8. CASE n = Whole("EXX")
  <2>1. Exchange(c, n, op) = ExchangePrimed(c, {"BC", "DE", "HL"})
    BY <1>8 DEF Exchange, Whole
  <2>2. Constants(n) = 0 /\ Displacement(c, n) = 0
    BY <1>8 DEF Whole, Constants, Displacement, BitNames, TestNames
  <2>3. IsProcessor(Exchange(c, n, op)) /\ Exchange(c, n, op).pc = c.pc
    BY <1>5, <2>1, ExchangePrimedKeeps
  <2> QED
    BY <2>2, <2>3, Stays
<1>9. CASE n = Whole("EX_INDIRECT_SP_HL")
  <2>1. Exchange(c, n, op) = SetWord(x, c.table, Top(c))
    BY <1>9 DEF Exchange, Whole, x
  <2>2. Constants(n) = 0 /\ Displacement(c, n) = 0
    BY <1>9 DEF Whole, Constants, Displacement, BitNames, TestNames
  <2>3. IsProcessor(Exchange(c, n, op)) /\ Exchange(c, n, op).pc = c.pc
    <3>1. LET d == SetWord(x, c.table, Top(c)) IN IsProcessor(d) /\ d.pc = x.pc
      BY <1>1, <1>2, <1>4, SetWordIsProcessor
    <3> QED
      BY <1>4, <2>1, <3>1
  <2> QED
    BY <2>2, <2>3, Stays
<1> QED
  BY <1>6, <1>7, <1>8, <1>9 DEF ExchangeNames

-----------------------------------------------------------------------------
(* Single steps of the block instructions, ports and bits.                 *)

LEMMA SetFIsProcessor ==
  ASSUME NEW c, IsProcessor(c), NEW f \in Int
  PROVE  IsProcessor(SetF(c, f)) /\ SetF(c, f).pc = c.pc
BY SetFKeeps

LEMMA AdvanceIsProcessor ==
  ASSUME NEW c, IsProcessor(c), NEW ws \in SUBSET Words, NEW d \in Int
  PROVE  IsProcessor(Advance(c, ws, d)) /\ Advance(c, ws, d).pc = c.pc
BY AdvanceKeeps

LEMMA FlagIsInt ==
  ASSUME NEW f \in Int, NEW b
  PROVE  Flag(f, b) \in Int
BY DEF Flag

LEMMA CountedKeeps ==
  ASSUME NEW c, IsProcessor(c)
  PROVE  IsProcessor(Counted(c).cpu) /\ Counted(c).cpu.pc = c.pc /\ Counted(c).p \in Int
<1> DEFINE d == Advance(c, {"BC"}, -1)
<1>1. {"BC"} \in SUBSET Words /\ -1 \in Int
  BY DEF Words
<1>2. IsProcessor(d) /\ d.pc = c.pc
  BY <1>1, AdvanceIsProcessor
<1>3. Counted(c).cpu = d /\ Counted(c).p = Flag(4, d.word["BC"] # 0)
  BY DEF Counted
<1> HIDE DEF d
<1> QED
  BY <1>2, <1>3, FlagIsInt

LEMMA BlockLoadRight ==
  ASSUME NEW c, IsProcessor(c), NEW op \in Opcode, NEW n, n = Whole("LDI_LDD")
  PROVE  GoesOn(c, n, BlockLoad(c, n, op))
<1> DEFINE byte == Read(c, c.word["HL"])
           a == Get(c, RegA)
           f == Flags(c)
           m == Write(c, c.word["DE"], byte)
           s == IF op = 160 THEN 1 ELSE -1
           u == Advance(Counted(m).cpu, {"DE", "HL"}, s)
           v == 64 * (f \div 64) + (f % 2) + Counted(m).p + YX(byte + a)
<1>1. /\ c.word["HL"] \in Int /\ c.word["DE"] \in Int /\ {"DE", "HL"} \in SUBSET Words
      /\ a \in Int /\ f \div 64 \in Int /\ f % 2 \in Int /\ s \in Int
  BY Numbers, GetIsByte, NamedHalves, FlagsAreByte DEF Words
<1>2. byte \in Int
  BY <1>1, ReadIsInt
<1>3. BlockLoad(c, n, op) = SetF(u, v)
  BY DEF BlockLoad
<1> HIDE DEF byte, a, f, s
<1>4. IsProcessor(m) /\ m.pc = c.pc
  BY <1>1, <1>2, WriteKeeps
<1> HIDE DEF m
<1>5. IsProcessor(Counted(m).cpu) /\ Counted(m).cpu.pc = c.pc /\ Counted(m).p \in Int
  BY <1>4, CountedKeeps
<1>6. IsProcessor(u) /\ u.pc = Counted(m).cpu.pc
  BY <1>1, <1>5, AdvanceIsProcessor
<1>7. v \in Int
  <2>1. byte + a \in Int
    BY <1>1, <1>2
  <2>2. YX(byte + a) \in Int
    BY <2>1, FlagTables
  <2> QED
    BY <1>1, <1>5, <2>2
<1> HIDE DEF u, v
<1>8. IsProcessor(SetF(u, v)) /\ SetF(u, v).pc = u.pc
  BY <1>6, <1>7, SetFIsProcessor
<1>9. Constants(n) = 0 /\ Displacement(c, n) = 0
  BY DEF Whole, Constants, Displacement, BitNames, TestNames
<1> QED
  BY <1>3, <1>5, <1>6, <1>8, <1>9, Stays

LEMMA BlockCompareRight ==
  ASSUME NEW c, IsProcessor(c), NEW op \in Opcode, NEW n, n = Whole("CPI_CPD")
  PROVE  GoesOn(c, n, BlockCompare(c, n, op))
<1> DEFINE a == Get(c, RegA)
           byte == Read(c, c.word["HL"])
           z == a - byte
           h == (Bit(a, 4) + Bit(byte, 4) + Bit(z, 4)) % 2
           s == IF op = 161 THEN 1 ELSE -1
           u == Advance(Counted(c).cpu, {"HL"}, s)
           v == 128 * Bit(z, 7) + Flag(64, z = 0) + YX(z - h) + 16 * h + Counted(c).p + 2
                  + (Flags(c) % 2)
<1>1. /\ c.word["HL"] \in Int /\ {"HL"} \in SUBSET Words
      /\ a \in Int /\ Flags(c) % 2 \in Int /\ s \in Int
  BY Numbers, GetIsByte, NamedHalves, FlagsAreByte DEF Words
<1>2. byte \in Int
  BY <1>1, ReadIsInt
<1>3. BlockCompare(c, n, op) = SetF(u, v)
  BY DEF BlockCompare
<1> HIDE DEF byte, a, s
<1>4. z \in Int
  BY <1>1, <1>2
<1> HIDE DEF z
<1>5. /\ Bit(a, 4) \in Int /\ Bit(byte, 4) \in Int /\ Bit(z, 4) \in Int /\ Bit(z, 7) \in Int
  <2>1. 4 \in 0..7 /\ 7 \in 0..7
    OBVIOUS
  <2> QED
    BY <1>1, <1>2, <1>4, <2>1, BitIsBit
<1>6. h \in Int
  BY <1>5
<1> HIDE DEF h
<1>7. z - h \in Int
  BY <1>4, <1>6
<1>8. IsProcessor(Counted(c).cpu) /\ Counted(c).cpu.pc = c.pc /\ Counted(c).p \in Int
  BY CountedKeeps
<1>9. IsProcessor(u) /\ u.pc = Counted(c).cpu.pc
  BY <1>1, <1>8, AdvanceIsProcessor
<1>10. v \in Int
  <2>1. YX(z - h) \in Int /\ Flag(64, z = 0) \in Int
    BY <1>7, FlagTables, FlagIsInt
  <2> QED
    BY <1>1, <1>5, <1>6, <1>8, <2>1
<1> HIDE DEF u, v
<1>11. IsProcessor(SetF(u, v)) /\ SetF(u, v).pc = u.pc
  BY <1>9, <1>10, SetFIsProcessor
<1>12. Constants(n) = 0 /\ Displacement(c, n) = 0
  BY DEF Whole, Constants, Displacement, BitNames, TestNames
<1> QED
  BY <1>3, <1>8, <1>9, <1>11, <1>12, Stays

LEMMA InputKeeps ==
  ASSUME NEW c, IsProcessor(c), NEW port \in InPorts
  PROVE  IsProcessor(Input(c, port)) /\ Input(c, port).pc = c.pc
<1>1. RegA \in AllHalves /\ "HL" \in Words
  BY NamedHalves DEF Words
<1>2. CASE port = 241
  <2>1. Input(c, port) = SetWord(Set(c, RegA, 0), "HL", Ticks)
    BY <1>2 DEF Input
  <2>2. IsProcessor(Set(c, RegA, 0)) /\ Set(c, RegA, 0).pc = c.pc
    BY <1>1, SetIsProcessor
  <2>3. Ticks \in Int
    BY TransferAssumption, WordIsInt
  <2> QED
    BY <1>1, <2>1, <2>2, <2>3, SetWordIsProcessor
<1>3. CASE port # 241
  <2>1. Input(c, port) = Set(c, RegA, Answer[port])
    BY <1>3 DEF Input
  <2>2. Answer[port] \in Byte
    BY <1>3, TransferAssumption
  <2> QED
    BY <1>1, <2>1, <2>2, ByteIsInt, SetIsProcessor
<1> QED
  BY <1>2, <1>3

LEMMA OutputKeeps ==
  ASSUME NEW c, IsProcessor(c), NEW port, NEW x \in Byte
  PROVE  IsProcessor(Output(c, port, x)) /\ Output(c, port, x).pc = c.pc
<1>1. RegA \in AllHalves /\ Served \in Int
  BY NamedHalves, TransferAssumption, ByteIsInt
<1>2. ASSUME NEW d, IsProcessor(d), NEW b \in Byte
      PROVE  IsProcessor([d EXCEPT !.sent = b]) /\ [d EXCEPT !.sent = b].pc = d.pc
  BY <1>2, SMT DEF IsProcessor
<1>3. CASE port = 240
  <2>1. Output(c, port, x) = [Set(c, RegA, Served) EXCEPT !.sent = x]
    BY <1>3 DEF Output
  <2>2. IsProcessor(Set(c, RegA, Served)) /\ Set(c, RegA, Served).pc = c.pc
    BY <1>1, SetIsProcessor
  <2> QED
    BY <1>2, <2>1, <2>2
<1>4. CASE port # 240
  <2>1. Output(c, port, x) = [c EXCEPT !.sent = Get(c, RegA)]
    BY <1>4 DEF Output
  <2>2. Get(c, RegA) \in Byte
    BY <1>1, GetIsByte
  <2> QED
    BY <1>2, <2>1, <2>2
<1> QED
  BY <1>3, <1>4

LEMMA PortFlagsInt ==
  ASSUME NEW x \in Int, NEW b \in Int, NEW k \in Int
  PROVE  PortFlags(x, b, k) \in Int
<1>1. SZYX(b) \in Int /\ Parity(b) \in Int
  BY FlagTables
<1>2. k % 8 \in Int
  OBVIOUS
<1>3. Parity(k % 8) \in Int
  BY <1>2, FlagTables
<1>4. Bit(x, 7) \in Int /\ Bit(x, 6) \in Int
  BY BitIsBit
<1>5. (IF k > 255 THEN 17 ELSE Bit(x, 6)) \in Int
  BY <1>4
<1> QED
  BY <1>1, <1>3, <1>4, <1>5 DEF PortFlags

LEMMA RegCIsByte ==
  ASSUME NEW c, IsProcessor(c)
  PROVE  RegC(c) \in Byte /\ RegC(c) \in Int
<1>1. c.word["BC"] \in Word
  BY Fields DEF Words
<1> QED
  BY <1>1, Halves, ByteIsInt DEF RegC

LEMMA BlockPortRight ==
  ASSUME NEW c, IsProcessor(c), NEW op \in Opcode,
         NEW n \in {Whole(name) : name \in BlockPortNames},
         n[1] = "INI_IND" => RegC(c) \in InPorts
  PROVE  GoesOn(c, n, BlockPort(c, n, op))
<1> DEFINE d == IF op \in {162, 163} THEN 1 ELSE -1
           Count(e) == Set(e, RegB, Get(e, RegB) - 1)
           byte == Read(c, c.word["HL"])
<1>1. /\ c.word["HL"] \in Int /\ {"HL"} \in SUBSET Words /\ d \in Int
      /\ RegC(c) \in Int /\ RegB \in AllHalves
  BY Numbers, RegCIsByte, NamedHalves DEF Words
<1>2. byte \in Byte /\ byte \in Int
  BY <1>1, ReadIsByte, ReadIsInt
<1>3. ASSUME NEW e, IsProcessor(e), e.pc = c.pc
      PROVE  /\ IsProcessor(Count(Advance(e, {"HL"}, d))) /\ Count(Advance(e, {"HL"}, d)).pc = c.pc
             /\ Get(Count(Advance(e, {"HL"}, d)), RegB) \in Int
             /\ Count(Advance(e, {"HL"}, d)).word["HL"] % 256 \in Int
  <2> DEFINE m == Advance(e, {"HL"}, d)
  <2>1. IsProcessor(m) /\ m.pc = c.pc
    BY <1>1, <1>3, AdvanceIsProcessor
  <2> HIDE DEF m
  <2>2. Get(m, RegB) - 1 \in Int
    BY <1>1, <2>1, GetIsByte
  <2>3. IsProcessor(Count(m)) /\ Count(m).pc = m.pc
    BY <1>1, <2>1, <2>2, SetIsProcessor
  <2> HIDE DEF Count
  <2>4. Get(Count(m), RegB) \in Int /\ Count(m).word["HL"] \in Int
    BY <1>1, <2>3, GetIsByte, Numbers DEF Words
  <2> QED
    BY <2>1, <2>3, <2>4 DEF m
<1> HIDE DEF d, byte, Count
<1>4. CASE n = Whole("INI_IND")
  <2> DEFINE in == Input(c, RegC(c))
             w == Write(in, in.word["HL"], 0)
             done == Count(Advance(w, {"HL"}, d))
             f == PortFlags(0, Get(done, RegB), (RegC(c) + d) % 256)
  <2>1. IsProcessor(in) /\ in.pc = c.pc
    BY <1>4, InputKeeps DEF Whole
  <2>2. BlockPort(c, n, op) = SetF(done, f)
    BY <1>4, ZenonT(30) DEF BlockPort, Whole, Count, d
  <2> HIDE DEF in
  <2>3. in.word["HL"] \in Int /\ 0 \in Int
    BY <2>1, Numbers DEF Words
  <2>4. IsProcessor(w) /\ w.pc = c.pc
    BY <2>1, <2>3, WriteKeeps
  <2> HIDE DEF w
  <2>5. IsProcessor(done) /\ done.pc = c.pc /\ Get(done, RegB) \in Int
    BY <1>3, <2>4
  <2> HIDE DEF done
  <2>6. (RegC(c) + d) % 256 \in Int
    BY <1>1
  <2>7. f \in Int
    BY <2>5, <2>6, PortFlagsInt
  <2> HIDE DEF f
  <2>8. IsProcessor(SetF(done, f)) /\ SetF(done, f).pc = done.pc
    BY <2>5, <2>7, SetFIsProcessor
  <2>9. Constants(n) = 0 /\ Displacement(c, n) = 0
    BY <1>4 DEF Whole, Constants, Displacement, BitNames, TestNames
  <2> QED
    BY <2>2, <2>5, <2>8, <2>9, Stays
<1>5. CASE n = Whole("OUTI_OUTD")
  <2> DEFINE o == Output(c, RegC(c), byte)
             done == Count(Advance(o, {"HL"}, d))
             f == PortFlags(byte, Get(done, RegB), byte + (done.word["HL"] % 256))
  <2>1. IsProcessor(o) /\ o.pc = c.pc
    BY <1>2, OutputKeeps
  <2>2. BlockPort(c, n, op) = SetF(done, f)
    BY <1>5, ZenonT(30) DEF BlockPort, Whole, Count, d, byte
  <2> HIDE DEF o
  <2>3. /\ IsProcessor(done) /\ done.pc = c.pc /\ Get(done, RegB) \in Int
        /\ done.word["HL"] % 256 \in Int
    BY <1>3, <2>1
  <2> HIDE DEF done
  <2>4. byte + (done.word["HL"] % 256) \in Int
    BY <1>2, <2>3
  <2>5. f \in Int
    BY <1>2, <2>3, <2>4, PortFlagsInt
  <2> HIDE DEF f
  <2>6. IsProcessor(SetF(done, f)) /\ SetF(done, f).pc = done.pc
    BY <2>3, <2>5, SetFIsProcessor
  <2>7. Constants(n) = 0 /\ Displacement(c, n) = 0
    BY <1>5 DEF Whole, Constants, Displacement, BitNames, TestNames
  <2> QED
    BY <2>2, <2>3, <2>6, <2>7, Stays
<1> QED
  BY <1>4, <1>5 DEF BlockPortNames

LEMMA InputsRight ==
  ASSUME NEW c, IsProcessor(c), NEW op \in Opcode,
         NEW n \in {Whole(name) : name \in InputNames},
         (IF n[1] = "IN_A_N" THEN N(c) ELSE RegC(c)) \in InPorts
  PROVE  GoesOn(c, n, Inputs(c, n, op))
<1>1. CASE n = Whole("IN_A_N")
  <2>1. Inputs(c, n, op) = Input(Skip(c, 1), N(c)) /\ N(c) \in InPorts
    BY <1>1 DEF Inputs, Whole
  <2>2. IsProcessor(Skip(c, 1)) /\ Skip(c, 1).pc = Wrap(c.pc + (1 + 0))
    BY SkipKeeps
  <2>3. IsProcessor(Input(Skip(c, 1), N(c))) /\ Input(Skip(c, 1), N(c)).pc = Skip(c, 1).pc
    BY <2>1, <2>2, InputKeeps
  <2>4. Constants(n) = 1 /\ Displacement(c, n) = 0
    BY <1>1 DEF Whole, Constants, Displacement, BitNames, TestNames
  <2> QED
    BY <2>1, <2>2, <2>3, <2>4, Advances
<1>2. CASE n = Whole("IN_R_C")
  <2> DEFINE d == Input(c, RegC(c))
             e == IF Y(op) = INDIRECT_HL THEN d ELSE Set(d, R("HL", Y(op)), 0)
             f == SZYXP(0) + (Flags(c) % 2)
  <2>1. Inputs(c, n, op) = SetF(e, f) /\ RegC(c) \in InPorts
    BY <1>2 DEF Inputs, Whole
  <2>2. IsProcessor(d) /\ d.pc = c.pc
    BY <2>1, InputKeeps
  <2> HIDE DEF d
  <2>3. R("HL", Y(op)) \in AllHalves
    BY Parts, TableHalves DEF Words
  <2>4. IsProcessor(e) /\ e.pc = c.pc
    <3>1. IsProcessor(Set(d, R("HL", Y(op)), 0)) /\ Set(d, R("HL", Y(op)), 0).pc = d.pc
      BY <2>2, <2>3, SetIsProcessor
    <3> QED
      BY <2>2, <3>1
  <2> HIDE DEF e
  <2>5. f \in Int
    BY FlagTables, FlagsAreByte
  <2> HIDE DEF f
  <2>6. IsProcessor(SetF(e, f)) /\ SetF(e, f).pc = e.pc
    BY <2>4, <2>5, SetFIsProcessor
  <2>7. Constants(n) = 0 /\ Displacement(c, n) = 0
    BY <1>2 DEF Whole, Constants, Displacement, BitNames, TestNames
  <2> QED
    BY <2>1, <2>4, <2>6, <2>7, Stays
<1> QED
  BY <1>1, <1>2 DEF InputNames

LEMMA OutputsRight ==
  ASSUME NEW c, IsProcessor(c), NEW op \in Opcode,
         NEW n \in {Whole(name) : name \in OutputNames}
  PROVE  GoesOn(c, n, Outputs(c, n, op))
<1>1. CASE n = Whole("OUT_N_A")
  <2>1. Outputs(c, n, op) = Output(Skip(c, 1), N(c), Get(c, RegA))
    BY <1>1 DEF Outputs, Whole
  <2>2. IsProcessor(Skip(c, 1)) /\ Skip(c, 1).pc = Wrap(c.pc + (1 + 0))
    BY SkipKeeps
  <2>3. Get(c, RegA) \in Byte
    BY GetIsByte, NamedHalves
  <2>4. LET d == Output(Skip(c, 1), N(c), Get(c, RegA)) IN IsProcessor(d) /\ d.pc = Skip(c, 1).pc
    BY <2>2, <2>3, OutputKeeps
  <2>5. Constants(n) = 1 /\ Displacement(c, n) = 0
    BY <1>1 DEF Whole, Constants, Displacement, BitNames, TestNames
  <2> QED
    BY <2>1, <2>2, <2>4, <2>5, Advances
<1>2. CASE n = Whole("OUT_C_R")
  <2> DEFINE x == IF Y(op) = INDIRECT_HL THEN 0 ELSE Get(c, R("HL", Y(op)))
  <2>1. Outputs(c, n, op) = Output(c, RegC(c), x)
    BY <1>2 DEF Outputs, Whole
  <2>2. x \in Byte
    <3>1. R("HL", Y(op)) \in AllHalves
      BY Parts, TableHalves DEF Words
    <3>2. Get(c, R("HL", Y(op))) \in Byte /\ 0 \in Byte
      BY <3>1, GetIsByte DEF Byte
    <3> QED
      BY <3>2
  <2> HIDE DEF x
  <2>3. IsProcessor(Output(c, RegC(c), x)) /\ Output(c, RegC(c), x).pc = c.pc
    BY <2>2, OutputKeeps
  <2>4. Constants(n) = 0 /\ Displacement(c, n) = 0
    BY <1>2 DEF Whole, Constants, Displacement, BitNames, TestNames
  <2> QED
    BY <2>1, <2>3, <2>4, Stays
<1> QED
  BY <1>1, <1>2 DEF OutputNames

OnOperand(names) == {<<name, kind>> : name \in names, kind \in {"R", "INDIRECT_HL"}}

LEMMA BehindCb ==
  ASSUME NEW c, IsProcessor(c), NEW n \in OnOperand(BitNames \cup TestNames)
  PROVE  GoesOn(c, n, IF n[2] = "R" \/ c.table = "HL" THEN c ELSE Skip(c, 2))
<1>1. n[2] \in {"R", "INDIRECT_HL"} /\ n[1] \in {"SET_B", "RES_B", "BIT_B"}
  BY DEF OnOperand, BitNames, TestNames
<1>2. Constants(n) = 0
  BY <1>1 DEF Constants
<1>3. CASE n[2] = "R" \/ c.table = "HL"
  <2>1. Displacement(c, n) = 0
    BY <1>1, <1>3 DEF Displacement, BitNames, TestNames
  <2> QED
    BY <1>2, <1>3, <2>1, Stays
<1>4. CASE n[2] # "R" /\ c.table # "HL"
  <2>1. Displacement(c, n) = 2
    BY <1>1, <1>4 DEF Displacement, BitNames, TestNames
  <2>2. IsProcessor(Skip(c, 2)) /\ Skip(c, 2).pc = Wrap(c.pc + (0 + 2))
    BY SkipKeeps
  <2> QED
    BY <1>2, <1>4, <2>1, <2>2, Advances
<1> QED
  BY <1>3, <1>4

LEMMA TestBitRight ==
  ASSUME NEW c, IsProcessor(c), NEW op \in Opcode, NEW n \in OnOperand(TestNames)
  PROVE  GoesOn(c, n, TestBit(c, n, op))
<1> DEFINE r == R(c.table, Z(op))
           v == IF n[2] = "R" THEN Get(c, r) ELSE Read(c, Place(c))
           yx == IF n[2] = "R" THEN v ELSE Place(c)
           x == Bit(v, Y(op))
           e == IF n[2] = "R" \/ c.table = "HL" THEN c ELSE Skip(c, 2)
           f == Flag(128, Y(op) = 7 /\ x = 1) + Flag(68, x = 0) + 32 * Bit(yx, 5) + 8 * Bit(yx, 3)
                  + 16 + (Flags(c) % 2)
<1>1. TestBit(c, n, op) = SetF(e, f)
  BY DEF TestBit
<1>2. r \in AllHalves /\ Place(c) \in Int /\ Flags(c) % 2 \in Int
  BY Numbers, Parts, TableHalves, OperandsAreBytes, FlagsAreByte
<1>3. Get(c, r) \in Int /\ Read(c, Place(c)) \in Int
  BY <1>2, GetIsByte, ReadIsInt
<1>4. v \in Int /\ yx \in Int
  BY <1>2, <1>3
<1> HIDE DEF v, yx
<1>5. f \in Int
  <2>1. 5 \in 0..7 /\ 3 \in 0..7
    OBVIOUS
  <2>2. Bit(yx, 5) \in Int /\ Bit(yx, 3) \in Int
    BY <1>4, <2>1, BitIsBit
  <2>3. Flag(128, Y(op) = 7 /\ x = 1) \in Int /\ Flag(68, x = 0) \in Int
    BY FlagIsInt
  <2> QED
    BY <1>2, <2>2, <2>3
<1>6. GoesOn(c, n, e)
  BY BehindCb DEF OnOperand
<1> HIDE DEF e, f
<1>7. IsProcessor(SetF(e, f)) /\ SetF(e, f).pc = e.pc
  BY <1>5, <1>6, SetFIsProcessor DEF GoesOn
<1> QED
  BY <1>1, <1>6, <1>7 DEF GoesOn

LEMMA SetResRight ==
  ASSUME NEW c, IsProcessor(c), NEW op \in Opcode, NEW n \in OnOperand(BitNames)
  PROVE  GoesOn(c, n, SetRes(c, n, op))
<1> DEFINE b == IF n[1] = "SET_B" THEN 1 ELSE 0
           r == R(c.table, Z(op))
           e == IF n[2] = "R" \/ c.table = "HL" THEN c ELSE Skip(c, 2)
<1>1. r \in AllHalves /\ Place(c) \in Int /\ b \in Int /\ Y(op) \in 0..7
  BY Numbers, Parts, TableHalves, OperandsAreBytes
<1>2. Get(c, r) \in Int /\ Read(c, Place(c)) \in Int
  BY <1>1, GetIsByte, ReadIsInt
<1>3. ASSUME NEW v \in Int PROVE WithBit(v, Y(op), b) \in Int
  <2>1. Bit(v, Y(op)) \in Int
    BY <1>1, <1>3, BitIsBit
  <2>2. Power(Y(op)) \in Int
    BY <1>1 DEF Power
  <2>3. (b - Bit(v, Y(op))) * Power(Y(op)) \in Int
    BY <1>1, <2>1, <2>2
  <2> QED
    BY <1>3, <2>3 DEF WithBit
<1>4. WithBit(Get(c, r), Y(op), b) \in Int /\ WithBit(Read(c, Place(c)), Y(op), b) \in Int
  BY <1>2, <1>3
<1>5. GoesOn(c, n, e)
  BY BehindCb DEF OnOperand
<1>6. IsProcessor(e)
  BY <1>5 DEF GoesOn
<1>7. CASE n[2] = "R"
  <2>1. SetRes(c, n, op) = Set(c, r, WithBit(Get(c, r), Y(op), b)) /\ e = c
    BY <1>7 DEF SetRes
  <2> HIDE DEF e, b, r
  <2>2. IsProcessor(SetRes(c, n, op)) /\ SetRes(c, n, op).pc = e.pc
    BY <1>1, <1>4, <2>1, SetIsProcessor
  <2> QED
    BY <1>5, <2>2 DEF GoesOn
<1>8. CASE n[2] # "R"
  <2>1. SetRes(c, n, op) = Write(e, Place(c), WithBit(Read(c, Place(c)), Y(op), b))
    BY <1>8 DEF SetRes
  <2> HIDE DEF e, b, r
  <2>2. IsProcessor(SetRes(c, n, op)) /\ SetRes(c, n, op).pc = e.pc
    BY <1>1, <1>4, <1>6, <2>1, WriteKeeps
  <2> QED
    BY <1>5, <2>2 DEF GoesOn
<1> QED
  BY <1>7, <1>8

-----------------------------------------------------------------------------
(* What the tables say of an opcode, by its quarter and its bits.          *)

LEMMA Composition ==
  ASSUME NEW op \in Opcode
  PROVE  /\ Quarter(op) \in 0..3 /\ Y(op) \in 0..7 /\ Z(op) \in 0..7
         /\ op = 64 * Quarter(op) + 8 * Y(op) + Z(op)
<1>1. op \in Int /\ 0 <= op /\ op <= 255
  BY SMT DEF Opcode
<1> QED
  BY <1>1, SMT DEF Quarter, Y, Z

LEMMA WordFollowsBits ==
  ASSUME NEW q \in 0..3, NEW y \in 0..7, NEW z \in 0..7,
         NEW op, op = 64 * q + 8 * y + z
  PROVE  op \in WordFollows <=>
           \/ q = 0 /\ z = 1 /\ y \in {0, 2, 4, 6}
           \/ q = 0 /\ z = 2 /\ y \in 4..7
           \/ q = 3 /\ z \in {2, 4}
           \/ q = 3 /\ z = 3 /\ y = 0
           \/ q = 3 /\ z = 5 /\ y = 1
BY SMT DEF WordFollows

LEMMA ByteFollowsBits ==
  ASSUME NEW q \in 0..3, NEW y \in 0..7, NEW z \in 0..7,
         NEW op, op = 64 * q + 8 * y + z
  PROVE  op \in ByteFollows <=>
           \/ q = 0 /\ z = 6
           \/ q = 0 /\ z = 0 /\ y \in 2..7
           \/ q = 3 /\ z = 3 /\ y \in {2, 3}
BY SMT DEF ByteFollows

LEMMA UsesHLMemoryBits ==
  ASSUME NEW q \in 0..3, NEW y \in 0..7, NEW z \in 0..7,
         NEW op, op = 64 * q + 8 * y + z
  PROVE  op \in UsesHLMemory <=>
           \/ q = 0 /\ y = 6 /\ z = 6
           \/ q = 1 /\ (y = 6 \/ z = 6)
BY SMT DEF UsesHLMemory

LEMMA EdWordBits ==
  ASSUME NEW q \in 0..3, NEW y \in 0..7, NEW z \in 0..7,
         NEW op, op = 64 * q + 8 * y + z
  PROVE  op \in {67 + 8*k : k \in 0..7} <=> q = 1 /\ z = 3
BY SMT

(* The names that the plain table has for transfers. *)
PlainNames ==
  (Load8Names \ {"LD_R", "LD_INDIRECT_HL"})
  \cup {"LD_RR_NN", "LD_HL_INDIRECT_NN", "LD_INDIRECT_NN_HL", "LD_SP_HL", "PUSH_SS", "POP_SS"}
  \cup ExchangeNames \cup JumpNames \cup (CallNames \ {"RETI_RETN"}) \cup {"IN_A_N", "OUT_N_A"}
Transfers ==
  Load8Names \cup LoadIRNames \cup Load16Names \cup ExchangeNames \cup {"LDI_LDD", "CPI_CPD"}
  \cup BlockPortNames \cup InputNames \cup OutputNames \cup BitNames \cup TestNames
  \cup JumpNames \cup CallNames

Size(name) ==
  IF name \in {"LD_RR_NN", "LD_HL_INDIRECT_NN", "LD_RR_INDIRECT_NN", "LD_INDIRECT_NN_HL",
               "LD_INDIRECT_NN_RR", "LD_A_INDIRECT_NN", "LD_INDIRECT_NN_A",
               "JP_NN", "JP_CC_NN", "CALL_NN", "CALL_CC_NN"} THEN 2
  ELSE IF name \in {"IN_A_N", "OUT_N_A", "JR_E", "JR_DD_E", "DJNZ_E"} THEN 1 ELSE 0

Follow(op) == IF op \in WordFollows THEN 2 ELSE IF op \in ByteFollows THEN 1 ELSE 0

(* The plain entry n of the opcode says what the opcode does. *)
Encoded(op, y, n) ==
  /\ n \in Load8Instructions \cup {Whole(name) : name \in PlainNames}
  /\ Constants(n) = Follow(op)
  /\ (n[1] = "LD_INDIRECT_HL" \/ n[2] = "INDIRECT_HL") <=> op \in UsesHLMemory
  /\ n[1] = "JR_DD_E" => y \in 4..7
  /\ n[1] = "RST_P" => op = 199 + 8 * y
  /\ n = <<"LD_R", "INDIRECT_HL">> => y # 6
  /\ n = <<"LD_INDIRECT_HL", "R">> => op % 8 # 6

LEMMA WholeParts ==
  ASSUME NEW name
  PROVE  Whole(name)[1] = name /\ Whole(name)[2] = ""
BY DEF Whole

LEMMA NoTransfer ==
  ASSUME NEW n, NEW name, n = Whole(name), name \notin Transfers
  PROVE  n[1] \notin Transfers
BY WholeParts

LEMMA EncodedWhole ==
  ASSUME NEW op, NEW y, NEW name \in PlainNames, op \notin UsesHLMemory,
         name = "JR_DD_E" => y \in 4..7, name = "RST_P" => op = 199 + 8 * y,
         Size(name) = Follow(op)
  PROVE  Encoded(op, y, Whole(name))
<1> DEFINE n == Whole(name)
<1>1. n[1] = name /\ n[2] = ""
  BY WholeParts
<1>2. name # "LD_INDIRECT_HL"
  BY DEF PlainNames, Load8Names, ExchangeNames, JumpNames, CallNames
<1>3. n \in {Whole(m) : m \in PlainNames}
  OBVIOUS
<1> HIDE DEF n
<1>4. Constants(n) = Size(name)
  BY <1>1 DEF Constants, Size
<1>5. n # <<"LD_R", "INDIRECT_HL">> /\ n # <<"LD_INDIRECT_HL", "R">>
  <2>1. <<"LD_R", "INDIRECT_HL">>[2] # "" /\ <<"LD_INDIRECT_HL", "R">>[2] # ""
    BY SMT
  <2> QED
    BY <1>1, <2>1, Zenon
<1>6. Encoded(op, y, n)
  BY <1>1, <1>2, <1>3, <1>4, <1>5 DEF Encoded
<1> QED
  BY <1>6 DEF n

LEMMA LoadIndirectEncoded ==
  ASSUME NEW y \in 0..7
  PROVE  /\ LoadIndirect[y+1] \in PlainNames \ {"JR_DD_E", "RST_P"}
         /\ Size(LoadIndirect[y+1]) = IF y \in 4..7 THEN 2 ELSE 0
<1>1. y = 0 \/ y = 1 \/ y = 2 \/ y = 3 \/ y = 4 \/ y = 5 \/ y = 6 \/ y = 7
  OBVIOUS
<1> QED
  BY <1>1 DEF LoadIndirect, PlainNames, Load8Names, ExchangeNames, JumpNames, CallNames, Size

LEMMA RelativeJumpsEncoded ==
  ASSUME NEW y \in 0..7, RelativeJumps[y+1] \in Transfers
  PROVE  /\ RelativeJumps[y+1] \in PlainNames \ {"RST_P"}
         /\ RelativeJumps[y+1] = "JR_DD_E" => y \in 4..7
         /\ Size(RelativeJumps[y+1]) = IF y \in 2..7 THEN 1 ELSE 0
<1>1. y = 0 \/ y = 1 \/ y = 2 \/ y = 3 \/ y = 4 \/ y = 5 \/ y = 6 \/ y = 7
  OBVIOUS
<1>2. "NOP" \notin Transfers
  BY DEF Transfers, Load8Names, LoadIRNames, Load16Names, ExchangeNames, BlockPortNames,
         InputNames, OutputNames, BitNames, TestNames, JumpNames, CallNames
<1> QED
  BY <1>1, <1>2 DEF RelativeJumps, PlainNames, Load8Names, ExchangeNames, JumpNames, CallNames, Size

LEMMA OnAccumulatorEncoded ==
  ASSUME NEW y \in 0..7
  PROVE  OnAccumulator[y+1] \notin Transfers
<1>1. y = 0 \/ y = 1 \/ y = 2 \/ y = 3 \/ y = 4 \/ y = 5 \/ y = 6 \/ y = 7
  OBVIOUS
<1> QED
  BY <1>1 DEF OnAccumulator, Transfers, Load8Names, LoadIRNames, Load16Names, ExchangeNames, BlockPortNames,
         InputNames, OutputNames, BitNames, TestNames, JumpNames, CallNames

LEMMA NotTransfers ==
  /\ "NOP" \notin Transfers /\ "HALT" \notin Transfers
  /\ "ADD_HL_RR" \notin Transfers /\ "INC_RR" \notin Transfers /\ "DEC_RR" \notin Transfers
  /\ "INC" \notin Transfers /\ "DEC" \notin Transfers
  /\ "CB_PREFIX" \notin Transfers /\ "DI" \notin Transfers /\ "EI" \notin Transfers
  /\ "DD_PREFIX" \notin Transfers /\ "ED_PREFIX" \notin Transfers /\ "FD_PREFIX" \notin Transfers
BY DEF Transfers, Load8Names, LoadIRNames, Load16Names, ExchangeNames, BlockPortNames,
       InputNames, OutputNames, BitNames, TestNames, JumpNames, CallNames

LEMMA OperationsEncoded ==
  ASSUME NEW y \in 0..7
  PROVE  Operations[y+1] \notin Transfers
<1>1. y = 0 \/ y = 1 \/ y = 2 \/ y = 3 \/ y = 4 \/ y = 5 \/ y = 6 \/ y = 7
  OBVIOUS
<1> QED
  BY <1>1 DEF Operations, Transfers, Load8Names, LoadIRNames, Load16Names, ExchangeNames, BlockPortNames,
         InputNames, OutputNames, BitNames, TestNames, JumpNames, CallNames

LEMMA MiscellaneousEncoded ==
  ASSUME NEW y \in 0..7, Miscellaneous[y+1] \in Transfers
  PROVE  /\ Miscellaneous[y+1] \in PlainNames \ {"JR_DD_E", "RST_P"}
         /\ Size(Miscellaneous[y+1]) = IF y = 0 THEN 2 ELSE IF y \in {2, 3} THEN 1 ELSE 0
<1>1. y = 0 \/ y = 1 \/ y = 2 \/ y = 3 \/ y = 4 \/ y = 5 \/ y = 6 \/ y = 7
  OBVIOUS
<1> QED
  BY <1>1, NotTransfers
  DEF Miscellaneous, PlainNames, Load8Names, ExchangeNames, JumpNames, CallNames, Size

LEMMA FirstQuarterEncoded ==
  ASSUME NEW op, NEW y \in 0..7, NEW z \in 0..7, op = 8 * y + z, FirstQuarter(y, z)[1] \in Transfers
  PROVE  Encoded(op, y, FirstQuarter(y, z))
<1>1. /\ op \in WordFollows <=> (z = 1 /\ y \in {0, 2, 4, 6}) \/ (z = 2 /\ y \in 4..7)
      /\ op \in ByteFollows <=> z = 6 \/ (z = 0 /\ y \in 2..7)
      /\ op \in UsesHLMemory <=> y = 6 /\ z = 6
  <2>1. 0 \in 0..3 /\ op = 64 * 0 + 8 * y + z
    OBVIOUS
  <2> QED
    BY <2>1, WordFollowsBits, ByteFollowsBits, UsesHLMemoryBits
<1>2. CASE z = 0
  <2>1. FirstQuarter(y, z) = Whole(RelativeJumps[y+1])
    BY <1>2 DEF FirstQuarter
  <2>2. RelativeJumps[y+1] \in Transfers
    BY <2>1, WholeParts
  <2>3. Follow(op) = IF y \in 2..7 THEN 1 ELSE 0
    BY <1>1, <1>2 DEF Follow
  <2> QED
    BY <1>1, <1>2, <2>1, <2>2, <2>3, RelativeJumpsEncoded, EncodedWhole
<1>3. CASE z = 1
  <2>1. FirstQuarter(y, z) = Whole(IF Even(y) THEN "LD_RR_NN" ELSE "ADD_HL_RR")
    BY <1>3 DEF FirstQuarter
  <2>2. Even(y)
    <3> SUFFICES ASSUME ~Even(y) PROVE FALSE
      OBVIOUS
    <3>1. FirstQuarter(y, z) = Whole("ADD_HL_RR")
      BY <2>1
    <3> QED
      BY <3>1, NoTransfer, NotTransfers
  <2>3. y \in {0, 2, 4, 6}
    BY <2>2 DEF Even
  <2>4. "LD_RR_NN" \in PlainNames /\ Size("LD_RR_NN") = 2 /\ Follow(op) = 2
    BY <1>1, <1>3, <2>3 DEF PlainNames, Size, Follow
  <2> QED
    BY <1>1, <1>3, <2>1, <2>2, <2>4, EncodedWhole
<1>4. CASE z = 2
  <2>1. FirstQuarter(y, z) = Whole(LoadIndirect[y+1])
    BY <1>4 DEF FirstQuarter
  <2>2. Follow(op) = IF y \in 4..7 THEN 2 ELSE 0
    BY <1>1, <1>4 DEF Follow
  <2> QED
    BY <1>1, <1>4, <2>1, <2>2, LoadIndirectEncoded, EncodedWhole
<1>5. CASE z \in {3, 4, 5}
  <2>1. CASE z = 3
    <3>1. FirstQuarter(y, z) = Whole("INC_RR") \/ FirstQuarter(y, z) = Whole("DEC_RR")
      BY <2>1 DEF FirstQuarter
    <3> QED
      BY <3>1, NoTransfer, NotTransfers
  <2>2. CASE z = 4
    <3>1. FirstQuarter(y, z)[1] = "INC"
      BY <2>2 DEF FirstQuarter
    <3> QED
      BY <3>1, NotTransfers
  <2>3. CASE z = 5
    <3>1. FirstQuarter(y, z)[1] = "DEC"
      BY <2>3 DEF FirstQuarter
    <3> QED
      BY <3>1, NotTransfers
  <2> QED
    BY <1>5, <2>1, <2>2, <2>3
<1>6. CASE z = 6
  <2>1. FirstQuarter(y, z) = <<IF y = 6 THEN "LD_INDIRECT_HL" ELSE "LD_R", "N">>
    BY <1>6 DEF FirstQuarter, INDIRECT_HL
  <2>2. Follow(op) = 1
    BY <1>1, <1>6 DEF Follow
  <2>3. CASE y = 6
    <3>1. FirstQuarter(y, z) = <<"LD_INDIRECT_HL", "N">>
      BY <2>1, <2>3
    <3>2. Encoded(op, y, <<"LD_INDIRECT_HL", "N">>)
      BY <1>1, <1>6, <2>2, <2>3 DEF Encoded, Load8Instructions, Constants
    <3> QED
      BY <3>1, <3>2
  <2>4. CASE y # 6
    <3>1. FirstQuarter(y, z) = <<"LD_R", "N">>
      BY <2>1, <2>4
    <3>2. Encoded(op, y, <<"LD_R", "N">>)
      BY <1>1, <1>6, <2>2, <2>4 DEF Encoded, Load8Instructions, Constants
    <3> QED
      BY <3>1, <3>2
  <2> QED
    BY <2>3, <2>4
<1>7. CASE z = 7
  <2>1. FirstQuarter(y, z) = Whole(OnAccumulator[y+1])
    BY <1>7 DEF FirstQuarter
  <2> QED
    BY <2>1, WholeParts, OnAccumulatorEncoded
<1> QED
  BY <1>2, <1>3, <1>4, <1>5, <1>6, <1>7

LEMMA LoadsEncoded ==
  ASSUME NEW op, NEW y \in 0..7, NEW z \in 0..7, op = 64 + 8 * y + z, Loads(y, z)[1] \in Transfers
  PROVE  Encoded(op, y, Loads(y, z))
<1>1. /\ op \notin WordFollows /\ op \notin ByteFollows
      /\ op \in UsesHLMemory <=> y = 6 \/ z = 6
  <2>1. 1 \in 0..3 /\ op = 64 * 1 + 8 * y + z
    OBVIOUS
  <2> QED
    BY <2>1, WordFollowsBits, ByteFollowsBits, UsesHLMemoryBits
<1>2. Follow(op) = 0
  BY <1>1 DEF Follow
<1>3. y # z
  <2> SUFFICES ASSUME y = z PROVE FALSE
    OBVIOUS
  <2>1. Loads(y, z) = Whole(IF y = 6 THEN "HALT" ELSE "NOP")
    BY DEF Loads, INDIRECT_HL
  <2> QED
    BY <2>1, WholeParts, NotTransfers, ZenonT(30)
<1>4. Loads(y, z) = <<IF y = 6 THEN "LD_INDIRECT_HL" ELSE "LD_R", IF z = 6 THEN "INDIRECT_HL" ELSE "R">>
  BY <1>3 DEF Loads, INDIRECT_HL, Operand
<1>5. CASE y = 6
  <2>1. Loads(y, z) = <<"LD_INDIRECT_HL", "R">>
    BY <1>3, <1>4, <1>5
  <2>2. op % 8 # 6
    BY <1>3, <1>5
  <2>3. Encoded(op, y, <<"LD_INDIRECT_HL", "R">>)
    BY <1>1, <1>2, <1>5, <2>2 DEF Encoded, Load8Instructions, Constants
  <2> QED
    BY <2>1, <2>3
<1>6. CASE y # 6 /\ z = 6
  <2>1. Loads(y, z) = <<"LD_R", "INDIRECT_HL">>
    BY <1>4, <1>6
  <2>2. Encoded(op, y, <<"LD_R", "INDIRECT_HL">>)
    BY <1>1, <1>2, <1>6 DEF Encoded, Load8Instructions, Constants
  <2> QED
    BY <2>1, <2>2
<1>7. CASE y # 6 /\ z # 6
  <2>1. Loads(y, z) = <<"LD_R", "R">>
    BY <1>4, <1>7
  <2>2. Encoded(op, y, <<"LD_R", "R">>)
    BY <1>1, <1>2, <1>7 DEF Encoded, Load8Instructions, Constants
  <2> QED
    BY <2>1, <2>2
<1> QED
  BY <1>5, <1>6, <1>7

LEMMA LastQuarterEncoded ==
  ASSUME NEW op, NEW y \in 0..7, NEW z \in 0..7, op = 192 + 8 * y + z, LastQuarter(y, z)[1] \in Transfers
  PROVE  Encoded(op, y, LastQuarter(y, z))
<1>1. /\ op \in WordFollows <=> z \in {2, 4} \/ (z = 3 /\ y = 0) \/ (z = 5 /\ y = 1)
      /\ op \in ByteFollows <=> z = 3 /\ y \in {2, 3}
      /\ op \notin UsesHLMemory
  <2>1. 3 \in 0..3 /\ op = 64 * 3 + 8 * y + z
    OBVIOUS
  <2> QED
    BY <2>1, WordFollowsBits, ByteFollowsBits, UsesHLMemoryBits
<1>2. CASE z = 0
  <2>1. LastQuarter(y, z) = Whole("RET_CC") /\ Follow(op) = 0
    BY <1>1, <1>2 DEF LastQuarter, Follow
  <2>2. "RET_CC" \in PlainNames /\ Size("RET_CC") = 0
    BY DEF PlainNames, CallNames, Size
  <2> QED
    BY <1>1, <2>1, <2>2, EncodedWhole
<1>3. CASE z = 1
  <2>1. Follow(op) = 0
    BY <1>1, <1>3 DEF Follow
  <2>2. CASE Even(y)
    <3>1. LastQuarter(y, z) = Whole("POP_SS")
      BY <1>3, <2>2 DEF LastQuarter
    <3>2. "POP_SS" \in PlainNames /\ Size("POP_SS") = 0
      BY DEF PlainNames, Size
    <3> QED
      BY <1>1, <2>1, <3>1, <3>2, EncodedWhole
  <2>3. CASE ~Even(y)
    <3>1. LastQuarter(y, z) = Whole(Returns[(y \div 2) + 1]) /\ y \div 2 \in 0..3
      BY <1>3, <2>3 DEF LastQuarter
    <3>2. /\ Returns[(y \div 2) + 1] \in PlainNames \ {"JR_DD_E", "RST_P"}
          /\ Size(Returns[(y \div 2) + 1]) = 0
      <4>1. y \div 2 = 0 \/ y \div 2 = 1 \/ y \div 2 = 2 \/ y \div 2 = 3
        BY <3>1
      <4> QED
        BY <4>1 DEF Returns, PlainNames, ExchangeNames, JumpNames, CallNames, Size
    <3> QED
      BY <1>1, <2>1, <3>1, <3>2, EncodedWhole
  <2> QED
    BY <2>2, <2>3
<1>4. CASE z = 2
  <2>1. LastQuarter(y, z) = Whole("JP_CC_NN") /\ Follow(op) = 2
    BY <1>1, <1>4 DEF LastQuarter, Follow
  <2>2. "JP_CC_NN" \in PlainNames /\ Size("JP_CC_NN") = 2
    BY DEF PlainNames, JumpNames, Size
  <2> QED
    BY <1>1, <2>1, <2>2, EncodedWhole
<1>5. CASE z = 3
  <2>1. LastQuarter(y, z) = Whole(Miscellaneous[y+1])
    BY <1>5 DEF LastQuarter
  <2>2. Miscellaneous[y+1] \in Transfers
    BY <2>1, WholeParts
  <2>3. Follow(op) = IF y = 0 THEN 2 ELSE IF y \in {2, 3} THEN 1 ELSE 0
    BY <1>1, <1>5 DEF Follow
  <2> QED
    BY <1>1, <2>1, <2>2, <2>3, MiscellaneousEncoded, EncodedWhole
<1>6. CASE z = 4
  <2>1. LastQuarter(y, z) = Whole("CALL_CC_NN") /\ Follow(op) = 2
    BY <1>1, <1>6 DEF LastQuarter, Follow
  <2>2. "CALL_CC_NN" \in PlainNames /\ Size("CALL_CC_NN") = 2
    BY DEF PlainNames, CallNames, Size
  <2> QED
    BY <1>1, <2>1, <2>2, EncodedWhole
<1>7. CASE z = 5
  <2>1. Follow(op) = IF y = 1 THEN 2 ELSE 0
    BY <1>1, <1>7 DEF Follow
  <2>2. CASE Even(y)
    <3>1. LastQuarter(y, z) = Whole("PUSH_SS") /\ y # 1
      BY <1>7, <2>2 DEF LastQuarter, Even
    <3>2. "PUSH_SS" \in PlainNames /\ Size("PUSH_SS") = 0
      BY DEF PlainNames, Size
    <3> QED
      BY <1>1, <2>1, <3>1, <3>2, EncodedWhole
  <2>3. CASE ~Even(y)
    <3>1. LastQuarter(y, z) = Whole(Prefixes[(y \div 2) + 1])
      BY <1>7, <2>3 DEF LastQuarter
    <3>2. y = 1 \/ (y = 3 /\ y \div 2 = 1) \/ (y = 5 /\ y \div 2 = 2) \/ (y = 7 /\ y \div 2 = 3)
      BY <2>3 DEF Even
    <3>3. y = 1
      <4> SUFFICES ASSUME y # 1 PROVE FALSE
        OBVIOUS
      <4>1. Prefixes[(y \div 2) + 1] \in {"DD_PREFIX", "ED_PREFIX", "FD_PREFIX"}
        BY <3>2 DEF Prefixes
      <4> QED
        BY <3>1, <4>1, WholeParts, NotTransfers
    <3>4. LastQuarter(y, z) = Whole("CALL_NN")
      BY <3>1, <3>3 DEF Prefixes
    <3>5. "CALL_NN" \in PlainNames /\ Size("CALL_NN") = 2
      BY DEF PlainNames, CallNames, Size
    <3> QED
      BY <1>1, <2>1, <3>3, <3>4, <3>5, EncodedWhole
  <2> QED
    BY <2>2, <2>3
<1>8. CASE z = 6
  <2>1. LastQuarter(y, z)[1] = Operations[y+1]
    BY <1>8 DEF LastQuarter
  <2> QED
    BY <2>1, OperationsEncoded
<1>9. CASE z = 7
  <2>1. LastQuarter(y, z) = Whole("RST_P") /\ Follow(op) = 0 /\ op = 199 + 8 * y
    BY <1>1, <1>9 DEF LastQuarter, Follow
  <2>2. "RST_P" \in PlainNames /\ Size("RST_P") = 0
    BY DEF PlainNames, CallNames, Size
  <2> QED
    BY <1>1, <2>1, <2>2, EncodedWhole
<1> QED
  BY <1>2, <1>3, <1>4, <1>5, <1>6, <1>7, <1>8, <1>9

(* What the plain table has for an opcode agrees with what the documented  *)
(* instruction set says of it.                                             *)
LEMMA PlainEncoded ==
  ASSUME NEW op \in Opcode, INSTRUCTION_TABLE[op][1] \in Transfers
  PROVE  Encoded(op, Y(op), INSTRUCTION_TABLE[op])
<1> DEFINE q == Quarter(op)
           y == Y(op)
           z == Z(op)
<1>1. q \in 0..3 /\ y \in 0..7 /\ z \in 0..7 /\ op = 64 * q + 8 * y + z
  BY Composition
<1>2. CASE q = 0
  <2>1. INSTRUCTION_TABLE[op] = FirstQuarter(y, z) /\ op = 8 * y + z
    BY <1>1, <1>2 DEF INSTRUCTION_TABLE
  <2> QED
    BY <1>1, <2>1, FirstQuarterEncoded
<1>3. CASE q = 1
  <2>1. INSTRUCTION_TABLE[op] = Loads(y, z) /\ op = 64 + 8 * y + z
    BY <1>1, <1>3 DEF INSTRUCTION_TABLE
  <2> QED
    BY <1>1, <2>1, LoadsEncoded
<1>4. CASE q = 2
  <2>1. INSTRUCTION_TABLE[op][1] = Operations[y+1]
    BY <1>4 DEF INSTRUCTION_TABLE
  <2> QED
    BY <1>1, <2>1, OperationsEncoded
<1>5. CASE q = 3
  <2>1. INSTRUCTION_TABLE[op] = LastQuarter(y, z) /\ op = 192 + 8 * y + z
    BY <1>1, <1>5 DEF INSTRUCTION_TABLE
  <2> QED
    BY <1>1, <2>1, LastQuarterEncoded
<1> QED
  BY <1>1, <1>2, <1>3, <1>4, <1>5

(* The names that the table of ED has for transfers. *)
EdNames ==
  LoadIRNames \cup {"LD_INDIRECT_NN_RR", "LD_RR_INDIRECT_NN", "RETI_RETN", "IN_R_C", "OUT_C_R",
                    "LDI_LDD", "CPI_CPD", "INI_IND", "OUTI_OUTD"}

LEMMA EdNotTransfers ==
  /\ "SBC_HL_RR" \notin Transfers /\ "ADC_HL_RR" \notin Transfers /\ "NEG" \notin Transfers
  /\ "IM_N" \notin Transfers /\ "RLD_RRD" \notin Transfers /\ "ED_UNDEFINED" \notin Transfers
  /\ "LDIR_LDDR" \notin Transfers /\ "CPIR_CPDR" \notin Transfers
  /\ "INIR_INDR" \notin Transfers /\ "OTIR_OTDR" \notin Transfers
BY DEF Transfers, Load8Names, LoadIRNames, Load16Names, ExchangeNames, BlockPortNames,
       InputNames, OutputNames, BitNames, TestNames, JumpNames, CallNames

LEMMA EdLoadsEncoded ==
  ASSUME NEW y \in 0..7, NEW z \in 0..7, EdLoads(y, z) \in Transfers
  PROVE  EdLoads(y, z) \in EdNames /\ Size(EdLoads(y, z)) = IF z = 3 THEN 2 ELSE 0
<1>1. z = 0 \/ z = 1 \/ z = 2 \/ z = 3 \/ z = 4 \/ z = 5 \/ z = 6 \/ z = 7
  OBVIOUS
<1>2. CASE z \in 0..6
  BY <1>1, <1>2, EdNotTransfers DEF EdLoads, EdNames, Size
<1>3. CASE z = 7
  <2>1. EdLoads(y, z) = Specials[y+1]
    BY <1>3 DEF EdLoads
  <2>2. y = 0 \/ y = 1 \/ y = 2 \/ y = 3 \/ y = 4 \/ y = 5 \/ y = 6 \/ y = 7
    OBVIOUS
  <2> QED
    BY <1>3, <2>1, <2>2, EdNotTransfers DEF Specials, EdNames, LoadIRNames, Size
<1> QED
  BY <1>2, <1>3

LEMMA EdEncoded ==
  ASSUME NEW op \in Opcode, ED_INSTRUCTION_TABLE[op][1] \in Transfers
  PROVE  \E name \in EdNames :
           /\ ED_INSTRUCTION_TABLE[op] = Whole(name)
           /\ Size(name) = IF op \in {67 + 8*k : k \in 0..7} THEN 2 ELSE 0
<1> DEFINE q == Quarter(op)
           y == Y(op)
           z == Z(op)
<1>1. q \in 0..3 /\ y \in 0..7 /\ z \in 0..7 /\ op = 64 * q + 8 * y + z
  BY Composition
<1>2. op \in {67 + 8*k : k \in 0..7} <=> q = 1 /\ z = 3
  BY <1>1, EdWordBits
<1>3. CASE q = 1
  <2>1. ED_INSTRUCTION_TABLE[op] = Whole(EdLoads(y, z))
    BY <1>3 DEF ED_INSTRUCTION_TABLE
  <2>2. EdLoads(y, z) \in Transfers
    BY <2>1, WholeParts
  <2> QED
    BY <1>1, <1>2, <1>3, <2>1, <2>2, EdLoadsEncoded
<1>4. CASE q = 2 /\ y \in 4..5 /\ z < 4
  <2>1. ED_INSTRUCTION_TABLE[op] = Whole(Blocks[z+1])
    BY <1>4 DEF ED_INSTRUCTION_TABLE
  <2>2. z = 0 \/ z = 1 \/ z = 2 \/ z = 3
    BY <1>1, <1>4
  <2> HIDE DEF z
  <2>3. Blocks[z+1] \in EdNames /\ Size(Blocks[z+1]) = 0
    BY <2>2 DEF Blocks, EdNames, Size
  <2> QED
    BY <1>2, <1>4, <2>1, <2>3
<1>5. CASE q = 2 /\ y \in 6..7 /\ z < 4
  <2>1. ED_INSTRUCTION_TABLE[op] = Whole(RepeatingBlocks[z+1])
    BY <1>5 DEF ED_INSTRUCTION_TABLE
  <2>2. z = 0 \/ z = 1 \/ z = 2 \/ z = 3
    BY <1>1, <1>5
  <2> HIDE DEF z
  <2>3. RepeatingBlocks[z+1] \notin Transfers
    BY <2>2, EdNotTransfers DEF RepeatingBlocks
  <2> QED
    BY <2>1, <2>3, WholeParts
<1>6. CASE q # 1 /\ ~(q = 2 /\ y \in 4..7 /\ z < 4)
  <2>1. ED_INSTRUCTION_TABLE[op] = Whole("ED_UNDEFINED")
    BY <1>1, <1>6 DEF ED_INSTRUCTION_TABLE
  <2> QED
    BY <2>1, NoTransfer, EdNotTransfers
<1> QED
  BY <1>1, <1>3, <1>4, <1>5, <1>6

LEMMA CbEncoded ==
  ASSUME NEW op \in Opcode, CB_INSTRUCTION_TABLE[op][1] \in Transfers
  PROVE  \E name \in {"BIT_B", "RES_B", "SET_B"} :
           CB_INSTRUCTION_TABLE[op] = <<name, IF Z(op) = 6 THEN "INDIRECT_HL" ELSE "R">>
<1> DEFINE q == Quarter(op)
           y == Y(op)
           z == Z(op)
<1>1. q \in 0..3 /\ y \in 0..7 /\ z \in 0..7
  BY Composition
<1>2. CASE q = 0
  <2>1. CB_INSTRUCTION_TABLE[op][1] = Rotations[y+1]
    BY <1>2 DEF CB_INSTRUCTION_TABLE
  <2>2. y = 0 \/ y = 1 \/ y = 2 \/ y = 3 \/ y = 4 \/ y = 5 \/ y = 6 \/ y = 7
    BY <1>1
  <2> HIDE DEF y
  <2>3. Rotations[y+1] \notin Transfers
    BY <2>2 DEF Rotations, Transfers, Load8Names, LoadIRNames, Load16Names, ExchangeNames, BlockPortNames,
                InputNames, OutputNames, BitNames, TestNames, JumpNames, CallNames
  <2> QED
    BY <2>1, <2>3
<1>3. CASE q # 0
  <2>1. CB_INSTRUCTION_TABLE[op] = <<OnBits[q], IF z = 6 THEN "INDIRECT_HL" ELSE "R">>
    BY <1>3 DEF CB_INSTRUCTION_TABLE, Operand, INDIRECT_HL
  <2>2. q = 1 \/ q = 2 \/ q = 3
    BY <1>1, <1>3
  <2> HIDE DEF q
  <2>3. OnBits[q] \in {"BIT_B", "RES_B", "SET_B"}
    BY <2>2 DEF OnBits
  <2> QED
    BY <2>1, <2>3
<1> QED
  BY <1>2, <1>3

-----------------------------------------------------------------------------
(* Jumps, calls and returns.                                               *)

LEMMA ConditionHolds ==
  ASSUME NEW c, IsProcessor(c), NEW k \in 0..7
  PROVE  CC(c, k) <=> Holds(c, k)
<1>1. /\ Bit(Flags(c), 6) \in 0..1 /\ Bit(Flags(c), 0) \in 0..1
      /\ Bit(Flags(c), 2) \in 0..1 /\ Bit(Flags(c), 7) \in 0..1
  <2>1. Flags(c) \in Int /\ 6 \in 0..7 /\ 0 \in 0..7 /\ 2 \in 0..7 /\ 7 \in 0..7
    BY FlagsAreByte
  <2> QED
    BY <2>1, BitIsBit
<1>2. k = 0 \/ k = 1 \/ k = 2 \/ k = 3 \/ k = 4 \/ k = 5 \/ k = 6 \/ k = 7
  OBVIOUS
<1> QED
  BY <1>1, <1>2, SMT DEF CC, Holds, AndBit, XorBit

LEMMA RelativeGoes ==
  ASSUME NEW c, IsProcessor(c), NEW taken \in BOOLEAN
  PROVE  /\ IsProcessor(Relative(c, taken)) /\ Relative(c, taken).word = c.word
         /\ Relative(c, taken).pc = IF taken THEN Wrap(c.pc + 1 + Signed(N(c))) ELSE Wrap(c.pc + 1)
<1>1. c.pc \in Int /\ Signed(N(c)) \in Int
  BY Numbers, OperandsAreBytes
<1>2. c.pc + Signed(N(c)) + 1 \in Int /\ c.pc + Signed(N(c)) + 1 = c.pc + 1 + Signed(N(c))
  BY <1>1
<1>3. CASE taken
  BY <1>2, <1>3, JumpKeeps DEF Relative
<1>4. CASE ~taken
  BY <1>4, SkipKeeps DEF Relative
<1> QED
  BY <1>3, <1>4

LEMMA AbsoluteGoes ==
  ASSUME NEW c, IsProcessor(c), NEW taken \in BOOLEAN
  PROVE  /\ IsProcessor(Absolute(c, taken)) /\ Absolute(c, taken).word = c.word
         /\ Absolute(c, taken).pc = IF taken THEN Wrap(NN(c)) ELSE Wrap(c.pc + 2)
<1>1. NN(c) \in Int
  BY OperandsAreBytes
<1>2. CASE taken
  BY <1>1, <1>2, JumpKeeps DEF Absolute
<1>3. CASE ~taken
  BY <1>3, SkipKeeps DEF Absolute
<1> QED
  BY <1>2, <1>3

LEMMA ReturnGoes ==
  ASSUME NEW c, IsProcessor(c), NEW taken \in BOOLEAN
  PROVE  /\ IsProcessor(Return(c, taken))
         /\ Return(c, taken).pc = IF taken THEN Wrap(Top(c)) ELSE c.pc
         /\ Return(c, taken).word["SP"] = IF taken THEN Wrap(c.word["SP"] + 2) ELSE c.word["SP"]
<1>1. /\ IsProcessor(Popped(c)) /\ Popped(c).word = [c.word EXCEPT !["SP"] = Wrap(@ + 2)]
      /\ Top(c) \in Int
  BY PoppedKeeps
<1>2. CASE taken
  <2>1. Return(c, taken) = Jump(Popped(c), Top(c))
    BY <1>2 DEF Return
  <2>2. /\ IsProcessor(Return(c, taken)) /\ Return(c, taken).pc = Wrap(Top(c))
        /\ Return(c, taken).word = Popped(c).word
    BY <1>1, <2>1, JumpKeeps
  <2>3. "SP" \in DOMAIN c.word
    BY Fields DEF Words
  <2>4. Return(c, taken).word["SP"] = Wrap(c.word["SP"] + 2)
    BY <1>1, <2>2, <2>3
  <2> QED
    BY <1>2, <2>2, <2>4
<1>3. CASE ~taken
  BY <1>3 DEF Return
<1> QED
  BY <1>2, <1>3

LEMMA ReadWritten ==
  ASSUME NEW c, IsProcessor(c), NEW a \in Int, NEW b \in Int, NEW v \in Int
  PROVE  Read(Write(c, a, v), b) = IF Wrap(b) = Wrap(a) THEN v % 256 ELSE Read(c, b)
<1> DEFINE m == [x \in DOMAIN c.memory \cup {Wrap(a)} |-> IF x = Wrap(a) THEN v % 256 ELSE c.memory[x]]
<1>1. Write(c, a, v).memory = m
  BY DEF Write, IsProcessor
<1>2. DOMAIN m = DOMAIN c.memory \cup {Wrap(a)}
  OBVIOUS
<1>3. \A x \in DOMAIN m : m[x] = IF x = Wrap(a) THEN v % 256 ELSE c.memory[x]
  OBVIOUS
<1> HIDE DEF m
<1> QED
  BY <1>1, <1>2, <1>3 DEF Read

LEMMA NextPlace ==
  ASSUME NEW a \in Int
  PROVE  Wrap(a + 1) # Wrap(a)
BY SMT DEF Wrap

LEMMA BytesOfWord ==
  ASSUME NEW v \in Int
  PROVE  (v % 256) + 256 * ((v \div 256) % 256) = Wrap(v)
BY SMT DEF Wrap

LEMMA ReadWordWritten ==
  ASSUME NEW c, IsProcessor(c), NEW a \in Int, NEW v \in Int
  PROVE  ReadWord(WriteWord(c, a, v), a) = Wrap(v)
<1> DEFINE d == Write(c, a, v)
<1>1. IsProcessor(d) /\ a + 1 \in Int /\ v \div 256 \in Int
  BY WriteKeeps
<1>2. Wrap(a + 1) # Wrap(a)
  BY NextPlace
<1>3. Read(d, a) = v % 256
  BY ReadWritten
<1>4. WriteWord(c, a, v) = Write(d, a + 1, v \div 256)
  BY DEF WriteWord
<1> HIDE DEF d
<1>5. Read(Write(d, a + 1, v \div 256), a) = Read(d, a)
  BY <1>1, <1>2, ReadWritten
<1>6. Read(Write(d, a + 1, v \div 256), a + 1) = (v \div 256) % 256
  BY <1>1, ReadWritten
<1>7. ReadWord(WriteWord(c, a, v), a)
        = Read(Write(d, a + 1, v \div 256), a) + 256 * Read(Write(d, a + 1, v \div 256), a + 1)
  BY <1>4 DEF ReadWord
<1>8. ReadWord(WriteWord(c, a, v), a) = (v % 256) + 256 * ((v \div 256) % 256)
  BY <1>3, <1>5, <1>6, <1>7
<1> QED
  BY <1>8, BytesOfWord

LEMMA TopPushed ==
  ASSUME NEW c, IsProcessor(c), NEW v \in Int
  PROVE  Top(Push(c, v)) = Wrap(v)
<1> DEFINE d == SetWord(c, "SP", c.word["SP"] - 2)
<1>1. "SP" \in Words /\ c.word["SP"] - 2 \in Int
  BY Numbers DEF Words
<1>2. IsProcessor(d)
  BY <1>1, SetWordKeeps
<1>3. d.word["SP"] \in Int
  BY <1>1, <1>2, Numbers
<1>4. Push(c, v) = WriteWord(d, d.word["SP"], v)
  BY DEF Push
<1> HIDE DEF d
<1>5. Push(c, v).word = d.word
  BY <1>2, <1>3, <1>4, WriteWordKeeps
<1> QED
  BY <1>2, <1>3, <1>4, <1>5, ReadWordWritten DEF Top

LEMMA TopJumped ==
  ASSUME NEW c, IsProcessor(c), NEW a \in Int
  PROVE  Top(Jump(c, a)) = Top(c)
BY JumpKeeps, ZenonT(30) DEF Top, ReadWord, Read

(* A push of the address behind the instruction and a jump. *)
LEMMA PushAndJump ==
  ASSUME NEW c, IsProcessor(c), NEW v \in Int, NEW a \in Int
  PROVE  LET d == Jump(Push(c, v), a) IN
         /\ IsProcessor(d) /\ d.pc = Wrap(a) /\ Top(d) = Wrap(v)
         /\ d.word["SP"] = Wrap(c.word["SP"] - 2)
<1> DEFINE e == Push(c, v)
           d == Jump(e, a)
<1>1. IsProcessor(e) /\ e.word = [c.word EXCEPT !["SP"] = Wrap(@ - 2)] /\ Top(e) = Wrap(v)
  BY PushKeeps, TopPushed
<1>2. "SP" \in DOMAIN c.word
  BY Fields DEF Words
<1>3. e.word["SP"] = Wrap(c.word["SP"] - 2)
  BY <1>1, <1>2
<1> HIDE DEF e
<1>4. IsProcessor(d) /\ d.pc = Wrap(a) /\ d.word = e.word /\ Top(d) = Top(e)
  BY <1>1, JumpKeeps, TopJumped
<1> QED
  BY <1>1, <1>3, <1>4 DEF e

LEMMA CallGoes ==
  ASSUME NEW c, IsProcessor(c), NEW taken \in BOOLEAN
  PROVE  /\ IsProcessor(Call(c, taken))
         /\ Call(c, taken).pc = IF taken THEN Wrap(NN(c)) ELSE Wrap(c.pc + 2)
         /\ taken => Top(Call(c, taken)) = Wrap(c.pc + 2)
         /\ Call(c, taken).word["SP"] = IF taken THEN Wrap(c.word["SP"] - 2) ELSE c.word["SP"]
<1> DEFINE e == Skip(c, 2)
<1>1. IsProcessor(e) /\ e.word = c.word /\ e.pc = Wrap(c.pc + 2) /\ NN(c) \in Int /\ c.pc + 2 \in Int
  <2>1. 2 \in Int /\ c.pc \in Int /\ NN(c) \in Int
    BY OperandsAreBytes, Numbers
  <2>2. c.pc + 2 \in Int
    BY <2>1
  <2> QED
    BY <2>1, <2>2, SkipKeeps
<1>2. CASE taken
  <2>1. Call(c, taken) = Jump(Push(e, c.pc + 2), NN(c))
    BY <1>2 DEF Call
  <2> HIDE DEF e
  <2>2. LET d == Jump(Push(e, c.pc + 2), NN(c)) IN
        /\ IsProcessor(d) /\ d.pc = Wrap(NN(c)) /\ Top(d) = Wrap(c.pc + 2)
        /\ d.word["SP"] = Wrap(e.word["SP"] - 2)
    BY <1>1, PushAndJump
  <2> QED
    BY <1>1, <1>2, <2>1, <2>2
<1>3. CASE ~taken
  BY <1>1, <1>3 DEF Call
<1> QED
  BY <1>2, <1>3

LEMMA NegatedByte ==
  ASSUME NEW b \in Byte
  PROVE  (b - 1) % 256 # 0 <=> b # 1
BY SMT DEF Byte

LEMMA GetHighSet ==
  ASSUME NEW c, IsProcessor(c), NEW v \in Int
  PROVE  Get(Set(c, RegB, v), RegB) = v % 256
<1>1. /\ "BC" \in Words /\ RegB.high = TRUE /\ RegB.word = "BC"
      /\ c.word \in [Words -> Word] /\ c.word["BC"] \in Word
  BY Fields DEF Words, RegB, Half
<1> DEFINE l == c.word["BC"] % 256
           w == 256 * (v % 256) + l
<1>2. l \in Byte /\ v % 256 \in Byte
  BY <1>1, Halves, RemainderIsByte
<1>3. w \in Int /\ w \div 256 = v % 256 /\ w \in Word
  <2> DEFINE h == v % 256
  <2>1. l \in Int /\ 0 <= l /\ l <= 255 /\ h \in Int /\ 0 <= h /\ h <= 255
    BY <1>2, ByteIsInt
  <2>2. w = 256 * h + l
    OBVIOUS
  <2> HIDE DEF h, l, w
  <2>3. w \in Int /\ w \div 256 = h /\ 0 <= w /\ w <= 65535
    BY <2>1, <2>2, SMT
  <2> QED
    BY <2>3, IntIsWord DEF h
<1>4. Set(c, RegB, v) = SetWord(c, "BC", w)
  BY <1>1 DEF Set
<1> HIDE DEF w
<1>5. SetWord(c, "BC", w).word["BC"] = w
  <2>1. SetWord(c, "BC", w).word = [c.word EXCEPT !["BC"] = Wrap(w)]
    BY <1>1, <1>3, SetWordKeeps
  <2> QED
    BY <1>1, <1>3, <2>1, WordWraps
<1> QED
  BY <1>1, <1>3, <1>4, <1>5 DEF Get

(* The fetched instruction is one of the transfers, as its table has it.   *)
Decoded(f) ==
  /\ IsProcessor(f.cpu) /\ f.op \in Opcode
  /\ \/ f.kind = "plain" /\ Encoded(f.op, Y(f.op), f.n)
     \/ /\ f.kind = "ED" /\ f.cpu.table = "HL"
        /\ \E name \in EdNames : /\ f.n = Whole(name)
                                /\ Size(name) = IF f.op \in {67 + 8*k : k \in 0..7} THEN 2 ELSE 0
     \/ /\ f.kind = "CB"
        /\ \E name \in {"BIT_B", "RES_B", "SET_B"} :
             f.n = <<name, IF Z(f.op) = 6 THEN "INDIRECT_HL" ELSE "R">>

LEMMA WholeConstants ==
  ASSUME NEW n, NEW name, n = Whole(name)
  PROVE  Constants(n) = Size(name) /\ n[1] = name /\ n[2] = ""
<1>1. n[1] = name /\ n[2] = ""
  BY WholeParts
<1> QED
  BY <1>1 DEF Constants, Size

(* What follows the opcode is what the effect takes from there.            *)
LEMMA LengthTaken ==
  ASSUME NEW f, Decoded(f), ~(f.kind = "CB" /\ f.cpu.table # "HL" /\ Z(f.op) # 6)
  PROVE  Length(f) = Constants(f.n) + Displacement(f.cpu, f.n)
<1>1. CASE f.kind = "plain"
  <2>1. Encoded(f.op, Y(f.op), f.n)
    BY <1>1 DEF Decoded
  <2>2. Length(f) = Follow(f.op) + (IF f.cpu.table # "HL" /\ f.op \in UsesHLMemory THEN 1 ELSE 0)
    BY <1>1 DEF Length, Follow
  <2>3. f.n[1] \notin BitNames \cup TestNames
    <3>1. CASE f.n \in Load8Instructions
      <4>1. CASE f.n \in {Whole(name) : name \in Load8Names \ {"LD_R", "LD_INDIRECT_HL"}}
        <5>1. PICK name \in Load8Names : f.n = Whole(name)
          BY <4>1
        <5>2. f.n[1] \in Load8Names
          BY <5>1, WholeConstants
        <5> QED
          BY <5>2 DEF Load8Names, BitNames, TestNames
      <4>2. CASE f.n \notin {Whole(name) : name \in Load8Names \ {"LD_R", "LD_INDIRECT_HL"}}
        BY <3>1, <4>2 DEF Load8Instructions, BitNames, TestNames
      <4> QED
        BY <4>1, <4>2
    <3>2. CASE f.n \in {Whole(name) : name \in PlainNames}
      <4>1. PICK name \in PlainNames : f.n = Whole(name)
        BY <3>2
      <4>2. f.n[1] \in PlainNames
        BY <4>1, WholeConstants
      <4> QED
        BY <4>2 DEF PlainNames, Load8Names, ExchangeNames, JumpNames, CallNames, BitNames, TestNames
    <3> QED
      BY <2>1, <3>1, <3>2 DEF Encoded
  <2>4. Displacement(f.cpu, f.n) = IF f.cpu.table # "HL" /\ f.op \in UsesHLMemory THEN 1 ELSE 0
    BY <2>1, <2>3 DEF Displacement, Encoded
  <2> QED
    BY <2>1, <2>2, <2>4 DEF Encoded
<1>2. CASE f.kind = "ED"
  <2>1. PICK name \in EdNames : f.n = Whole(name) /\ Size(name) = IF f.op \in {67 + 8*k : k \in 0..7} THEN 2 ELSE 0
    BY <1>2 DEF Decoded
  <2>2. Length(f) = IF f.op \in {67 + 8*k : k \in 0..7} THEN 2 ELSE 0
    BY <1>2 DEF Length
  <2>3. f.cpu.table = "HL"
    BY <1>2 DEF Decoded
  <2>4. Displacement(f.cpu, f.n) = 0 /\ Constants(f.n) = Size(name)
    BY <2>1, <2>3, WholeConstants DEF Displacement
  <2>5. Size(name) \in Int
    BY DEF Size
  <2> QED
    BY <2>1, <2>2, <2>4, <2>5
<1>3. CASE f.kind = "CB"
  <2>1. PICK name \in {"BIT_B", "RES_B", "SET_B"} : f.n = <<name, IF Z(f.op) = 6 THEN "INDIRECT_HL" ELSE "R">>
    BY <1>3 DEF Decoded
  <2>2. Length(f) = IF f.cpu.table = "HL" THEN 0 ELSE 2
    BY <1>3 DEF Length
  <2>3. f.n[1] = name /\ f.n[2] = IF Z(f.op) = 6 THEN "INDIRECT_HL" ELSE "R"
    BY <2>1
  <2>4. name \in BitNames \cup TestNames
    BY DEF BitNames, TestNames
  <2>5. Displacement(f.cpu, f.n) = IF f.cpu.table = "HL" THEN 0 ELSE 2
    BY <1>3, <2>3, <2>4 DEF Displacement
  <2>6. Constants(f.n) = 0
    BY <2>3 DEF Constants
  <2> QED
    BY <2>2, <2>5, <2>6
<1> QED
  BY <1>1, <1>2, <1>3 DEF Decoded

LEMMA LengthOfControl ==
  ASSUME NEW f, Decoded(f), f.n[1] \in JumpNames \cup CallNames
  PROVE  /\ Length(f) = Size(f.n[1])
         /\ f.n[1] \in JumpNames => f.kind = "plain"
         /\ f.n[1] \in {"JR_DD_E", "RST_P"} => f.kind = "plain"
<1>1. f.kind # "CB"
  <2> SUFFICES ASSUME f.kind = "CB" PROVE FALSE
    OBVIOUS
  <2>1. PICK name \in {"BIT_B", "RES_B", "SET_B"} : f.n = <<name, IF Z(f.op) = 6 THEN "INDIRECT_HL" ELSE "R">>
    BY DEF Decoded
  <2>2. f.n[1] = name
    BY <2>1
  <2> QED
    BY <2>2 DEF JumpNames, CallNames
<1>2. \E name : f.n = Whole(name)
  <2>1. CASE f.kind = "ED"
    BY <2>1 DEF Decoded
  <2>2. CASE f.kind = "plain"
    <3>1. f.n \in Load8Instructions \cup {Whole(name) : name \in PlainNames}
      BY <2>2 DEF Decoded, Encoded
    <3>2. f.n[1] \notin {"LD_R", "LD_INDIRECT_HL"}
      BY DEF JumpNames, CallNames
    <3>3. f.n \notin {<<"LD_R", "R">>, <<"LD_R", "N">>, <<"LD_R", "INDIRECT_HL">>,
                      <<"LD_INDIRECT_HL", "R">>, <<"LD_INDIRECT_HL", "N">>}
      BY <3>2
    <3> QED
      BY <3>1, <3>3 DEF Load8Instructions
  <2> QED
    BY <1>1, <2>1, <2>2 DEF Decoded
<1>3. PICK name : f.n = Whole(name)
  BY <1>2
<1>4. Constants(f.n) = Size(name) /\ f.n[1] = name /\ f.n[2] = ""
  BY <1>3, WholeConstants
<1>5. Displacement(f.cpu, f.n) = 0
  BY <1>4 DEF Displacement, JumpNames, CallNames, BitNames, TestNames
<1>6. Size(name) \in Int
  BY DEF Size
<1>7. f.n[1] \in JumpNames \cup {"RST_P"} => f.kind = "plain"
  <2> SUFFICES ASSUME f.kind = "ED", f.n[1] \in JumpNames \cup {"RST_P"} PROVE FALSE
    BY <1>1 DEF Decoded
  <2>1. PICK m \in EdNames : f.n = Whole(m)
    BY DEF Decoded
  <2>2. f.n[1] \in EdNames
    BY <2>1, WholeConstants, ZenonT(30)
  <2> QED
    BY <2>2 DEF EdNames, LoadIRNames, JumpNames
<1>8. "JR_DD_E" \in JumpNames
  BY DEF JumpNames
<1>9. Length(f) = Constants(f.n) + Displacement(f.cpu, f.n)
  BY <1>1, LengthTaken
<1>10. Length(f) = Size(name) + 0
  BY <1>4, <1>5, <1>9
<1>11. Size(name) + 0 = Size(name)
  BY <1>6
<1>12. f.n[1] = name
  BY <1>4
<1> QED
  BY <1>7, <1>8, <1>10, <1>11, <1>12

(* Jumps and calls go where ControlFollows says, and a call leaves on the  *)
(* stack the address behind it.                                            *)
Goes(f, d) ==
  LET calls == Taken(f) /\ f.n[1] \in {"CALL_NN", "CALL_CC_NN", "RST_P"} IN
  /\ IsProcessor(d)
  /\ d.pc = IF Taken(f) THEN Wrap(Target(f)) ELSE Behind(f)
  /\ calls => Top(d) = Behind(f)
  /\ f.n[1] \in JumpNames \cup CallNames =>
       d.word["SP"] = Wrap(f.cpu.word["SP"] + (IF ~Taken(f) \/ f.n[1] \in JumpNames THEN 0
                                               ELSE IF calls THEN -2 ELSE 2))

LEMMA SizeIsInt ==
  ASSUME NEW f, Decoded(f), f.n[1] \in JumpNames \cup CallNames
  PROVE  /\ Behind(f) = Wrap(f.cpu.pc + Size(f.n[1]))
         /\ f.cpu.pc \in Int /\ Wrap(f.cpu.pc + 0) = f.cpu.pc
         /\ Wrap(f.cpu.word["SP"] + 0) = f.cpu.word["SP"]
<1>1. IsProcessor(f.cpu) /\ "SP" \in Words
  BY DEF Decoded, Words
<1>2. f.cpu.pc \in Word /\ f.cpu.word["SP"] \in Word
  BY <1>1, Fields
<1>3. f.cpu.pc + 0 = f.cpu.pc /\ f.cpu.word["SP"] + 0 = f.cpu.word["SP"] /\ f.cpu.pc \in Int
  BY <1>2, WordIsInt
<1> QED
  BY <1>2, <1>3, WordWraps, LengthOfControl DEF Behind

LEMMA JumpsGo ==
  ASSUME NEW f, Decoded(f), f.n[1] \in JumpNames
  PROVE  Goes(f, Jumps(f.cpu, f.n, f.op))
<1> DEFINE c == f.cpu
           name == f.n[1]
           d == Jumps(c, f.n, f.op)
<1>1. /\ IsProcessor(c) /\ f.op \in Opcode
      /\ Behind(f) = Wrap(c.pc + Size(name)) /\ c.pc \in Int
      /\ Wrap(c.word["SP"] + 0) = c.word["SP"]
  BY SizeIsInt DEF Decoded
<1>2. f.kind = "plain" /\ Encoded(f.op, Y(f.op), f.n)
  BY LengthOfControl DEF Decoded
<1>3. name \notin CallNames
  BY DEF JumpNames, CallNames
<1>4. ASSUME IsProcessor(d), d.word["SP"] = c.word["SP"],
             d.pc = IF Taken(f) THEN Wrap(Target(f)) ELSE Wrap(c.pc + Size(name))
      PROVE  Goes(f, d)
  <2>1. name \notin {"CALL_NN", "CALL_CC_NN", "RST_P"}
    BY DEF JumpNames
  <2> QED
    BY <1>1, <1>4, <2>1 DEF Goes
<1>5. CASE name = "JP_NN"
  <2>1. d = Absolute(c, TRUE)
    BY <1>5 DEF Jumps
  <2>2. Taken(f) /\ Target(f) = NN(c)
    BY <1>5 DEF Taken, Target, JumpNames
  <2>3. IsProcessor(d) /\ d.word = c.word /\ d.pc = Wrap(NN(c))
    BY <1>1, <2>1, AbsoluteGoes
  <2> QED
    BY <1>4, <2>2, <2>3
<1>6. CASE name = "JP_CC_NN"
  <2>1. d = Absolute(c, CC(c, Y(f.op)))
    BY <1>6 DEF Jumps
  <2>2. Taken(f) = Holds(c, Y(f.op)) /\ Target(f) = NN(c) /\ Size(name) = 2
    BY <1>6 DEF Taken, Target, Size
  <2>3. CC(c, Y(f.op)) = Holds(c, Y(f.op)) /\ CC(c, Y(f.op)) \in BOOLEAN
    BY <1>1, Parts, ConditionHolds DEF CC, Holds
  <2>4. /\ IsProcessor(d) /\ d.word = c.word
        /\ d.pc = IF CC(c, Y(f.op)) THEN Wrap(NN(c)) ELSE Wrap(c.pc + 2)
    BY <1>1, <2>1, <2>3, AbsoluteGoes
  <2> QED
    BY <1>4, <2>2, <2>3, <2>4
<1>7. CASE name = "JR_E"
  <2>1. d = Relative(c, TRUE)
    BY <1>7 DEF Jumps
  <2>2. Taken(f) /\ Target(f) = c.pc + 1 + Signed(N(c))
    BY <1>7 DEF Taken, Target, JumpNames
  <2>3. IsProcessor(d) /\ d.word = c.word /\ d.pc = Wrap(c.pc + 1 + Signed(N(c)))
    BY <1>1, <2>1, RelativeGoes
  <2> QED
    BY <1>4, <2>2, <2>3
<1>8. CASE name = "JR_DD_E"
  <2>1. d = Relative(c, CC(c, Q(f.op)))
    BY <1>8 DEF Jumps
  <2>2. Taken(f) = Holds(c, Y(f.op) - 4) /\ Target(f) = c.pc + 1 + Signed(N(c)) /\ Size(name) = 1
    BY <1>8 DEF Taken, Target, Size
  <2>3. Y(f.op) \in 4..7
    BY <1>2, <1>8 DEF Encoded
  <2>4. Q(f.op) = Y(f.op) - 4 /\ Q(f.op) \in 0..7
    <3>1. f.op \in Int
      BY <1>1, Parts
    <3> QED
      BY <2>3, <3>1, SMT DEF Q, Y
  <2>5. CC(c, Q(f.op)) = Holds(c, Y(f.op) - 4) /\ CC(c, Q(f.op)) \in BOOLEAN
    <3>1. CC(c, Q(f.op)) <=> Holds(c, Q(f.op))
      BY <1>1, <2>4, ConditionHolds
    <3> QED
      BY <2>4, <3>1 DEF CC, Holds
  <2>6. /\ IsProcessor(d) /\ d.word = c.word
        /\ d.pc = IF CC(c, Q(f.op)) THEN Wrap(c.pc + 1 + Signed(N(c))) ELSE Wrap(c.pc + 1)
    BY <1>1, <2>1, <2>5, RelativeGoes
  <2> QED
    BY <1>4, <2>2, <2>5, <2>6
<1>9. CASE name = "JP_HL"
  <2> DEFINE a == c.word[c.table]
  <2>1. d = Jump(c, a)
    BY <1>9 DEF Jumps
  <2>2. Taken(f) /\ Target(f) = a
    BY <1>9 DEF Taken, Target, JumpNames
  <2>3. a \in Int
    <3>1. c.table \in Words /\ \A u \in Words : c.word[u] \in Int
      BY <1>1, Numbers
    <3> QED
      BY <3>1
  <2> HIDE DEF a
  <2>4. IsProcessor(d) /\ d.word = c.word /\ d.pc = Wrap(a)
    BY <1>1, <2>1, <2>3, JumpKeeps
  <2> QED
    BY <1>4, <2>2, <2>4
<1>10. CASE name = "DJNZ_E"
  <2> DEFINE e == Set(c, RegB, Get(c, RegB) - 1)
  <2>1. d = Relative(e, Get(e, RegB) # 0)
    BY <1>10 DEF Jumps
  <2>2. Get(c, RegB) \in Byte /\ Get(c, RegB) \in Int /\ Get(c, RegB) - 1 \in Int /\ RegB \in AllHalves
    BY <1>1, GetIsByte, NamedHalves
  <2>3. Get(e, RegB) = (Get(c, RegB) - 1) % 256
    BY <1>1, <2>2, GetHighSet
  <2>4. Taken(f) = (Get(e, RegB) # 0) /\ Target(f) = c.pc + 1 + Signed(N(c)) /\ Size(name) = 1
    BY <1>10, <2>2, <2>3, NegatedByte DEF Taken, Target, Size
  <2>5. /\ IsProcessor(e) /\ e.pc = c.pc /\ e.memory = c.memory /\ e.word["SP"] = c.word["SP"]
    <3>1. "SP" \in Words \ {RegB.word}
      BY NamedHalves DEF Words
    <3> QED
      BY <1>1, <2>2, <3>1, SetKeeps
  <2> HIDE DEF e
  <2>6. N(e) = N(c)
    BY <2>5 DEF N, Read
  <2>7. /\ IsProcessor(d) /\ d.word = e.word
        /\ d.pc = IF Get(e, RegB) # 0 THEN Wrap(c.pc + 1 + Signed(N(c))) ELSE Wrap(c.pc + 1)
    BY <2>1, <2>5, <2>6, RelativeGoes
  <2> QED
    BY <1>4, <2>4, <2>5, <2>7
<1> QED
  BY <1>5, <1>6, <1>7, <1>8, <1>9, <1>10 DEF JumpNames

LEMMA CallsGo ==
  ASSUME NEW f, Decoded(f), f.n[1] \in CallNames
  PROVE  Goes(f, Calls(f.cpu, f.n, f.op))
<1> DEFINE c == f.cpu
           name == f.n[1]
           d == Calls(c, f.n, f.op)
<1>1. /\ IsProcessor(c) /\ f.op \in Opcode
      /\ Behind(f) = Wrap(c.pc + Size(name)) /\ c.pc \in Int /\ Wrap(c.pc + 0) = c.pc
      /\ c.word["SP"] \in Int /\ Wrap(c.word["SP"] + 0) = c.word["SP"]
  <2>1. "SP" \in Words /\ IsProcessor(c)
    BY DEF Words, Decoded
  <2>2. c.word["SP"] \in Int
    BY <2>1, Numbers
  <2> QED
    BY <2>1, <2>2, SizeIsInt DEF Decoded
<1>2. name \notin JumpNames
  BY DEF JumpNames, CallNames
<1>3. CC(c, Y(f.op)) = Holds(c, Y(f.op)) /\ CC(c, Y(f.op)) \in BOOLEAN
  BY <1>1, Parts, ConditionHolds DEF CC, Holds
<1>4. ASSUME NEW taken \in BOOLEAN, d = Call(c, taken), Taken(f) = taken, Target(f) = NN(c), Size(name) = 2,
             name \in {"CALL_NN", "CALL_CC_NN"}
      PROVE  Goes(f, d)
  <2>1. /\ IsProcessor(d) /\ d.pc = IF taken THEN Wrap(NN(c)) ELSE Wrap(c.pc + 2)
        /\ taken => Top(d) = Wrap(c.pc + 2)
        /\ d.word["SP"] = IF taken THEN Wrap(c.word["SP"] - 2) ELSE c.word["SP"]
    BY <1>1, <1>4, CallGoes
  <2>2. c.word["SP"] + (-2) = c.word["SP"] - 2
    BY <1>1
  <2> QED
    BY <1>1, <1>2, <1>4, <2>1, <2>2 DEF Goes
<1>5. ASSUME NEW taken \in BOOLEAN, NEW e, IsProcessor(e), e.word = c.word, e.pc = c.pc, Top(e) = Top(c),
             d = Return(e, taken), Taken(f) = taken, Target(f) = Top(c), Size(name) = 0,
             name \in {"RET", "RET_CC", "RETI_RETN"}
      PROVE  Goes(f, d)
  <2>1. /\ IsProcessor(d) /\ d.pc = IF taken THEN Wrap(Top(c)) ELSE c.pc
        /\ d.word["SP"] = IF taken THEN Wrap(c.word["SP"] + 2) ELSE c.word["SP"]
    BY <1>5, ReturnGoes
  <2>2. name \notin {"CALL_NN", "CALL_CC_NN", "RST_P"}
    BY <1>5
  <2> QED
    BY <1>1, <1>2, <1>5, <2>1, <2>2 DEF Goes
<1>6. CASE name = "CALL_NN"
  <2>1. d = Call(c, TRUE)
    BY <1>6 DEF Calls
  <2>2. Taken(f) = TRUE /\ Target(f) = NN(c) /\ Size(name) = 2
    BY <1>6 DEF Taken, Target, CallNames, Size
  <2> QED
    BY <1>4, <1>6, <2>1, <2>2
<1>7. CASE name = "CALL_CC_NN"
  <2>1. d = Call(c, CC(c, Y(f.op)))
    BY <1>7 DEF Calls
  <2>2. Taken(f) = CC(c, Y(f.op)) /\ Target(f) = NN(c) /\ Size(name) = 2
    BY <1>3, <1>7 DEF Taken, Target, Size
  <2> QED
    BY <1>3, <1>4, <1>7, <2>1, <2>2
<1>8. CASE name = "RET"
  <2>1. d = Return(c, TRUE)
    BY <1>8 DEF Calls
  <2>2. Taken(f) = TRUE /\ Target(f) = Top(c) /\ Size(name) = 0
    BY <1>8 DEF Taken, Target, CallNames, Size
  <2> QED
    BY <1>1, <1>5, <1>8, <2>1, <2>2
<1>9. CASE name = "RET_CC"
  <2>1. d = Return(c, CC(c, Y(f.op)))
    BY <1>9 DEF Calls
  <2>2. Taken(f) = CC(c, Y(f.op)) /\ Target(f) = Top(c) /\ Size(name) = 0
    BY <1>3, <1>9 DEF Taken, Target, Size
  <2> QED
    BY <1>1, <1>3, <1>5, <1>9, <2>1, <2>2
<1>10. CASE name = "RETI_RETN"
  <2> DEFINE e == [c EXCEPT !.iff1 = c.iff2]
  <2>1. d = Return(e, TRUE)
    BY <1>10 DEF Calls
  <2>2. Taken(f) = TRUE /\ Target(f) = Top(c) /\ Size(name) = 0
    BY <1>10 DEF Taken, Target, CallNames, Size
  <2>3. IsProcessor(e) /\ e.word = c.word /\ e.pc = c.pc /\ e.memory = c.memory
    BY <1>1 DEF IsProcessor
  <2> HIDE DEF e
  <2>4. Top(e) = Top(c)
    BY <2>3 DEF Top, ReadWord, Read
  <2> QED
    BY <1>5, <1>10, <2>1, <2>2, <2>3, <2>4
<1>11. CASE name = "RST_P"
  <2>1. d = Jump(Push(c, c.pc), 8 * Y(f.op))
    BY <1>11 DEF Calls
  <2>2. Taken(f) = TRUE /\ Target(f) = f.op - 199 /\ Size(name) = 0
    BY <1>11 DEF Taken, Target, CallNames, Size
  <2>3. f.op = 199 + 8 * Y(f.op) /\ Y(f.op) \in Int
    <3>1. f.kind = "plain"
      BY <1>11, LengthOfControl
    <3>2. Y(f.op) \in Int
      BY <1>1, Parts
    <3> QED
      BY <1>11, <3>1, <3>2 DEF Decoded, Encoded
  <2>4. f.op - 199 = 8 * Y(f.op) /\ 8 * Y(f.op) \in Int
    BY <2>3
  <2>5. /\ IsProcessor(d) /\ d.pc = Wrap(8 * Y(f.op)) /\ Top(d) = Wrap(c.pc)
        /\ d.word["SP"] = Wrap(c.word["SP"] - 2)
    BY <1>1, <2>1, <2>4, PushAndJump
  <2>6. c.word["SP"] + (-2) = c.word["SP"] - 2 /\ c.pc + 0 = c.pc
    BY <1>1
  <2>7. Behind(f) = Wrap(c.pc)
    BY <1>1, <2>2, <2>6
  <2> QED
    BY <1>2, <1>11, <2>2, <2>4, <2>5, <2>6, <2>7 DEF Goes
<1> QED
  BY <1>6, <1>7, <1>8, <1>9, <1>10, <1>11 DEF CallNames

LEMMA Shapes ==
  ASSUME NEW f, Decoded(f)
  PROVE  \/ f.n \in Load8Instructions /\ f.n[1] \in Load8Names
         \/ \E name \in (PlainNames \cup EdNames) \ Load8Names : f.n = Whole(name)
         \/ \E name \in BitNames \cup TestNames : f.n \in OnOperand({name}) /\ f.n[1] = name
<1>1. CASE f.kind = "plain"
  <2>1. f.n \in Load8Instructions \cup {Whole(name) : name \in PlainNames}
    BY <1>1 DEF Decoded, Encoded
  <2>2. CASE f.n \in {Whole(name) : name \in PlainNames}
    <3>1. PICK name \in PlainNames : f.n = Whole(name)
      BY <2>2
    <3>2. CASE name \in Load8Names
      <4>1. name \in Load8Names \ {"LD_R", "LD_INDIRECT_HL"}
        BY <3>2 DEF PlainNames, ExchangeNames, JumpNames, CallNames
      <4>2. f.n \in Load8Instructions
        BY <3>1, <4>1 DEF Load8Instructions
      <4>3. f.n[1] = name
        BY <3>1, WholeConstants
      <4> QED
        BY <3>2, <4>2, <4>3
    <3> QED
      BY <3>1, <3>2
  <2>3. CASE f.n \in {Whole(name) : name \in Load8Names \ {"LD_R", "LD_INDIRECT_HL"}}
    <3>1. PICK name \in Load8Names : f.n = Whole(name)
      BY <2>3
    <3> QED
      BY <2>3, <3>1, WholeParts, ZenonT(30) DEF Load8Instructions
  <2>4. CASE f.n \in {<<"LD_R", "R">>, <<"LD_R", "N">>, <<"LD_R", "INDIRECT_HL">>,
                      <<"LD_INDIRECT_HL", "R">>, <<"LD_INDIRECT_HL", "N">>}
    BY <2>4 DEF Load8Instructions, Load8Names
  <2> QED
    BY <2>1, <2>2, <2>3, <2>4 DEF Load8Instructions
<1>2. CASE f.kind = "ED"
  <2>1. PICK name \in EdNames : f.n = Whole(name)
    BY <1>2 DEF Decoded
  <2>2. name \notin Load8Names
    BY DEF EdNames, LoadIRNames, Load8Names
  <2> QED
    BY <2>1, <2>2
<1>3. CASE f.kind = "CB"
  <2>1. PICK name \in {"BIT_B", "RES_B", "SET_B"} : f.n = <<name, IF Z(f.op) = 6 THEN "INDIRECT_HL" ELSE "R">>
    BY <1>3 DEF Decoded
  <2>2. f.n[1] = name /\ f.n \in OnOperand({name})
    BY <2>1 DEF OnOperand
  <2> QED
    BY <2>2 DEF BitNames, TestNames
<1> QED
  BY <1>1, <1>2, <1>3 DEF Decoded

LEMMA WholeShape ==
  ASSUME NEW f, Decoded(f), f.n[1] \notin Load8Names, f.n[1] \notin BitNames \cup TestNames
  PROVE  f.n = Whole(f.n[1])
<1>1. PICK name \in PlainNames \cup EdNames : f.n = Whole(name)
  BY Shapes
<1>2. f.n[1] = name
  BY <1>1, WholeConstants
<1> QED
  BY <1>1, <1>2

LEMMA EffectGoesOn ==
  ASSUME NEW f, Decoded(f), f.n[1] \in Transfers, f.n[1] \notin JumpNames \cup CallNames, Accepted(f)
  PROVE  GoesOn(f.cpu, f.n, Effect(f.cpu, f.n, f.op))
<1> DEFINE c == f.cpu
           n == f.n
           op == f.op
           d == Effect(c, n, op)
<1>1. IsProcessor(c) /\ op \in Opcode
  BY DEF Decoded
<1>2. CASE n[1] \in Load8Names
  <2>1. n \in Load8Instructions
    <3>1. n[1] \notin BitNames \cup TestNames
      BY <1>2 DEF Load8Names, BitNames, TestNames
    <3>2. ASSUME NEW name \in (PlainNames \cup EdNames) \ Load8Names, n = Whole(name) PROVE FALSE
      <4>1. n[1] = name
        BY <3>2, WholeConstants
      <4> QED
        BY <1>2, <4>1
    <3> QED
      BY <3>1, <3>2, Shapes
  <2>2. d = Load8(c, n, op)
    BY <1>2 DEF Effect, Load8Names, LoadIRNames, Load16Names, ExchangeNames, BlockPortNames,
                InputNames, OutputNames, BitNames, TestNames, JumpNames, CallNames
  <2> QED
    BY <1>1, <2>1, <2>2, Load8Right
<1>3. CASE n[1] \in LoadIRNames
  <2>1. n[1] \notin Load8Names /\ n[1] \notin BitNames \cup TestNames
    BY <1>3 DEF LoadIRNames, Load8Names, BitNames, TestNames
  <2>2. n \in {Whole(name) : name \in LoadIRNames}
    BY <1>3, <2>1, WholeShape
  <2>3. d = LoadIR(c, n, op)
    BY <1>3 DEF Effect, Load8Names, LoadIRNames, Load16Names, ExchangeNames, BlockPortNames,
                InputNames, OutputNames, BitNames, TestNames, JumpNames, CallNames
  <2> QED
    BY <1>1, <2>2, <2>3, LoadIRRight
<1>4. CASE n[1] \in Load16Names
  <2>1. n[1] \notin Load8Names /\ n[1] \notin BitNames \cup TestNames
    BY <1>4 DEF Load16Names, Load8Names, BitNames, TestNames
  <2>2. n \in {Whole(name) : name \in Load16Names}
    BY <1>4, <2>1, WholeShape
  <2>3. d = Load16(c, n, op)
    BY <1>4 DEF Effect, Load8Names, LoadIRNames, Load16Names, ExchangeNames, BlockPortNames,
                InputNames, OutputNames, BitNames, TestNames, JumpNames, CallNames
  <2> QED
    BY <1>1, <2>2, <2>3, Load16Right
<1>5. CASE n[1] \in ExchangeNames
  <2>1. n[1] \notin Load8Names /\ n[1] \notin BitNames \cup TestNames
    BY <1>5 DEF ExchangeNames, Load8Names, BitNames, TestNames
  <2>2. n \in {Whole(name) : name \in ExchangeNames}
    BY <1>5, <2>1, WholeShape
  <2>3. d = Exchange(c, n, op)
    BY <1>5 DEF Effect, Load8Names, LoadIRNames, Load16Names, ExchangeNames, BlockPortNames,
                InputNames, OutputNames, BitNames, TestNames, JumpNames, CallNames
  <2> QED
    BY <1>1, <2>2, <2>3, ExchangeRight
<1>6. CASE n[1] \in BlockPortNames
  <2>1. n[1] \notin Load8Names /\ n[1] \notin BitNames \cup TestNames
    BY <1>6 DEF BlockPortNames, Load8Names, BitNames, TestNames
  <2>2. n \in {Whole(name) : name \in BlockPortNames}
    BY <1>6, <2>1, WholeShape
  <2>3. d = BlockPort(c, n, op)
    BY <1>6 DEF Effect, Load8Names, LoadIRNames, Load16Names, ExchangeNames, BlockPortNames,
                InputNames, OutputNames, BitNames, TestNames, JumpNames, CallNames
  <2>4. n[1] = "INI_IND" => RegC(c) \in InPorts
    BY DEF Accepted, Port
  <2> QED
    BY <1>1, <2>2, <2>3, <2>4, BlockPortRight
<1>7. CASE n[1] \in InputNames
  <2>1. n[1] \notin Load8Names /\ n[1] \notin BitNames \cup TestNames
    BY <1>7 DEF InputNames, Load8Names, BitNames, TestNames
  <2>2. n \in {Whole(name) : name \in InputNames}
    BY <1>7, <2>1, WholeShape
  <2>3. d = Inputs(c, n, op)
    BY <1>7 DEF Effect, Load8Names, LoadIRNames, Load16Names, ExchangeNames, BlockPortNames,
                InputNames, OutputNames, BitNames, TestNames, JumpNames, CallNames
  <2>4. (IF n[1] = "IN_A_N" THEN N(c) ELSE RegC(c)) \in InPorts
    BY <1>7 DEF Accepted, Port, InputNames
  <2> QED
    BY <1>1, <2>2, <2>3, <2>4, InputsRight
<1>8. CASE n[1] \in OutputNames
  <2>1. n[1] \notin Load8Names /\ n[1] \notin BitNames \cup TestNames
    BY <1>8 DEF OutputNames, Load8Names, BitNames, TestNames
  <2>2. n \in {Whole(name) : name \in OutputNames}
    BY <1>8, <2>1, WholeShape
  <2>3. d = Outputs(c, n, op)
    BY <1>8 DEF Effect, Load8Names, LoadIRNames, Load16Names, ExchangeNames, BlockPortNames,
                InputNames, OutputNames, BitNames, TestNames, JumpNames, CallNames
  <2> QED
    BY <1>1, <2>2, <2>3, OutputsRight
<1>9. CASE n[1] = "LDI_LDD"
  <2>1. n[1] \notin Load8Names /\ n[1] \notin BitNames \cup TestNames
    BY <1>9 DEF Load8Names, BitNames, TestNames
  <2>2. n = Whole("LDI_LDD")
    BY <1>9, <2>1, WholeShape
  <2>3. d = BlockLoad(c, n, op)
    BY <1>9 DEF Effect, Load8Names, LoadIRNames, Load16Names, ExchangeNames, BlockPortNames,
                InputNames, OutputNames, BitNames, TestNames, JumpNames, CallNames
  <2> QED
    BY <1>1, <2>2, <2>3, BlockLoadRight
<1>10. CASE n[1] = "CPI_CPD"
  <2>1. n[1] \notin Load8Names /\ n[1] \notin BitNames \cup TestNames
    BY <1>10 DEF Load8Names, BitNames, TestNames
  <2>2. n = Whole("CPI_CPD")
    BY <1>10, <2>1, WholeShape
  <2>3. d = BlockCompare(c, n, op)
    BY <1>10 DEF Effect, Load8Names, LoadIRNames, Load16Names, ExchangeNames, BlockPortNames,
                InputNames, OutputNames, BitNames, TestNames, JumpNames, CallNames
  <2> QED
    BY <1>1, <2>2, <2>3, BlockCompareRight
<1>11. CASE n[1] \in BitNames
  <2>1. n \in OnOperand(BitNames)
    <3>1. n[1] \notin Load8Names
      BY <1>11 DEF Load8Names, BitNames
    <3>2. ASSUME NEW name \in (PlainNames \cup EdNames) \ Load8Names, n = Whole(name) PROVE FALSE
      <4>1. n[1] = name
        BY <3>2, WholeConstants
      <4>2. name \notin BitNames
        BY DEF PlainNames, EdNames, Load8Names, LoadIRNames, ExchangeNames, JumpNames, CallNames, BitNames
      <4> QED
        BY <1>11, <4>1, <4>2
    <3>3. PICK name \in BitNames \cup TestNames : n \in OnOperand({name}) /\ n[1] = name
      BY <3>1, <3>2, Shapes
    <3> QED
      BY <1>11, <3>3 DEF OnOperand
  <2>2. d = SetRes(c, n, op)
    BY <1>11 DEF Effect, Load8Names, LoadIRNames, Load16Names, ExchangeNames, BlockPortNames,
                InputNames, OutputNames, BitNames, TestNames, JumpNames, CallNames
  <2> QED
    BY <1>1, <2>1, <2>2, SetResRight
<1>12. CASE n[1] \in TestNames
  <2>1. n \in OnOperand(TestNames)
    <3>1. n[1] \notin Load8Names
      BY <1>12 DEF Load8Names, TestNames
    <3>2. ASSUME NEW name \in (PlainNames \cup EdNames) \ Load8Names, n = Whole(name) PROVE FALSE
      <4>1. n[1] = name
        BY <3>2, WholeConstants
      <4>2. name \notin TestNames
        BY DEF PlainNames, EdNames, Load8Names, LoadIRNames, ExchangeNames, JumpNames, CallNames, TestNames
      <4> QED
        BY <1>12, <4>1, <4>2
    <3>3. PICK name \in BitNames \cup TestNames : n \in OnOperand({name}) /\ n[1] = name
      BY <3>1, <3>2, Shapes
    <3> QED
      BY <1>12, <3>3 DEF OnOperand
  <2>2. d = TestBit(c, n, op)
    BY <1>12 DEF Effect, Load8Names, LoadIRNames, Load16Names, ExchangeNames, BlockPortNames,
                InputNames, OutputNames, BitNames, TestNames, JumpNames, CallNames
  <2> QED
    BY <1>1, <2>1, <2>2, TestBitRight
<1> QED
  BY <1>2, <1>3, <1>4, <1>5, <1>6, <1>7, <1>8, <1>9, <1>10, <1>11, <1>12 DEF Transfers

(* Each of these instructions goes on where ControlFollows says, but for   *)
(* DD CB with another operand than 6.                                      *)
LEMMA EffectGoes ==
  ASSUME NEW f, Decoded(f), f.n[1] \in Transfers, Accepted(f)
  PROVE  LET d == Effect(f.cpu, f.n, f.op) IN
         /\ IsProcessor(d)
         /\ ~(f.kind = "CB" /\ f.cpu.table # "HL" /\ Z(f.op) # 6) => Goes(f, d)
<1> DEFINE d == Effect(f.cpu, f.n, f.op)
<1>1. CASE f.n[1] \notin JumpNames \cup CallNames
  <2>1. GoesOn(f.cpu, f.n, d)
    BY <1>1, EffectGoesOn
  <2>2. ~Taken(f)
    <3>1. f.n[1] \notin {"JP_CC_NN", "CALL_CC_NN", "RET_CC"} /\ f.n[1] # "JR_DD_E" /\ f.n[1] # "DJNZ_E"
      BY <1>1 DEF JumpNames, CallNames
    <3> QED
      BY <1>1, <3>1 DEF Taken
  <2> HIDE DEF d
  <2>3. IsProcessor(d) /\ d.pc = Wrap(f.cpu.pc + (Constants(f.n) + Displacement(f.cpu, f.n)))
    BY <2>1 DEF GoesOn
  <2>4. ASSUME ~(f.kind = "CB" /\ f.cpu.table # "HL" /\ Z(f.op) # 6) PROVE d.pc = Behind(f)
    BY <2>3, <2>4, LengthTaken DEF Behind
  <2>5. ~(f.kind = "CB" /\ f.cpu.table # "HL" /\ Z(f.op) # 6) => Goes(f, d)
    BY <1>1, <2>2, <2>3, <2>4 DEF Goes
  <2> QED
    BY <2>3, <2>5 DEF d
<1>2. CASE f.n[1] \in JumpNames
  <2>1. d = Jumps(f.cpu, f.n, f.op)
    BY <1>2 DEF Effect, Load8Names, LoadIRNames, Load16Names, ExchangeNames, BlockPortNames,
                InputNames, OutputNames, BitNames, TestNames, JumpNames, CallNames
  <2>2. Goes(f, d)
    BY <1>2, <2>1, JumpsGo
  <2> QED
    BY <2>2 DEF Goes
<1>3. CASE f.n[1] \in CallNames
  <2>1. d = Calls(f.cpu, f.n, f.op)
    BY <1>3 DEF Effect, Load8Names, LoadIRNames, Load16Names, ExchangeNames, BlockPortNames,
                InputNames, OutputNames, BitNames, TestNames, JumpNames, CallNames
  <2>2. Goes(f, d)
    BY <1>3, <2>1, CallsGo
  <2> QED
    BY <2>2 DEF Goes
<1> QED
  BY <1>1, <1>2, <1>3

-----------------------------------------------------------------------------
(* The state machine.                                                      *)

LEMMA TableSet ==
  ASSUME NEW c, IsProcessor(c), NEW t \in {"HL", "IX", "IY"}
  PROVE  LET d == [c EXCEPT !.table = t] IN
         /\ IsProcessor(d) /\ d.table = t
         /\ d.word = c.word /\ d.pc = c.pc /\ d.memory = c.memory
BY DEF IsProcessor

LEMMA OpcodeIsByte ==
  ASSUME NEW c, IsProcessor(c)
  PROVE  N(c) \in Opcode
BY OperandsAreBytes DEF Opcode, Byte

LEMMA FetchTypes ==
  ASSUME NEW c, IsProcessor(c)
  PROVE  /\ IsProcessor(Fetch(c).cpu) /\ Fetch(c).cpu.word = c.word
         /\ Fetch(c).n[1] \in Transfers => Decoded(Fetch(c))
<1> DEFINE op == N(c)
           d == Refreshed(Skip(c, 1))
           n == INSTRUCTION_TABLE[op]
           next == N(d)
           indexed == Read(d, d.pc + 1)
           e == Refreshed(Skip(d, 1))
           f == Fetch(c)
<1>1. op \in Opcode
  BY OpcodeIsByte
<1>2. IsProcessor(d) /\ d.word = c.word
  <2>1. IsProcessor(Skip(c, 1)) /\ Skip(c, 1).word = c.word
    BY SkipKeeps
  <2> QED
    BY <2>1, RefreshedKeeps
<1>3. f = CASE n[1] = "ED_PREFIX" -> Fetched([e EXCEPT !.table = "HL"], ED_INSTRUCTION_TABLE[next], next, "ED")
            [] n[1] = "CB_PREFIX" /\ c.table = "HL" -> Fetched(e, CB_INSTRUCTION_TABLE[next], next, "CB")
            [] n[1] = "CB_PREFIX" /\ c.table # "HL" -> Fetched(d, CB_INSTRUCTION_TABLE[indexed], indexed, "CB")
            [] OTHER -> Fetched(d, n, op, "plain")
  BY DEF Fetch
<1> HIDE DEF op, d, f
<1>4. next \in Opcode /\ indexed \in Opcode
  <2>1. d.pc + 1 \in Int
    BY <1>2, Numbers
  <2> QED
    BY <1>2, <2>1, OpcodeIsByte, ReadIsByte DEF Opcode, Byte
<1>5. IsProcessor(e) /\ e.word = c.word
  <2>1. IsProcessor(Skip(d, 1)) /\ Skip(d, 1).word = c.word
    BY <1>2, SkipKeeps
  <2> QED
    BY <2>1, RefreshedKeeps
<1> HIDE DEF next, indexed, e
<1>6. CASE n[1] = "ED_PREFIX"
  <2> DEFINE g == [e EXCEPT !.table = "HL"]
  <2>1. IsProcessor(g) /\ g.table = "HL" /\ g.word = c.word
    BY <1>5, TableSet
  <2> HIDE DEF g
  <2>2. f = Fetched(g, ED_INSTRUCTION_TABLE[next], next, "ED")
    BY <1>3, <1>6 DEF g
  <2>3. f.cpu = g /\ f.n = ED_INSTRUCTION_TABLE[next] /\ f.op = next /\ f.kind = "ED"
    BY <2>2 DEF Fetched
  <2>4. ASSUME f.n[1] \in Transfers
        PROVE  \E name \in EdNames :
                 /\ f.n = Whole(name)
                 /\ Size(name) = IF f.op \in {67 + 8*k : k \in 0..7} THEN 2 ELSE 0
    BY <1>4, <2>3, <2>4, EdEncoded
  <2>5. f.n[1] \in Transfers => Decoded(f)
    BY <1>4, <2>1, <2>3, <2>4 DEF Decoded
  <2> QED
    BY <2>1, <2>3, <2>5 DEF f
<1>7. CASE n[1] = "CB_PREFIX" /\ c.table = "HL"
  <2>1. f = Fetched(e, CB_INSTRUCTION_TABLE[next], next, "CB")
    BY <1>3, <1>7
  <2>2. f.cpu = e /\ f.n = CB_INSTRUCTION_TABLE[next] /\ f.op = next /\ f.kind = "CB"
    BY <2>1 DEF Fetched
  <2>3. f.n[1] \in Transfers => Decoded(f)
    BY <1>4, <1>5, <2>2, CbEncoded DEF Decoded
  <2> QED
    BY <1>5, <2>2, <2>3 DEF f
<1>8. CASE n[1] = "CB_PREFIX" /\ c.table # "HL"
  <2>1. f = Fetched(d, CB_INSTRUCTION_TABLE[indexed], indexed, "CB")
    BY <1>3, <1>8
  <2>2. f.cpu = d /\ f.n = CB_INSTRUCTION_TABLE[indexed] /\ f.op = indexed /\ f.kind = "CB"
    BY <2>1 DEF Fetched
  <2>3. f.n[1] \in Transfers => Decoded(f)
    BY <1>2, <1>4, <2>2, CbEncoded DEF Decoded
  <2> QED
    BY <1>2, <2>2, <2>3 DEF f
<1>9. CASE n[1] # "ED_PREFIX" /\ n[1] # "CB_PREFIX"
  <2>1. f = Fetched(d, n, op, "plain")
    BY <1>3, <1>9
  <2>2. f.cpu = d /\ f.n = n /\ f.op = op /\ f.kind = "plain"
    BY <2>1 DEF Fetched
  <2>3. f.n[1] \in Transfers => Decoded(f)
    BY <1>1, <1>2, <2>2, PlainEncoded DEF Decoded
  <2> QED
    BY <1>2, <2>2, <2>3 DEF f
<1> QED
  BY <1>6, <1>7, <1>8, <1>9

(* The inductive invariant: the processor has its type, and its words, and *)
(* after an instruction all of it, are what the last effect left.          *)
LastInv ==
  steps > 0 =>
    LET d == Effect(last.cpu, last.n, last.op) IN
    /\ Decoded(last) /\ last.n[1] \in Transfers /\ Accepted(last)
    /\ cpu.word = d.word
    /\ cpu.table = "HL" => cpu = [d EXCEPT !.table = "HL"]
TransferInv == TypeOK /\ entered \in Cases /\ LastInv

LEMMA NextSplits ==
  ASSUME Next
  PROVE  Prefix \/ \E names \in SUBSET Transfers : Executes(names)
<1>1. /\ Load8Names \in SUBSET Transfers /\ LoadIRNames \in SUBSET Transfers
      /\ Load16Names \in SUBSET Transfers /\ ExchangeNames \in SUBSET Transfers
      /\ {"LDI_LDD"} \in SUBSET Transfers /\ {"CPI_CPD"} \in SUBSET Transfers
      /\ BlockPortNames \in SUBSET Transfers /\ InputNames \in SUBSET Transfers
      /\ OutputNames \in SUBSET Transfers /\ BitNames \in SUBSET Transfers
      /\ TestNames \in SUBSET Transfers /\ JumpNames \in SUBSET Transfers
      /\ CallNames \in SUBSET Transfers
  BY DEF Transfers
<1> QED
  BY <1>1 DEF Next

LEMMA InitHolds == Init => TransferInv
<1> SUFFICES ASSUME Init PROVE TransferInv
  OBVIOUS
<1>1. entered \in Cases /\ cpu = entered.cpu /\ steps = 0
  BY DEF Init
<1>2. IsProcessor(entered.cpu) /\ entered.limit \in Nat
  BY <1>1, TransferAssumption
<1>3. IsProcessor(cpu) /\ steps \in 0..entered.limit
  BY <1>1, <1>2
<1> QED
  BY <1>1, <1>3 DEF TransferInv, TypeOK, LastInv

LEMMA PrefixKeeps ==
  ASSUME TransferInv, Prefix
  PROVE  TransferInv'
<1> DEFINE c == Fetch(cpu).cpu
           t == IF Fetch(cpu).n[1] = "DD_PREFIX" THEN "IX" ELSE "IY"
<1>1. IsProcessor(c) /\ c.word = cpu.word
  <2>1. IsProcessor(cpu)
    BY DEF TransferInv, TypeOK
  <2> QED
    BY <2>1, FetchTypes
<1>2. cpu' = [c EXCEPT !.table = t] /\ UNCHANGED <<entered, steps, last>>
  BY DEF Prefix
<1>3. t \in {"HL", "IX", "IY"} /\ t # "HL"
  OBVIOUS
<1> HIDE DEF c, t
<1>4. IsProcessor(cpu') /\ cpu'.table = t /\ cpu'.word = cpu.word
  BY <1>1, <1>2, <1>3, TableSet
<1>5. TypeOK' /\ (entered \in Cases)'
  BY <1>2, <1>4 DEF TransferInv, TypeOK
<1>6. LastInv'
  <2> SUFFICES ASSUME steps > 0
               PROVE  LET d == Effect(last.cpu, last.n, last.op) IN
                      /\ Decoded(last) /\ last.n[1] \in Transfers /\ Accepted(last)
                      /\ cpu'.word = d.word
                      /\ cpu'.table = "HL" => cpu' = [d EXCEPT !.table = "HL"]
    BY <1>2 DEF LastInv, Decoded, Accepted, Port
  <2> QED
    BY <1>3, <1>4 DEF TransferInv, LastInv
<1> QED
  BY <1>5, <1>6 DEF TransferInv

LEMMA ExecutesKeeps ==
  ASSUME TransferInv, NEW names \in SUBSET Transfers, Executes(names)
  PROVE  TransferInv'
<1> DEFINE f == Fetch(cpu)
           d == Effect(f.cpu, f.n, f.op)
<1>1. IsProcessor(cpu) /\ steps \in 0..entered.limit /\ entered \in Cases
  BY DEF TransferInv, TypeOK
<1>2. /\ steps < entered.limit /\ f.n[1] \in Transfers /\ Accepted(f)
      /\ cpu' = [d EXCEPT !.table = "HL"] /\ steps' = steps + 1 /\ last' = f /\ entered' = entered
  BY DEF Executes, Running
<1> HIDE DEF f
<1>3. Decoded(f)
  BY <1>1, <1>2, FetchTypes DEF f
<1>4. IsProcessor(d)
  BY <1>2, <1>3, EffectGoes
<1> HIDE DEF d
<1>5. IsProcessor(cpu') /\ cpu'.word = d.word
  BY <1>2, <1>4, TableSet
<1>6. entered.limit \in Nat
  BY <1>1, TransferAssumption
<1>7. steps' \in 0..entered'.limit
  BY <1>1, <1>2, <1>6
<1>8. TypeOK' /\ (entered \in Cases)'
  BY <1>1, <1>2, <1>5, <1>7 DEF TypeOK
<1>9. LastInv'
  <2> SUFFICES /\ Decoded(last') /\ last'.n[1] \in Transfers /\ Accepted(last')
               /\ cpu'.word = Effect(last'.cpu, last'.n, last'.op).word
               /\ cpu' = [Effect(last'.cpu, last'.n, last'.op) EXCEPT !.table = "HL"]
    BY DEF LastInv, Decoded, Accepted, Port
  <2>1. Effect(last'.cpu, last'.n, last'.op) = d
    BY <1>2 DEF d
  <2> QED
    BY <1>2, <1>3, <1>5, <2>1
<1> QED
  BY <1>8, <1>9 DEF TransferInv

LEMMA StutterKeeps ==
  ASSUME TransferInv, UNCHANGED vars
  PROVE  TransferInv'
BY DEF TransferInv, TypeOK, LastInv, Decoded, Accepted, Port, vars

LEMMA TransferInductive == Spec => []TransferInv
<1>1. TransferInv /\ [Next]_vars => TransferInv'
  BY NextSplits, PrefixKeeps, ExecutesKeeps, StutterKeeps
<1> QED
  BY InitHolds, <1>1, PTL DEF Spec

(* For every program, memory and answer of the ports: registers and memory *)
(* keep their widths, whatever is pushed, added or counted.                *)
THEOREM TypeCorrect == Spec => []TypeOK
BY TransferInductive, PTL DEF TransferInv

LEMMA ControlInv == TransferInv => ControlFollows
<1> SUFFICES ASSUME TransferInv, steps > 0, cpu.table = "HL",
                    ~(last.kind = "CB" /\ last.cpu.table # "HL" /\ Z(last.op) # 6)
             PROVE  LET calls == Taken(last) /\ last.n[1] \in {"CALL_NN", "CALL_CC_NN", "RST_P"} IN
                    /\ cpu.pc = IF Taken(last) THEN Wrap(Target(last)) ELSE Behind(last)
                    /\ calls => Top(cpu) = Behind(last)
                    /\ last.n[1] \in JumpNames \cup CallNames =>
                         cpu.word.SP = Wrap(last.cpu.word.SP + (IF ~Taken(last) \/ last.n[1] \in JumpNames THEN 0
                                                               ELSE IF calls THEN -2 ELSE 2))
  BY DEF ControlFollows
<1> DEFINE d == Effect(last.cpu, last.n, last.op)
<1>1. Decoded(last) /\ last.n[1] \in Transfers /\ Accepted(last) /\ cpu = [d EXCEPT !.table = "HL"]
  BY DEF TransferInv, LastInv
<1>2. IsProcessor(d) /\ Goes(last, d)
  BY <1>1, EffectGoes
<1> HIDE DEF d
<1>3. cpu.word = d.word /\ cpu.pc = d.pc /\ cpu.memory = d.memory
  BY <1>1, <1>2, TableSet
<1>4. Top(cpu) = Top(d)
  BY <1>3 DEF Top, ReadWord, Read
<1> QED
  BY <1>2, <1>3, <1>4 DEF Goes

(* For every program: each instruction goes on where the documentation     *)
(* says, and calls and returns move the stack pointer and the return       *)
(* address as it says.                                                     *)
THEOREM ControlCorrect == Spec => []ControlFollows
BY TransferInductive, ControlInv, PTL

-----------------------------------------------------------------------------
(* The words of the register tables exchanged.  Mirrors(c, d, u, v) says   *)
(* that d is c with the words u and v exchanged; what the helpers do to    *)
(* the two keeps it, each with the register that stands for the other's.   *)

Exchanged == {"HL", "IX", "IY"}
Rest(c) == <<c.alternates, c.i, c.r, c.iff1, c.iff2, c.sent>>
Mirrors(c, d, u, v) ==
  /\ IsProcessor(c) /\ IsProcessor(d)
  /\ \A w \in Words : d.word[Other(w, u, v)] = c.word[w]
  /\ d.table = Other(c.table, u, v)
  /\ d.pc = c.pc /\ d.memory = c.memory /\ Rest(d) = Rest(c)

LEMMA SameFields ==
  ASSUME NEW a, IsProcessor(a), NEW b, IsProcessor(b),
         a.word = b.word, a.alternates = b.alternates, a.i = b.i, a.r = b.r, a.pc = b.pc,
         a.iff1 = b.iff1, a.iff2 = b.iff2, a.table = b.table, a.sent = b.sent, a.memory = b.memory
  PROVE  a = b
BY SMT DEF IsProcessor

LEMMA RestParts ==
  ASSUME NEW c, NEW d, Rest(c) = Rest(d)
  PROVE  /\ c.alternates = d.alternates /\ c.i = d.i /\ c.r = d.r
         /\ c.iff1 = d.iff1 /\ c.iff2 = d.iff2 /\ c.sent = d.sent
BY DEF Rest

LEMMA OtherWords ==
  ASSUME NEW u \in Exchanged, NEW v \in Exchanged, NEW w \in Words
  PROVE  /\ Other(w, u, v) \in Words /\ Other(Other(w, u, v), u, v) = w
         /\ w \in Exchanged => Other(w, u, v) \in Exchanged
         /\ w \notin Exchanged => Other(w, u, v) = w
BY SMT DEF Other, Exchanged, Words

LEMMA SwappedFields ==
  ASSUME NEW c, IsProcessor(c), NEW u \in Exchanged, NEW v \in Exchanged
  PROVE  LET s == Swapped(c, u, v) IN
         /\ IsProcessor(s)
         /\ s.word = [w \in Words |-> c.word[Other(w, u, v)]] /\ s.table = Other(c.table, u, v)
         /\ s.pc = c.pc /\ s.memory = c.memory /\ Rest(s) = Rest(c)
<1> DEFINE m == [w \in Words |-> c.word[Other(w, u, v)]]
           t == Other(c.table, u, v)
<1>1. Swapped(c, u, v) = [c EXCEPT !.word = m, !.table = t]
  BY DEF Swapped
<1>2. m \in [Words -> Word]
  BY OtherWords, Fields
<1>3. t \in {"HL", "IX", "IY"}
  BY Fields DEF Other, Exchanged
<1> HIDE DEF m, t
<1>4. IsProcessor([c EXCEPT !.word = m, !.table = t])
  <2>1. IsProcessor([c EXCEPT !.word = m])
    BY <1>2, SMT DEF IsProcessor
  <2>2. [c EXCEPT !.word = m, !.table = t] = [[c EXCEPT !.word = m] EXCEPT !.table = t]
    BY SMT DEF IsProcessor
  <2> QED
    BY <1>3, <2>1, <2>2, TableSet
<1>5. LET s == [c EXCEPT !.word = m, !.table = t] IN
      /\ s.word = m /\ s.table = t /\ s.pc = c.pc /\ s.memory = c.memory /\ Rest(s) = Rest(c)
  BY SMT DEF IsProcessor, Rest
<1> QED
  BY <1>1, <1>4, <1>5 DEF m, t

LEMMA SwappedMirrors ==
  ASSUME NEW c, IsProcessor(c), NEW u \in Exchanged, NEW v \in Exchanged
  PROVE  Mirrors(c, Swapped(c, u, v), u, v)
<1> DEFINE s == Swapped(c, u, v)
<1>1. /\ IsProcessor(s) /\ s.word = [w \in Words |-> c.word[Other(w, u, v)]]
      /\ s.table = Other(c.table, u, v) /\ s.pc = c.pc /\ s.memory = c.memory /\ Rest(s) = Rest(c)
  BY SwappedFields
<1> HIDE DEF s
<1>2. ASSUME NEW w \in Words PROVE s.word[Other(w, u, v)] = c.word[w]
  BY <1>1, OtherWords
<1> QED
  BY <1>1, <1>2 DEF Mirrors, s

LEMMA MirrorsSwapped ==
  ASSUME NEW c, NEW d, NEW u \in Exchanged, NEW v \in Exchanged, Mirrors(c, d, u, v)
  PROVE  d = Swapped(c, u, v)
<1> DEFINE s == Swapped(c, u, v)
<1>1. IsProcessor(c) /\ IsProcessor(d)
  BY DEF Mirrors
<1>2. /\ IsProcessor(s) /\ s.word = [w \in Words |-> c.word[Other(w, u, v)]]
      /\ s.table = Other(c.table, u, v) /\ s.pc = c.pc /\ s.memory = c.memory /\ Rest(s) = Rest(c)
  BY <1>1, SwappedFields
<1> HIDE DEF s
<1>3. d.word = s.word
  <2>1. \A w \in Words : d.word[w] = c.word[Other(w, u, v)]
    <3> SUFFICES ASSUME NEW w \in Words PROVE d.word[w] = c.word[Other(w, u, v)]
      OBVIOUS
    <3>1. Other(w, u, v) \in Words /\ Other(Other(w, u, v), u, v) = w
      BY OtherWords
    <3> QED
      BY <3>1 DEF Mirrors
  <2>2. d.word \in [Words -> Word]
    BY <1>1, Fields
  <2> QED
    BY <1>2, <2>1, <2>2
<1>4. Rest(d) = Rest(s) /\ d.table = s.table /\ d.pc = s.pc /\ d.memory = s.memory
  BY <1>2 DEF Mirrors
<1>5. /\ d.alternates = s.alternates /\ d.i = s.i /\ d.r = s.r
      /\ d.iff1 = s.iff1 /\ d.iff2 = s.iff2 /\ d.sent = s.sent
  BY <1>4, RestParts
<1>6. d = s
  BY <1>1, <1>2, <1>3, <1>4, <1>5, SameFields
<1> QED
  BY <1>6 DEF s

(* What the helpers leave alone beside what is said of them above.         *)
LEMMA RestKept ==
  ASSUME NEW c, IsProcessor(c), NEW k
  PROVE  /\ Rest(Skip(c, k)) = Rest(c) /\ Rest(Jump(c, k)) = Rest(c)
         /\ \A w \in Words : Rest(SetWord(c, w, k)) = Rest(c)
         /\ \A a : Rest(Write(c, a, k)) = Rest(c)
BY SMT DEF IsProcessor, Rest, Skip, Jump, SetWord, Write

LEMMA MirrorsSkip ==
  ASSUME NEW c, NEW d, NEW u \in Exchanged, NEW v \in Exchanged, Mirrors(c, d, u, v), NEW k \in Int
  PROVE  Mirrors(Skip(c, k), Skip(d, k), u, v)
BY SkipKeeps, RestKept DEF Mirrors

LEMMA MirrorsJump ==
  ASSUME NEW c, NEW d, NEW u \in Exchanged, NEW v \in Exchanged, Mirrors(c, d, u, v), NEW a \in Int
  PROVE  Mirrors(Jump(c, a), Jump(d, a), u, v)
BY JumpKeeps, RestKept DEF Mirrors

LEMMA MirrorsReads ==
  ASSUME NEW c, NEW d, NEW u, NEW v, Mirrors(c, d, u, v)
  PROVE  /\ \A a : Read(d, a) = Read(c, a) /\ ReadWord(d, a) = ReadWord(c, a)
         /\ N(d) = N(c) /\ NN(d) = NN(c)
BY DEF Mirrors, Read, ReadWord, N, NN

LEMMA MirrorsWrite ==
  ASSUME NEW c, NEW d, NEW u \in Exchanged, NEW v \in Exchanged, Mirrors(c, d, u, v),
         NEW a \in Int, NEW x \in Int
  PROVE  Mirrors(Write(c, a, x), Write(d, a, x), u, v)
<1>1. IsProcessor(c) /\ IsProcessor(d) /\ d.memory = c.memory
  BY DEF Mirrors
<1>2. Write(d, a, x).memory = Write(c, a, x).memory
  BY <1>1, SMT DEF Write, IsProcessor
<1>3. ASSUME NEW e, IsProcessor(e)
      PROVE  LET w == Write(e, a, x) IN
             IsProcessor(w) /\ w.word = e.word /\ w.pc = e.pc /\ w.table = e.table /\ Rest(w) = Rest(e)
  BY <1>3, WriteKeeps, RestKept
<1> QED
  BY <1>1, <1>2, <1>3 DEF Mirrors

LEMMA MirrorsWriteWord ==
  ASSUME NEW c, NEW d, NEW u \in Exchanged, NEW v \in Exchanged, Mirrors(c, d, u, v),
         NEW a \in Int, NEW x \in Int
  PROVE  Mirrors(WriteWord(c, a, x), WriteWord(d, a, x), u, v)
<1>1. x \div 256 \in Int /\ a + 1 \in Int
  OBVIOUS
<1>2. Mirrors(Write(c, a, x), Write(d, a, x), u, v)
  BY MirrorsWrite
<1> QED
  BY <1>1, <1>2, MirrorsWrite DEF WriteWord

LEMMA MirrorsSetWord ==
  ASSUME NEW c, NEW d, NEW u \in Exchanged, NEW v \in Exchanged, Mirrors(c, d, u, v),
         NEW w \in Words, NEW x \in Int
  PROVE  Mirrors(SetWord(c, w, x), SetWord(d, Other(w, u, v), x), u, v)
<1> DEFINE o == Other(w, u, v)
<1>1. IsProcessor(c) /\ IsProcessor(d)
  BY DEF Mirrors
<1>2. o \in Words
  BY OtherWords
<1> HIDE DEF o
<1>3. ASSUME NEW z \in Words
      PROVE  SetWord(d, o, x).word[Other(z, u, v)] = SetWord(c, w, x).word[z]
  <2>1. Other(z, u, v) \in Words /\ (Other(z, u, v) = o <=> z = w)
    BY OtherWords DEF o
  <2>2. d.word \in [Words -> Word] /\ c.word \in [Words -> Word]
    BY <1>1, Fields
  <2>3. /\ SetWord(d, o, x).word = [d.word EXCEPT ![o] = Wrap(x)]
        /\ SetWord(c, w, x).word = [c.word EXCEPT ![w] = Wrap(x)]
    BY <1>1, <1>2, SetWordKeeps
  <2> QED
    BY <1>2, <2>1, <2>2, <2>3 DEF Mirrors
<1>4. /\ IsProcessor(SetWord(c, w, x)) /\ IsProcessor(SetWord(d, o, x))
      /\ SetWord(c, w, x).pc = c.pc /\ SetWord(c, w, x).table = c.table
      /\ SetWord(c, w, x).memory = c.memory /\ Rest(SetWord(c, w, x)) = Rest(c)
      /\ SetWord(d, o, x).pc = d.pc /\ SetWord(d, o, x).table = d.table
      /\ SetWord(d, o, x).memory = d.memory /\ Rest(SetWord(d, o, x)) = Rest(d)
  BY <1>1, <1>2, SetWordKeeps, RestKept
<1>5. Mirrors(SetWord(c, w, x), SetWord(d, o, x), u, v)
  BY <1>3, <1>4 DEF Mirrors
<1> QED
  BY <1>5 DEF o

OtherHalf(h, u, v) == Half(Other(h.word, u, v), h.high)

LEMMA OtherHalves ==
  ASSUME NEW u \in Exchanged, NEW v \in Exchanged, NEW h \in AllHalves
  PROVE  /\ OtherHalf(h, u, v) \in AllHalves
         /\ OtherHalf(h, u, v).word = Other(h.word, u, v) /\ OtherHalf(h, u, v).high = h.high
         /\ h.word \notin Exchanged => OtherHalf(h, u, v) = h
<1>1. h.word \in Words /\ h.high \in BOOLEAN /\ h = [word |-> h.word, high |-> h.high]
  BY DEF AllHalves
<1>2. Other(h.word, u, v) \in Words /\ (h.word \notin Exchanged => Other(h.word, u, v) = h.word)
  BY <1>1, OtherWords
<1> QED
  BY <1>1, <1>2 DEF OtherHalf, Half, AllHalves

LEMMA FixedHalves ==
  ASSUME NEW u \in Exchanged, NEW v \in Exchanged
  PROVE  /\ OtherHalf(RegA, u, v) = RegA /\ OtherHalf(RegB, u, v) = RegB
         /\ OtherHalf(Half("AF", FALSE), u, v) = Half("AF", FALSE)
<1> DEFINE F == Half("AF", FALSE)
<1>1. "AF" \notin Exchanged /\ "BC" \notin Exchanged
  BY DEF Exchanged
<1>2. RegA.word = "AF" /\ RegB.word = "BC" /\ F.word = "AF"
  BY DEF RegA, RegB, Half
<1>3. RegA \in AllHalves /\ RegB \in AllHalves /\ F \in AllHalves
  BY NamedHalves
<1>4. ASSUME NEW h \in AllHalves, h.word \notin Exchanged PROVE OtherHalf(h, u, v) = h
  BY <1>4, OtherHalves
<1> HIDE DEF F
<1>5. OtherHalf(RegA, u, v) = RegA /\ OtherHalf(RegB, u, v) = RegB /\ OtherHalf(F, u, v) = F
  BY <1>1, <1>2, <1>3, <1>4
<1> QED
  BY <1>5 DEF F

LEMMA MirrorsGet ==
  ASSUME NEW c, NEW d, NEW u \in Exchanged, NEW v \in Exchanged, Mirrors(c, d, u, v),
         NEW h \in AllHalves
  PROVE  Get(d, OtherHalf(h, u, v)) = Get(c, h)
<1>1. h.word \in Words
  BY DEF AllHalves
<1>2. d.word[Other(h.word, u, v)] = c.word[h.word]
  BY <1>1 DEF Mirrors
<1> QED
  BY <1>2, OtherHalves DEF Get

LEMMA MirrorsSet ==
  ASSUME NEW c, NEW d, NEW u \in Exchanged, NEW v \in Exchanged, Mirrors(c, d, u, v),
         NEW h \in AllHalves, NEW x \in Int
  PROVE  Mirrors(Set(c, h, x), Set(d, OtherHalf(h, u, v), x), u, v)
<1> DEFINE o == OtherHalf(h, u, v)
           n == IF h.high THEN 256 * (x % 256) + (c.word[h.word] % 256)
                ELSE 256 * (c.word[h.word] \div 256) + (x % 256)
<1>1. h.word \in Words /\ o.word = Other(h.word, u, v) /\ o.high = h.high
  BY OtherHalves DEF AllHalves
<1>2. d.word[o.word] = c.word[h.word] /\ c.word[h.word] \in Word
  BY <1>1, Fields DEF Mirrors
<1>3. n \in Int
  <2>1. /\ x % 256 \in Int /\ c.word[h.word] % 256 \in Int /\ c.word[h.word] \div 256 \in Int
    BY <1>2, Halves, ByteIsInt, RemainderIsByte
  <2> QED
    BY <2>1
<1> HIDE DEF o
<1>4. Set(c, h, x) = SetWord(c, h.word, n) /\ Set(d, o, x) = SetWord(d, o.word, n)
  BY <1>1, <1>2 DEF Set
<1> HIDE DEF n
<1>5. Mirrors(Set(c, h, x), Set(d, o, x), u, v)
  BY <1>1, <1>3, <1>4, MirrorsSetWord
<1> QED
  BY <1>5 DEF o

LEMMA MirrorsNamed ==
  ASSUME NEW c, NEW d, NEW u \in Exchanged, NEW v \in Exchanged, Mirrors(c, d, u, v), NEW x \in Int
  PROVE  /\ Get(d, RegA) = Get(c, RegA) /\ Get(d, RegB) = Get(c, RegB) /\ Flags(d) = Flags(c)
         /\ Mirrors(Set(c, RegA, x), Set(d, RegA, x), u, v)
         /\ Mirrors(Set(c, RegB, x), Set(d, RegB, x), u, v)
         /\ Mirrors(SetF(c, x), SetF(d, x), u, v)
         /\ \A k : CC(d, k) = CC(c, k)
<1>1. RegA \in AllHalves /\ RegB \in AllHalves /\ Half("AF", FALSE) \in AllHalves
  BY NamedHalves
<1>2. Get(d, RegA) = Get(c, RegA) /\ Get(d, RegB) = Get(c, RegB)
  <2>1. /\ Get(d, OtherHalf(RegA, u, v)) = Get(c, RegA)
        /\ Get(d, OtherHalf(RegB, u, v)) = Get(c, RegB)
    BY <1>1, MirrorsGet
  <2> QED
    BY <2>1, FixedHalves
<1>3. /\ Mirrors(Set(c, RegA, x), Set(d, RegA, x), u, v)
      /\ Mirrors(Set(c, RegB, x), Set(d, RegB, x), u, v)
      /\ Mirrors(Set(c, Half("AF", FALSE), x), Set(d, Half("AF", FALSE), x), u, v)
  BY <1>1, FixedHalves, MirrorsSet
<1>4. Flags(d) = Flags(c)
  <2>1. "AF" \in Words /\ "AF" \notin Exchanged
    BY DEF Words, Exchanged
  <2>2. d.word["AF"] = c.word["AF"]
    BY <2>1, OtherWords DEF Mirrors
  <2> QED
    BY <2>2 DEF Flags
<1>5. \A k : CC(d, k) = CC(c, k)
  BY <1>4 DEF CC
<1> QED
  BY <1>2, <1>3, <1>4, <1>5 DEF SetF

LEMMA OtherRegisters ==
  ASSUME NEW t \in Words, NEW u \in Exchanged, NEW v \in Exchanged, NEW k \in 0..7
  PROVE  R(Other(t, u, v), k) = OtherHalf(R(t, k), u, v)
<1> DEFINE o == Other(t, u, v)
<1>1. o \in Words /\ {"BC", "DE", "AF"} \subseteq Words /\ {"BC", "DE", "AF"} \cap Exchanged = {}
  BY OtherWords DEF Words, Exchanged
<1>2. ASSUME NEW h \in BOOLEAN, NEW w \in Words
      PROVE  OtherHalf(Half(w, h), u, v) = Half(Other(w, u, v), h)
  BY <1>2 DEF OtherHalf, Half
<1>3. \A w \in {"BC", "DE", "AF"} : Other(w, u, v) = w
  BY <1>1, OtherWords
<1> HIDE DEF o
<1>4. /\ R(t, 0) = Half("BC", TRUE) /\ R(t, 1) = Half("BC", FALSE)
      /\ R(t, 2) = Half("DE", TRUE) /\ R(t, 3) = Half("DE", FALSE)
      /\ R(t, 4) = Half(t, TRUE) /\ R(t, 5) = Half(t, FALSE)
      /\ R(t, 6) = Half(t, FALSE) /\ R(t, 7) = Half("AF", TRUE)
  BY DEF R, RegA
<1>5. /\ R(o, 0) = Half("BC", TRUE) /\ R(o, 1) = Half("BC", FALSE)
      /\ R(o, 2) = Half("DE", TRUE) /\ R(o, 3) = Half("DE", FALSE)
      /\ R(o, 4) = Half(o, TRUE) /\ R(o, 5) = Half(o, FALSE)
      /\ R(o, 6) = Half(o, FALSE) /\ R(o, 7) = Half("AF", TRUE)
  BY DEF R, RegA
<1>6. /\ OtherHalf(Half("BC", TRUE), u, v) = Half("BC", TRUE)
      /\ OtherHalf(Half("BC", FALSE), u, v) = Half("BC", FALSE)
      /\ OtherHalf(Half("DE", TRUE), u, v) = Half("DE", TRUE)
      /\ OtherHalf(Half("DE", FALSE), u, v) = Half("DE", FALSE)
      /\ OtherHalf(Half("AF", TRUE), u, v) = Half("AF", TRUE)
      /\ OtherHalf(Half(t, TRUE), u, v) = Half(o, TRUE)
      /\ OtherHalf(Half(t, FALSE), u, v) = Half(o, FALSE)
  BY <1>1, <1>2, <1>3 DEF o
<1>7. k = 0 \/ k = 1 \/ k = 2 \/ k = 3 \/ k = 4 \/ k = 5 \/ k = 6 \/ k = 7
  OBVIOUS
<1>8. R(o, k) = OtherHalf(R(t, k), u, v)
  BY <1>4, <1>5, <1>6, <1>7, Zenon
<1> QED
  BY <1>8 DEF o

LEMMA OtherTableWords ==
  ASSUME NEW t \in Words, NEW u \in Exchanged, NEW v \in Exchanged, NEW k \in 0..3
  PROVE  /\ RR(Other(t, u, v), k) = Other(RR(t, k), u, v)
         /\ SS(Other(t, u, v), k) = Other(SS(t, k), u, v)
<1>1. k = 0 \/ k = 1 \/ k = 2 \/ k = 3
  OBVIOUS
<1>2. /\ Other("BC", u, v) = "BC" /\ Other("DE", u, v) = "DE"
      /\ Other("SP", u, v) = "SP" /\ Other("AF", u, v) = "AF"
  BY OtherWords DEF Words, Exchanged
<1> QED
  BY <1>1, <1>2 DEF RR, SS

LEMMA MirrorsTables ==
  ASSUME NEW c, NEW d, NEW u \in Exchanged, NEW v \in Exchanged, Mirrors(c, d, u, v)
  PROVE  /\ c.table \in Words /\ d.table = Other(c.table, u, v) /\ d.word[d.table] = c.word[c.table]
         /\ \A k \in 0..7 : R(d.table, k) = OtherHalf(R(c.table, k), u, v)
         /\ \A k \in 0..3 : /\ RR(d.table, k) = Other(RR(c.table, k), u, v)
                            /\ SS(d.table, k) = Other(SS(c.table, k), u, v)
         /\ \A w \in Words \ Exchanged : d.word[w] = c.word[w]
<1>1. c.table \in Words /\ d.table = Other(c.table, u, v)
  BY Numbers DEF Mirrors
<1>2. \A w \in Words \ Exchanged : d.word[w] = c.word[w]
  BY OtherWords DEF Mirrors
<1>3. d.word[d.table] = c.word[c.table]
  BY <1>1 DEF Mirrors
<1> QED
  BY <1>1, <1>2, <1>3, OtherRegisters, OtherTableWords

(* The memory operand, if HL is not concerned.                             *)
LEMMA MirrorsOperand ==
  ASSUME NEW c, NEW d, NEW u \in Exchanged, NEW v \in Exchanged, Mirrors(c, d, u, v),
         c.table # "HL", u # "HL", v # "HL"
  PROVE  /\ Place(d) = Place(c) /\ Place(c) \in Int
         /\ Mirrors(PastD(c), PastD(d), u, v)
         /\ d.table # "HL" /\ \A k \in 0..7 : R("HL", k) = OtherHalf(R("HL", k), u, v)
<1>1. N(d) = N(c) /\ d.word[d.table] = c.word[c.table]
  BY MirrorsReads, MirrorsTables
<1>table. d.table # "HL"
  <2>1. d.table = Other(c.table, u, v)
    BY DEF Mirrors
  <2> QED
    BY <2>1 DEF Other
<1>registers. \A k \in 0..7 : R("HL", k) = OtherHalf(R("HL", k), u, v)
  <2>1. "HL" \in Words /\ Other("HL", u, v) = "HL"
    BY DEF Words, Other
  <2> QED
    BY <2>1, OtherRegisters
<1>2. PastD(c) = Skip(c, 1) /\ PastD(d) = Skip(d, 1)
  BY <1>table DEF PastD
<1>3. Mirrors(PastD(c), PastD(d), u, v)
  BY <1>2, MirrorsSkip
<1>4. Place(c) \in Int
  BY OperandsAreBytes DEF Mirrors
<1> QED
  BY <1>1, <1>3, <1>4, <1>table, <1>registers DEF Place

LEMMA MirrorsStack ==
  ASSUME NEW c, NEW d, NEW u \in Exchanged, NEW v \in Exchanged, Mirrors(c, d, u, v)
  PROVE  /\ \A x \in Int : Mirrors(Push(c, x), Push(d, x), u, v)
         /\ Mirrors(Popped(c), Popped(d), u, v) /\ Top(d) = Top(c) /\ Top(c) \in Int
<1>1. "SP" \in Words /\ Other("SP", u, v) = "SP" /\ d.word["SP"] = c.word["SP"]
  BY MirrorsTables, OtherWords DEF Words, Exchanged
<1>2. IsProcessor(c) /\ IsProcessor(d) /\ c.word["SP"] \in Int
  BY <1>1, Numbers DEF Mirrors
<1>3. ASSUME NEW x \in Int PROVE Mirrors(Push(c, x), Push(d, x), u, v)
  <2> DEFINE sp == c.word["SP"] - 2
             e == SetWord(c, "SP", sp)
             g == SetWord(d, "SP", sp)
  <2>1. sp \in Int
    BY <1>2
  <2>2. Mirrors(e, g, u, v)
    <3>1. Mirrors(e, SetWord(d, Other("SP", u, v), sp), u, v)
      BY <1>1, <2>1, MirrorsSetWord
    <3> QED
      BY <1>1, <3>1
  <2>3. Push(c, x) = WriteWord(e, e.word["SP"], x) /\ Push(d, x) = WriteWord(g, g.word["SP"], x)
    BY <1>1 DEF Push
  <2> HIDE DEF e, g
  <2>4. g.word["SP"] = e.word["SP"] /\ e.word["SP"] \in Int
    <3>1. "SP" \in Words \ Exchanged
      BY DEF Words, Exchanged
    <3>2. IsProcessor(e)
      BY <2>2 DEF Mirrors
    <3> QED
      BY <2>2, <3>1, <3>2, MirrorsTables, Numbers
  <2>5. Mirrors(WriteWord(e, e.word["SP"], x), WriteWord(g, e.word["SP"], x), u, v)
    BY <1>3, <2>2, <2>4, MirrorsWriteWord
  <2> QED
    BY <2>3, <2>4, <2>5
<1>4. Mirrors(Popped(c), Popped(d), u, v)
  <2> DEFINE sp == c.word["SP"] + 2
  <2>1. sp \in Int
    BY <1>2
  <2>2. Popped(c) = SetWord(c, "SP", sp) /\ Popped(d) = SetWord(d, "SP", sp)
    BY <1>1 DEF Popped
  <2> HIDE DEF sp
  <2>3. Mirrors(SetWord(c, "SP", sp), SetWord(d, Other("SP", u, v), sp), u, v)
    BY <1>1, <2>1, MirrorsSetWord
  <2> QED
    BY <1>1, <2>2, <2>3
<1>5. Top(d) = Top(c) /\ Top(c) \in Int
  <2>1. Top(d) = Top(c)
    BY <1>1, MirrorsReads DEF Top
  <2> QED
    BY <1>2, <2>1, PoppedKeeps
<1> QED
  BY <1>3, <1>4, <1>5

LEMMA MirrorsPrimed ==
  ASSUME NEW c, NEW d, NEW u \in Exchanged, NEW v \in Exchanged, Mirrors(c, d, u, v),
         NEW ws \in SUBSET Primed, u \notin ws, v \notin ws
  PROVE  Mirrors(ExchangePrimed(c, ws), ExchangePrimed(d, ws), u, v)
<1> DEFINE F(e) == [w \in Words |-> IF w \in ws THEN e.alternates[w] ELSE e.word[w]]
           G(e) == [w \in Primed |-> IF w \in ws THEN e.word[w] ELSE e.alternates[w]]
           X(e) == ExchangePrimed(e, ws)
<1>1. IsProcessor(c) /\ IsProcessor(d) /\ c.alternates = d.alternates
  BY RestParts DEF Mirrors
<1>2. ASSUME NEW e, IsProcessor(e)
      PROVE  /\ IsProcessor(X(e)) /\ X(e).word = F(e) /\ X(e).alternates = G(e)
             /\ X(e).pc = e.pc /\ X(e).memory = e.memory /\ X(e).table = e.table
             /\ X(e).i = e.i /\ X(e).r = e.r /\ X(e).iff1 = e.iff1 /\ X(e).iff2 = e.iff2 /\ X(e).sent = e.sent
  <2>1. X(e) = [e EXCEPT !.word = F(e), !.alternates = G(e)]
    BY DEF ExchangePrimed
  <2>2. IsProcessor(X(e))
    BY <1>2, ExchangePrimedKeeps
  <2> HIDE DEF F, G, X
  <2> QED
    BY <1>2, <2>1, <2>2, SMT DEF IsProcessor
<1>3. ASSUME NEW w \in Words PROVE F(d)[Other(w, u, v)] = F(c)[w]
  <2>1. Other(w, u, v) \in Words /\ (Other(w, u, v) \in ws <=> w \in ws) /\ (w \in ws => Other(w, u, v) = w)
    BY OtherWords DEF Other
  <2>2. d.word[Other(w, u, v)] = c.word[w]
    BY DEF Mirrors
  <2> QED
    BY <1>1, <2>1, <2>2
<1>4. G(d) = G(c)
  <2>1. ASSUME NEW w \in ws PROVE d.word[w] = c.word[w]
    <3>1. Other(w, u, v) = w /\ w \in Words
      BY DEF Other, Primed, Words
    <3> QED
      BY <3>1 DEF Mirrors
  <2> QED
    BY <1>1, <2>1
<1> HIDE DEF F, G
<1>5. IsProcessor(X(c)) /\ IsProcessor(X(d)) /\ X(c).word = F(c) /\ X(d).word = F(d)
  BY <1>1, <1>2
<1>6. X(d).table = Other(X(c).table, u, v) /\ X(d).pc = X(c).pc /\ X(d).memory = X(c).memory
  BY <1>1, <1>2 DEF Mirrors
<1>7. Rest(X(d)) = Rest(X(c))
  <2>1. /\ c.i = d.i /\ c.r = d.r /\ c.iff1 = d.iff1 /\ c.iff2 = d.iff2 /\ c.sent = d.sent
    BY RestParts DEF Mirrors
  <2>2. /\ X(c).alternates = X(d).alternates /\ X(c).i = X(d).i /\ X(c).r = X(d).r
        /\ X(c).iff1 = X(d).iff1 /\ X(c).iff2 = X(d).iff2 /\ X(c).sent = X(d).sent
    BY <1>1, <1>2, <1>4, <2>1
  <2> HIDE DEF X
  <2> QED
    BY <2>2 DEF Rest
<1> HIDE DEF X
<1>8. Mirrors(X(c), X(d), u, v)
  BY <1>3, <1>5, <1>6, <1>7 DEF Mirrors
<1> QED
  BY <1>8 DEF X

LEMMA MirrorsInput ==
  ASSUME NEW c, NEW d, NEW u \in Exchanged, NEW v \in Exchanged, Mirrors(c, d, u, v),
         NEW port \in InPorts, u # "HL", v # "HL"
  PROVE  Mirrors(Input(c, port), Input(d, port), u, v)
<1>1. "HL" \in Words /\ Other("HL", u, v) = "HL"
  BY DEF Words, Other
<1>2. CASE port = 241
  <2>1. Mirrors(Set(c, RegA, 0), Set(d, RegA, 0), u, v)
    BY MirrorsNamed
  <2>2. Ticks \in Int
    BY TransferAssumption, WordIsInt
  <2>3. Mirrors(SetWord(Set(c, RegA, 0), "HL", Ticks), SetWord(Set(d, RegA, 0), Other("HL", u, v), Ticks), u, v)
    BY <1>1, <2>1, <2>2, MirrorsSetWord
  <2> QED
    BY <1>1, <1>2, <2>3 DEF Input
<1>3. CASE port # 241
  <2>1. Answer[port] \in Int
    BY <1>3, TransferAssumption, ByteIsInt
  <2>2. Mirrors(Set(c, RegA, Answer[port]), Set(d, RegA, Answer[port]), u, v)
    BY <2>1, MirrorsNamed
  <2> QED
    BY <1>3, <2>2 DEF Input
<1> QED
  BY <1>2, <1>3

LEMMA MirrorsOutput ==
  ASSUME NEW c, NEW d, NEW u \in Exchanged, NEW v \in Exchanged, Mirrors(c, d, u, v),
         NEW port, NEW x \in Byte
  PROVE  Mirrors(Output(c, port, x), Output(d, port, x), u, v)
<1>1. ASSUME NEW e, NEW g, Mirrors(e, g, u, v), NEW b \in Byte
      PROVE  Mirrors([e EXCEPT !.sent = b], [g EXCEPT !.sent = b], u, v)
  <2>1. ASSUME NEW h, IsProcessor(h)
        PROVE  LET s == [h EXCEPT !.sent = b] IN
               /\ IsProcessor(s) /\ s.word = h.word /\ s.pc = h.pc /\ s.memory = h.memory /\ s.table = h.table
               /\ s.alternates = h.alternates /\ s.i = h.i /\ s.r = h.r
               /\ s.iff1 = h.iff1 /\ s.iff2 = h.iff2 /\ s.sent = b
    BY <1>1, <2>1, SMT DEF IsProcessor
  <2> DEFINE s == [e EXCEPT !.sent = b]
             t == [g EXCEPT !.sent = b]
  <2>2. IsProcessor(e) /\ IsProcessor(g)
    BY <1>1 DEF Mirrors
  <2>3. /\ IsProcessor(s) /\ s.word = e.word /\ s.pc = e.pc /\ s.memory = e.memory /\ s.table = e.table
        /\ s.alternates = e.alternates /\ s.i = e.i /\ s.r = e.r
        /\ s.iff1 = e.iff1 /\ s.iff2 = e.iff2 /\ s.sent = b
    BY <2>1, <2>2
  <2>4. /\ IsProcessor(t) /\ t.word = g.word /\ t.pc = g.pc /\ t.memory = g.memory /\ t.table = g.table
        /\ t.alternates = g.alternates /\ t.i = g.i /\ t.r = g.r
        /\ t.iff1 = g.iff1 /\ t.iff2 = g.iff2 /\ t.sent = b
    BY <2>1, <2>2
  <2> HIDE DEF s, t
  <2>5. /\ e.alternates = g.alternates /\ e.i = g.i /\ e.r = g.r
        /\ e.iff1 = g.iff1 /\ e.iff2 = g.iff2
    BY <1>1, RestParts DEF Mirrors
  <2>6. Rest(t) = Rest(s)
    BY <2>3, <2>4, <2>5 DEF Rest
  <2>7. Mirrors(s, t, u, v)
    BY <1>1, <2>3, <2>4, <2>6 DEF Mirrors
  <2> QED
    BY <2>7 DEF s, t
<1>2. CASE port = 240
  <2>1. Served \in Int
    BY TransferAssumption, ByteIsInt
  <2>2. Mirrors(Set(c, RegA, Served), Set(d, RegA, Served), u, v)
    BY <2>1, MirrorsNamed
  <2> QED
    BY <1>1, <1>2, <2>2 DEF Output
<1>3. CASE port # 240
  <2>1. Get(c, RegA) \in Byte /\ Get(d, RegA) = Get(c, RegA)
    <3>1. IsProcessor(c) /\ 0 \in Int
      BY DEF Mirrors
    <3> QED
      BY <3>1, MirrorsNamed, NamedHalves, GetIsByte
  <2> QED
    BY <1>1, <1>3, <2>1 DEF Output
<1> QED
  BY <1>2, <1>3

LEMMA MirrorsControl ==
  ASSUME NEW c, NEW d, NEW u \in Exchanged, NEW v \in Exchanged, Mirrors(c, d, u, v), NEW taken
  PROVE  /\ Mirrors(Relative(c, taken), Relative(d, taken), u, v)
         /\ Mirrors(Absolute(c, taken), Absolute(d, taken), u, v)
         /\ Mirrors(Call(c, taken), Call(d, taken), u, v)
         /\ Mirrors(Return(c, taken), Return(d, taken), u, v)
<1>1. /\ IsProcessor(c) /\ d.pc = c.pc /\ c.pc \in Int /\ N(d) = N(c) /\ NN(d) = NN(c)
      /\ NN(c) \in Int /\ Signed(N(c)) \in Int
  <2>1. IsProcessor(c) /\ d.pc = c.pc
    BY DEF Mirrors
  <2>2. c.pc \in Int /\ NN(c) \in Int /\ Signed(N(c)) \in Int
    BY <2>1, Numbers, OperandsAreBytes
  <2>3. N(d) = N(c) /\ NN(d) = NN(c)
    BY MirrorsReads
  <2> QED
    BY <2>1, <2>2, <2>3
<1>2. c.pc + 2 \in Int /\ c.pc + Signed(N(c)) + 1 \in Int
  BY <1>1
<1>3. Mirrors(Skip(c, 1), Skip(d, 1), u, v) /\ Mirrors(Skip(c, 2), Skip(d, 2), u, v)
  BY MirrorsSkip
<1>4. Mirrors(Relative(c, taken), Relative(d, taken), u, v)
  <2>1. Mirrors(Jump(c, c.pc + Signed(N(c)) + 1), Jump(d, c.pc + Signed(N(c)) + 1), u, v)
    BY <1>2, MirrorsJump
  <2> QED
    BY <1>1, <1>3, <2>1 DEF Relative
<1>5. Mirrors(Absolute(c, taken), Absolute(d, taken), u, v)
  <2>1. Mirrors(Jump(c, NN(c)), Jump(d, NN(c)), u, v)
    BY <1>1, MirrorsJump
  <2> QED
    BY <1>1, <1>3, <2>1 DEF Absolute
<1>6. Mirrors(Call(c, taken), Call(d, taken), u, v)
  <2>1. Mirrors(Push(Skip(c, 2), c.pc + 2), Push(Skip(d, 2), c.pc + 2), u, v)
    BY <1>2, <1>3, MirrorsStack
  <2>2. Mirrors(Jump(Push(Skip(c, 2), c.pc + 2), NN(c)), Jump(Push(Skip(d, 2), c.pc + 2), NN(c)), u, v)
    BY <1>1, <2>1, MirrorsJump
  <2> QED
    BY <1>1, <1>3, <2>2 DEF Call
<1>7. Mirrors(Return(c, taken), Return(d, taken), u, v)
  <2>1. Mirrors(Popped(c), Popped(d), u, v) /\ Top(d) = Top(c) /\ Top(c) \in Int
    BY MirrorsStack
  <2>2. Mirrors(Jump(Popped(c), Top(c)), Jump(Popped(d), Top(c)), u, v)
    BY <2>1, MirrorsJump
  <2> QED
    BY <2>1, <2>2 DEF Return
<1> QED
  BY <1>4, <1>5, <1>6, <1>7

LEMMA MirrorsLoad8 ==
  ASSUME NEW c, NEW d, NEW u \in Exchanged, NEW v \in Exchanged, Mirrors(c, d, u, v),
         NEW op \in Opcode, NEW n \in Load8Instructions,
         n[1] = "LD_INDIRECT_HL" \/ n[2] = "INDIRECT_HL" => c.table # "HL" /\ u # "HL" /\ v # "HL"
  PROVE  Mirrors(Load8(c, n, op), Load8(d, n, op), u, v)
<1> DEFINE t == c.table
           o == d.table
           y == Y(op)
           z == Z(op)
<1>1. /\ IsProcessor(c) /\ IsProcessor(d) /\ t \in Words /\ y \in 0..7 /\ z \in 0..7
      /\ R(o, y) = OtherHalf(R(t, y), u, v) /\ R(o, z) = OtherHalf(R(t, z), u, v)
      /\ R(t, y) \in AllHalves /\ R(t, z) \in AllHalves
  BY Parts, MirrorsTables, TableHalves DEF Mirrors
<1>2. /\ N(d) = N(c) /\ N(c) \in Int /\ NN(d) = NN(c) /\ NN(c) \in Int
      /\ c.word["BC"] \in Int /\ c.word["DE"] \in Int
  BY <1>1, MirrorsReads, OperandsAreBytes, Numbers DEF Words
<1>3. d.word["BC"] = c.word["BC"] /\ d.word["DE"] = c.word["DE"]
  BY MirrorsTables DEF Words, Exchanged
<1>4. \A a \in Int : Read(d, a) = Read(c, a) /\ Read(c, a) \in Int
  BY <1>1, MirrorsReads, ReadIsInt
<1>5. Get(d, RegA) = Get(c, RegA) /\ Get(c, RegA) \in Int
  <2>1. 0 \in Int
    OBVIOUS
  <2> QED
    BY <1>1, <2>1, MirrorsNamed, NamedHalves, GetIsByte
<1>6. Mirrors(Skip(c, 1), Skip(d, 1), u, v) /\ Mirrors(Skip(c, 2), Skip(d, 2), u, v)
  BY MirrorsSkip
<1>7. CASE n = <<"LD_R", "R">>
  <2>1. Get(c, R(t, z)) \in Int /\ Get(d, R(o, z)) = Get(c, R(t, z))
    BY <1>1, GetIsByte, MirrorsGet
  <2>2. Mirrors(Set(c, R(t, y), Get(c, R(t, z))), Set(d, R(o, y), Get(c, R(t, z))), u, v)
    BY <1>1, <2>1, MirrorsSet
  <2> QED
    BY <1>7, <2>1, <2>2 DEF Load8
<1>8. CASE n = <<"LD_R", "N">>
  <2>1. Mirrors(Set(Skip(c, 1), R(t, y), N(c)), Set(Skip(d, 1), R(o, y), N(c)), u, v)
    BY <1>1, <1>2, <1>6, MirrorsSet
  <2> QED
    BY <1>2, <1>8, <2>1 DEF Load8
<1>operand. ASSUME n[1] = "LD_INDIRECT_HL" \/ n[2] = "INDIRECT_HL"
            PROVE  /\ Place(d) = Place(c) /\ Place(c) \in Int
                   /\ Mirrors(PastD(c), PastD(d), u, v)
                   /\ \A k \in 0..7 : R("HL", k) = OtherHalf(R("HL", k), u, v) /\ R("HL", k) \in AllHalves
  <2>1. "HL" \in Words
    BY DEF Words
  <2>2. c.table # "HL" /\ u # "HL" /\ v # "HL"
    BY <1>operand
  <2>3. /\ Place(d) = Place(c) /\ Place(c) \in Int /\ Mirrors(PastD(c), PastD(d), u, v)
        /\ \A k \in 0..7 : R("HL", k) = OtherHalf(R("HL", k), u, v)
    BY <2>2, MirrorsOperand
  <2>4. \A k \in 0..7 : R("HL", k) \in AllHalves
    BY <2>1, TableHalves
  <2> QED
    BY <2>3, <2>4
<1>9. CASE n = <<"LD_R", "INDIRECT_HL">>
  <2>1. /\ Place(d) = Place(c) /\ Place(c) \in Int /\ Mirrors(PastD(c), PastD(d), u, v)
        /\ R("HL", y) = OtherHalf(R("HL", y), u, v) /\ R("HL", y) \in AllHalves
    BY <1>1, <1>9, <1>operand
  <2>2. Read(d, Place(c)) = Read(c, Place(c)) /\ Read(c, Place(c)) \in Int
    BY <1>4, <2>1
  <2>3. Mirrors(Set(PastD(c), R("HL", y), Read(c, Place(c))),
                Set(PastD(d), OtherHalf(R("HL", y), u, v), Read(c, Place(c))), u, v)
    BY <2>1, <2>2, MirrorsSet
  <2> QED
    BY <1>9, <2>1, <2>2, <2>3 DEF Load8
<1>10. CASE n = <<"LD_INDIRECT_HL", "R">>
  <2>1. /\ Place(d) = Place(c) /\ Place(c) \in Int /\ Mirrors(PastD(c), PastD(d), u, v)
        /\ R("HL", z) = OtherHalf(R("HL", z), u, v) /\ R("HL", z) \in AllHalves
    BY <1>1, <1>10, <1>operand
  <2>2. Get(d, R("HL", z)) = Get(c, R("HL", z)) /\ Get(c, R("HL", z)) \in Int
    <3>1. Get(d, OtherHalf(R("HL", z), u, v)) = Get(c, R("HL", z))
      BY <2>1, MirrorsGet
    <3> QED
      BY <1>1, <2>1, <3>1, GetIsByte
  <2>3. Mirrors(Write(PastD(c), Place(c), Get(c, R("HL", z))), Write(PastD(d), Place(c), Get(c, R("HL", z))), u, v)
    BY <2>1, <2>2, MirrorsWrite
  <2> QED
    BY <1>10, <2>1, <2>2, <2>3 DEF Load8
<1>11. CASE n = <<"LD_INDIRECT_HL", "N">>
  <2>1. /\ Place(d) = Place(c) /\ Place(c) \in Int /\ Mirrors(PastD(c), PastD(d), u, v)
    BY <1>11, <1>operand
  <2>2. Mirrors(Skip(PastD(c), 1), Skip(PastD(d), 1), u, v) /\ N(PastD(d)) = N(PastD(c)) /\ N(PastD(c)) \in Int
    <3>1. IsProcessor(PastD(c))
      BY <2>1 DEF Mirrors
    <3> QED
      BY <2>1, <3>1, MirrorsSkip, MirrorsReads, OperandsAreBytes
  <2>3. Mirrors(Write(Skip(PastD(c), 1), Place(c), N(PastD(c))), Write(Skip(PastD(d), 1), Place(c), N(PastD(c))), u, v)
    BY <2>1, <2>2, MirrorsWrite
  <2> QED
    BY <1>11, <2>1, <2>2, <2>3 DEF Load8
<1>12. CASE n = Whole("LD_A_INDIRECT_BC")
  <2> DEFINE x == Read(c, c.word["BC"])
  <2>1. x \in Int
    BY <1>2, <1>4
  <2>2. Load8(c, n, op) = Set(c, RegA, x) /\ Load8(d, n, op) = Set(d, RegA, x)
    BY <1>2, <1>3, <1>4, <1>12 DEF Load8, Whole
  <2> HIDE DEF x
  <2> QED
    BY <2>1, <2>2, MirrorsNamed
<1>13. CASE n = Whole("LD_A_INDIRECT_DE")
  <2> DEFINE x == Read(c, c.word["DE"])
  <2>1. x \in Int
    BY <1>2, <1>4
  <2>2. Load8(c, n, op) = Set(c, RegA, x) /\ Load8(d, n, op) = Set(d, RegA, x)
    BY <1>2, <1>3, <1>4, <1>13 DEF Load8, Whole
  <2> HIDE DEF x
  <2> QED
    BY <2>1, <2>2, MirrorsNamed
<1>14. CASE n = Whole("LD_A_INDIRECT_NN")
  <2> DEFINE x == Read(c, NN(c))
  <2>1. x \in Int
    BY <1>2, <1>4
  <2>2. Load8(c, n, op) = Set(Skip(c, 2), RegA, x) /\ Load8(d, n, op) = Set(Skip(d, 2), RegA, x)
    BY <1>2, <1>3, <1>4, <1>14 DEF Load8, Whole
  <2> HIDE DEF x
  <2> QED
    BY <1>6, <2>1, <2>2, MirrorsNamed
<1>15. CASE n = Whole("LD_INDIRECT_BC_A")
  <2>1. Load8(c, n, op) = Write(c, c.word["BC"], Get(c, RegA)) /\ Load8(d, n, op) = Write(d, c.word["BC"], Get(c, RegA))
    BY <1>3, <1>5, <1>15 DEF Load8, Whole
  <2> QED
    BY <1>2, <1>5, <2>1, MirrorsWrite
<1>16. CASE n = Whole("LD_INDIRECT_DE_A")
  <2>1. Load8(c, n, op) = Write(c, c.word["DE"], Get(c, RegA)) /\ Load8(d, n, op) = Write(d, c.word["DE"], Get(c, RegA))
    BY <1>3, <1>5, <1>16 DEF Load8, Whole
  <2> QED
    BY <1>2, <1>5, <2>1, MirrorsWrite
<1>17. CASE n = Whole("LD_INDIRECT_NN_A")
  <2>1. /\ Load8(c, n, op) = Write(Skip(c, 2), NN(c), Get(c, RegA))
        /\ Load8(d, n, op) = Write(Skip(d, 2), NN(c), Get(c, RegA))
    BY <1>2, <1>5, <1>17 DEF Load8, Whole
  <2> QED
    BY <1>2, <1>5, <1>6, <2>1, MirrorsWrite
<1> QED
  BY <1>7, <1>8, <1>9, <1>10, <1>11, <1>12, <1>13, <1>14, <1>15, <1>16, <1>17 DEF Load8Instructions, Load8Names

LEMMA MirrorsLoad16 ==
  ASSUME NEW c, NEW d, NEW u \in Exchanged, NEW v \in Exchanged, Mirrors(c, d, u, v),
         NEW op \in Opcode, NEW n \in {Whole(name) : name \in Load16Names}
  PROVE  Mirrors(Load16(c, n, op), Load16(d, n, op), u, v)
<1> DEFINE t == c.table
           o == d.table
           k == P(op)
           rr == RR(t, k)
           ss == SS(t, k)
           x == NN(c)
           y == ReadWord(c, x)
           e == Skip(c, 2)
           g == Skip(d, 2)
<1>1. /\ IsProcessor(c) /\ IsProcessor(d) /\ t \in Words /\ k \in 0..3
      /\ o = Other(t, u, v) /\ RR(o, k) = Other(rr, u, v) /\ SS(o, k) = Other(ss, u, v)
      /\ rr \in Words /\ ss \in Words /\ d.word[o] = c.word[t]
  BY Parts, MirrorsTables, TableWords DEF Mirrors
<1>2. x \in Int /\ y \in Int /\ NN(d) = x /\ ReadWord(d, x) = y
  <2>1. x \in Int
    BY <1>1, OperandsAreBytes
  <2> QED
    BY <1>1, <2>1, MirrorsReads, ReadWordIsWord, WordIsInt
<1>3. d.word[Other(rr, u, v)] = c.word[rr] /\ d.word[Other(ss, u, v)] = c.word[ss]
  BY <1>1 DEF Mirrors
<1>4. c.word[t] \in Int /\ c.word[rr] \in Int /\ c.word[ss] \in Int
  BY <1>1, Numbers
<1>5. Mirrors(e, g, u, v)
  BY MirrorsSkip
<1>6. CASE n = Whole("LD_RR_NN")
  <2>1. Load16(c, n, op) = SetWord(e, rr, x) /\ Load16(d, n, op) = SetWord(g, Other(rr, u, v), x)
    BY <1>1, <1>2, <1>6 DEF Load16, Whole
  <2> HIDE DEF e, g, x, rr
  <2> QED
    BY <1>1, <1>2, <1>5, <2>1, MirrorsSetWord
<1>7. CASE n = Whole("LD_HL_INDIRECT_NN")
  <2>1. Load16(c, n, op) = SetWord(e, t, y) /\ Load16(d, n, op) = SetWord(g, Other(t, u, v), y)
    BY <1>1, <1>2, <1>7 DEF Load16, Whole
  <2> HIDE DEF e, g, y, t
  <2> QED
    BY <1>1, <1>2, <1>5, <2>1, MirrorsSetWord
<1>8. CASE n = Whole("LD_RR_INDIRECT_NN")
  <2>1. Load16(c, n, op) = SetWord(e, rr, y) /\ Load16(d, n, op) = SetWord(g, Other(rr, u, v), y)
    BY <1>1, <1>2, <1>8 DEF Load16, Whole
  <2> HIDE DEF e, g, y, rr
  <2> QED
    BY <1>1, <1>2, <1>5, <2>1, MirrorsSetWord
<1>9. CASE n = Whole("LD_INDIRECT_NN_HL")
  <2>1. Load16(c, n, op) = WriteWord(e, x, c.word[t]) /\ Load16(d, n, op) = WriteWord(g, x, c.word[t])
    BY <1>1, <1>2, <1>9 DEF Load16, Whole
  <2> HIDE DEF e, g, x, t
  <2> QED
    BY <1>2, <1>4, <1>5, <2>1, MirrorsWriteWord
<1>10. CASE n = Whole("LD_INDIRECT_NN_RR")
  <2>1. Load16(c, n, op) = WriteWord(e, x, c.word[rr]) /\ Load16(d, n, op) = WriteWord(g, x, c.word[rr])
    BY <1>1, <1>2, <1>3, <1>10 DEF Load16, Whole
  <2> HIDE DEF e, g, x, rr
  <2> QED
    BY <1>2, <1>4, <1>5, <2>1, MirrorsWriteWord
<1>11. CASE n = Whole("LD_SP_HL")
  <2>1. Load16(c, n, op) = SetWord(c, "SP", c.word[t]) /\ Load16(d, n, op) = SetWord(d, "SP", c.word[t])
    BY <1>1, <1>11 DEF Load16, Whole
  <2>2. "SP" \in Words /\ Other("SP", u, v) = "SP"
    BY OtherWords DEF Words, Exchanged
  <2>3. Mirrors(SetWord(c, "SP", c.word[t]), SetWord(d, Other("SP", u, v), c.word[t]), u, v)
    BY <1>4, <2>2, MirrorsSetWord
  <2> QED
    BY <2>1, <2>2, <2>3
<1>12. CASE n = Whole("PUSH_SS")
  <2>1. Load16(c, n, op) = Push(c, c.word[ss]) /\ Load16(d, n, op) = Push(d, c.word[ss])
    BY <1>1, <1>3, <1>12 DEF Load16, Whole
  <2> QED
    BY <1>4, <2>1, MirrorsStack
<1>13. CASE n = Whole("POP_SS")
  <2> DEFINE w == Top(c)
  <2>1. Top(d) = w /\ w \in Int
    BY MirrorsStack
  <2>2. /\ Load16(c, n, op) = Popped(SetWord(c, ss, w))
        /\ Load16(d, n, op) = Popped(SetWord(d, Other(ss, u, v), w))
    BY <1>1, <1>13, <2>1 DEF Load16, Whole
  <2> HIDE DEF w, ss
  <2>3. Mirrors(SetWord(c, ss, w), SetWord(d, Other(ss, u, v), w), u, v)
    BY <1>1, <2>1, MirrorsSetWord
  <2> QED
    BY <2>2, <2>3, MirrorsStack
<1> QED
  BY <1>6, <1>7, <1>8, <1>9, <1>10, <1>11, <1>12, <1>13 DEF Load16Names

LEMMA MirrorsExchange ==
  ASSUME NEW c, NEW d, NEW u \in Exchanged, NEW v \in Exchanged, Mirrors(c, d, u, v),
         NEW op \in Opcode, NEW n \in {Whole(name) : name \in ExchangeNames},
         n[1] \in {"EX_DE_HL", "EXX"} => u # "HL" /\ v # "HL"
  PROVE  Mirrors(Exchange(c, n, op), Exchange(d, n, op), u, v)
<1>1. IsProcessor(c) /\ IsProcessor(d)
  BY DEF Mirrors
<1>2. {"AF"} \in SUBSET Primed /\ {"BC", "DE", "HL"} \in SUBSET Primed /\ {"DE", "HL", "SP"} \subseteq Words
  BY DEF Primed, Words
<1>3. CASE n = Whole("EX_DE_HL")
  <2> DEFINE x == c.word["HL"]
             y == c.word["DE"]
             e == SetWord(c, "DE", x)
             g == SetWord(d, "DE", x)
  <2>1. u # "HL" /\ v # "HL"
    BY <1>3, WholeParts
  <2>2. Other("DE", u, v) = "DE" /\ Other("HL", u, v) = "HL"
    BY <2>1 DEF Other, Exchanged
  <2>3. x \in Int /\ y \in Int /\ d.word["HL"] = x /\ d.word["DE"] = y
    <3>1. d.word[Other("HL", u, v)] = c.word["HL"] /\ d.word[Other("DE", u, v)] = c.word["DE"]
      BY <1>2 DEF Mirrors
    <3> QED
      BY <1>1, <1>2, <2>2, <3>1, Numbers
  <2>4. Mirrors(e, g, u, v)
    <3>1. Mirrors(e, SetWord(d, Other("DE", u, v), x), u, v)
      BY <1>2, <2>3, MirrorsSetWord
    <3> QED
      BY <2>2, <3>1
  <2>5. Exchange(c, n, op) = SetWord(e, "HL", y) /\ Exchange(d, n, op) = SetWord(g, "HL", y)
    BY <1>3, <2>3 DEF Exchange, Whole
  <2> HIDE DEF e, g
  <2>6. Mirrors(SetWord(e, "HL", y), SetWord(g, Other("HL", u, v), y), u, v)
    BY <1>2, <2>3, <2>4, MirrorsSetWord
  <2> QED
    BY <2>2, <2>5, <2>6
<1>4. CASE n = Whole("EX_AF_AF_PRIME")
  <2>1. Exchange(c, n, op) = ExchangePrimed(c, {"AF"}) /\ Exchange(d, n, op) = ExchangePrimed(d, {"AF"})
    BY <1>4 DEF Exchange, Whole
  <2>2. u \notin {"AF"} /\ v \notin {"AF"}
    BY DEF Exchanged
  <2> QED
    BY <1>2, <2>1, <2>2, MirrorsPrimed
<1>5. CASE n = Whole("EXX")
  <2>1. /\ Exchange(c, n, op) = ExchangePrimed(c, {"BC", "DE", "HL"})
        /\ Exchange(d, n, op) = ExchangePrimed(d, {"BC", "DE", "HL"})
    BY <1>5 DEF Exchange, Whole
  <2>2. u # "HL" /\ v # "HL"
    BY <1>5, WholeParts
  <2>3. u \notin {"BC", "DE", "HL"} /\ v \notin {"BC", "DE", "HL"}
    BY <2>2 DEF Exchanged
  <2> QED
    BY <1>2, <2>1, <2>3, MirrorsPrimed
<1>6. CASE n = Whole("EX_INDIRECT_SP_HL")
  <2> DEFINE sp == c.word["SP"]
             x == c.word[c.table]
             w == Top(c)
             e == WriteWord(c, sp, x)
             g == WriteWord(d, sp, x)
  <2>1. /\ c.table \in Words /\ d.table = Other(c.table, u, v) /\ d.word[d.table] = x
        /\ d.word["SP"] = sp /\ Top(d) = w /\ w \in Int
    BY MirrorsTables, MirrorsStack DEF Words, Exchanged
  <2>2. sp \in Int /\ x \in Int
    BY <1>1, <1>2, <2>1, Numbers
  <2>3. Mirrors(e, g, u, v)
    BY <2>2, MirrorsWriteWord
  <2>4. Exchange(c, n, op) = SetWord(e, c.table, w) /\ Exchange(d, n, op) = SetWord(g, Other(c.table, u, v), w)
    BY <1>6, <2>1 DEF Exchange, Whole
  <2> HIDE DEF e, g, w
  <2> QED
    BY <2>1, <2>3, <2>4, MirrorsSetWord
<1> QED
  BY <1>3, <1>4, <1>5, <1>6 DEF ExchangeNames

LEMMA MirrorsPorts ==
  ASSUME NEW c, NEW d, NEW u \in Exchanged, NEW v \in Exchanged, Mirrors(c, d, u, v), NEW op \in Opcode
  PROVE  /\ N(c) \in InPorts /\ u # "HL" /\ v # "HL" =>
              Mirrors(Inputs(c, Whole("IN_A_N"), op), Inputs(d, Whole("IN_A_N"), op), u, v)
         /\ Mirrors(Outputs(c, Whole("OUT_N_A"), op), Outputs(d, Whole("OUT_N_A"), op), u, v)
<1> DEFINE p == N(c)
           e == Skip(c, 1)
           g == Skip(d, 1)
           x == Get(c, RegA)
<1>1. Mirrors(e, g, u, v) /\ N(d) = p
  BY MirrorsSkip, MirrorsReads
<1>2. x \in Byte /\ Get(d, RegA) = x
  <2>1. IsProcessor(c) /\ 0 \in Int
    BY DEF Mirrors
  <2> QED
    BY <2>1, MirrorsNamed, NamedHalves, GetIsByte
<1>3. Inputs(c, Whole("IN_A_N"), op) = Input(e, p) /\ Inputs(d, Whole("IN_A_N"), op) = Input(g, p)
  BY <1>1 DEF Inputs, Whole
<1>4. Outputs(c, Whole("OUT_N_A"), op) = Output(e, p, x) /\ Outputs(d, Whole("OUT_N_A"), op) = Output(g, p, x)
  BY <1>1, <1>2 DEF Outputs, Whole
<1> HIDE DEF e, g, x, p
<1>5. p \in InPorts /\ u # "HL" /\ v # "HL" => Mirrors(Input(e, p), Input(g, p), u, v)
  BY <1>1, MirrorsInput
<1>6. Mirrors(Output(e, p, x), Output(g, p, x), u, v)
  BY <1>1, <1>2, MirrorsOutput
<1> QED
  BY <1>3, <1>4, <1>5, <1>6 DEF p

LEMMA MirrorsJumps ==
  ASSUME NEW c, NEW d, NEW u \in Exchanged, NEW v \in Exchanged, Mirrors(c, d, u, v),
         NEW op \in Opcode, NEW n, n[1] \in JumpNames
  PROVE  Mirrors(Jumps(c, n, op), Jumps(d, n, op), u, v)
<1>1. IsProcessor(c) /\ IsProcessor(d)
  BY DEF Mirrors
<1>2. \A k : CC(d, k) = CC(c, k)
  <2>1. 0 \in Int
    OBVIOUS
  <2> QED
    BY <2>1, MirrorsNamed
<1>3. CASE n[1] = "JP_NN"
  BY <1>3, MirrorsControl DEF Jumps
<1>4. CASE n[1] = "JP_CC_NN"
  <2>1. Jumps(c, n, op) = Absolute(c, CC(c, Y(op))) /\ Jumps(d, n, op) = Absolute(d, CC(c, Y(op)))
    BY <1>2, <1>4 DEF Jumps
  <2> QED
    BY <2>1, MirrorsControl
<1>5. CASE n[1] = "JR_E"
  BY <1>5, MirrorsControl DEF Jumps
<1>6. CASE n[1] = "JR_DD_E"
  <2>1. Jumps(c, n, op) = Relative(c, CC(c, Q(op))) /\ Jumps(d, n, op) = Relative(d, CC(c, Q(op)))
    BY <1>2, <1>6 DEF Jumps
  <2> QED
    BY <2>1, MirrorsControl
<1>7. CASE n[1] = "JP_HL"
  <2> DEFINE a == c.word[c.table]
  <2>1. d.word[d.table] = a /\ a \in Int
    BY <1>1, MirrorsTables, Numbers
  <2>2. Jumps(c, n, op) = Jump(c, a) /\ Jumps(d, n, op) = Jump(d, a)
    BY <1>7, <2>1 DEF Jumps
  <2> HIDE DEF a
  <2> QED
    BY <2>1, <2>2, MirrorsJump
<1>8. CASE n[1] = "DJNZ_E"
  <2> DEFINE x == Get(c, RegB) - 1
             e == Set(c, RegB, x)
             g == Set(d, RegB, x)
  <2>0. RegB \in AllHalves
    BY NamedHalves
  <2>1. Get(c, RegB) \in Int
    BY <1>1, <2>0, GetIsByte
  <2>2. x \in Int
    BY <2>1
  <2> HIDE DEF x
  <2>5. Get(d, RegB) = Get(c, RegB)
    BY <2>2, MirrorsNamed
  <2>3. Mirrors(e, g, u, v)
    BY <2>2, MirrorsNamed
  <2>4. Jumps(c, n, op) = Relative(e, Get(e, RegB) # 0) /\ Jumps(d, n, op) = Relative(g, Get(g, RegB) # 0)
    BY <1>8, <2>5 DEF Jumps, x
  <2> HIDE DEF e, g
  <2>6. Get(g, RegB) = Get(e, RegB)
    BY <2>2, <2>3, MirrorsNamed
  <2> QED
    BY <2>3, <2>4, <2>6, MirrorsControl
<1> QED
  BY <1>3, <1>4, <1>5, <1>6, <1>7, <1>8 DEF JumpNames

LEMMA MirrorsCalls ==
  ASSUME NEW c, NEW d, NEW u \in Exchanged, NEW v \in Exchanged, Mirrors(c, d, u, v),
         NEW op \in Opcode, NEW n, n[1] \in CallNames \ {"RETI_RETN"}
  PROVE  Mirrors(Calls(c, n, op), Calls(d, n, op), u, v)
<1>1. IsProcessor(c) /\ d.pc = c.pc
  BY DEF Mirrors
<1>2. CC(d, Y(op)) = CC(c, Y(op))
  <2>1. 0 \in Int
    OBVIOUS
  <2> QED
    BY <2>1, MirrorsNamed
<1>3. CASE n[1] = "CALL_NN"
  BY <1>3, MirrorsControl DEF Calls
<1>4. CASE n[1] = "CALL_CC_NN"
  <2>1. Calls(c, n, op) = Call(c, CC(c, Y(op))) /\ Calls(d, n, op) = Call(d, CC(c, Y(op)))
    BY <1>2, <1>4 DEF Calls
  <2> QED
    BY <2>1, MirrorsControl
<1>5. CASE n[1] = "RET"
  BY <1>5, MirrorsControl DEF Calls
<1>6. CASE n[1] = "RET_CC"
  <2>1. Calls(c, n, op) = Return(c, CC(c, Y(op))) /\ Calls(d, n, op) = Return(d, CC(c, Y(op)))
    BY <1>2, <1>6 DEF Calls
  <2> QED
    BY <2>1, MirrorsControl
<1>7. CASE n[1] = "RST_P"
  <2> DEFINE a == 8 * Y(op)
  <2>1. a \in Int /\ c.pc \in Int
    BY <1>1, Parts, Numbers
  <2>2. Calls(c, n, op) = Jump(Push(c, c.pc), a) /\ Calls(d, n, op) = Jump(Push(d, c.pc), a)
    BY <1>1, <1>7 DEF Calls
  <2> HIDE DEF a
  <2>3. Mirrors(Push(c, c.pc), Push(d, c.pc), u, v)
    BY <2>1, MirrorsStack
  <2> QED
    BY <2>1, <2>2, <2>3, MirrorsJump
<1> QED
  BY <1>3, <1>4, <1>5, <1>6, <1>7 DEF CallNames

LEMMA MirrorsRegister ==
  ASSUME NEW c, NEW d, NEW u \in Exchanged, NEW v \in Exchanged, Mirrors(c, d, u, v), NEW k \in 0..7
  PROVE  R(d.table, k) = OtherHalf(R(c.table, k), u, v)
BY MirrorsTables

LEMMA MirrorsTestBit ==
  ASSUME NEW c, NEW d, NEW u \in Exchanged, NEW v \in Exchanged, Mirrors(c, d, u, v),
         c.table # "HL", u # "HL", v # "HL", NEW op \in Opcode, NEW n
  PROVE  Mirrors(TestBit(c, n, op), TestBit(d, n, op), u, v)
<1> DEFINE r == R(c.table, Z(op))
           b == IF n[2] = "R" THEN Get(c, r) ELSE Read(c, Place(c))
           yx == IF n[2] = "R" THEN b ELSE Place(c)
           x == Bit(b, Y(op))
           e == IF n[2] = "R" THEN c ELSE Skip(c, 2)
           g == IF n[2] = "R" THEN d ELSE Skip(d, 2)
           f == Flag(128, Y(op) = 7 /\ x = 1) + Flag(68, x = 0) + 32 * Bit(yx, 5) + 8 * Bit(yx, 3)
                  + 16 + (Flags(c) % 2)
<1>1. IsProcessor(c) /\ Place(d) = Place(c) /\ Place(c) \in Int /\ d.table # "HL"
  <2>1. IsProcessor(c)
    BY DEF Mirrors
  <2> QED
    BY <2>1, MirrorsOperand
<1>2. r \in AllHalves /\ R(d.table, Z(op)) = OtherHalf(r, u, v)
  <2>1. Z(op) \in 0..7 /\ c.table \in Words
    BY <1>1, Parts, Numbers
  <2>2. r \in AllHalves
    BY <2>1, TableHalves
  <2>3. R(d.table, Z(op)) = OtherHalf(R(c.table, Z(op)), u, v)
    BY <2>1, MirrorsRegister
  <2> QED
    BY <2>2, <2>3
<1>3. Get(d, R(d.table, Z(op))) = Get(c, r) /\ Read(d, Place(d)) = Read(c, Place(c))
  BY <1>1, <1>2, MirrorsGet, MirrorsReads
<1>4. Flags(d) = Flags(c) /\ Flags(c) % 2 \in Int
  <2>1. 0 \in Int
    OBVIOUS
  <2> QED
    BY <1>1, <2>1, MirrorsNamed, FlagsAreByte
<1>5. Get(c, r) \in Int /\ Read(c, Place(c)) \in Int
  BY <1>1, <1>2, GetIsByte, ReadIsInt
<1>6. TestBit(c, n, op) = SetF(e, f) /\ TestBit(d, n, op) = SetF(g, f)
  BY <1>1, <1>3, <1>4 DEF TestBit
<1>7. b \in Int /\ yx \in Int
  BY <1>1, <1>5
<1> HIDE DEF b, yx
<1>8. f \in Int
  <2>1. 5 \in 0..7 /\ 3 \in 0..7
    OBVIOUS
  <2>2. Bit(yx, 5) \in Int /\ Bit(yx, 3) \in Int
    BY <1>7, <2>1, BitIsBit
  <2>3. Flag(128, Y(op) = 7 /\ x = 1) \in Int /\ Flag(68, x = 0) \in Int
    BY FlagIsInt
  <2> QED
    BY <1>4, <2>2, <2>3
<1>9. Mirrors(e, g, u, v)
  <2>1. 2 \in Int
    OBVIOUS
  <2> QED
    BY <2>1, MirrorsSkip
<1> HIDE DEF e, g, f
<1> QED
  BY <1>6, <1>8, <1>9, MirrorsNamed

LEMMA MirrorsSetRes ==
  ASSUME NEW c, NEW d, NEW u \in Exchanged, NEW v \in Exchanged, Mirrors(c, d, u, v),
         c.table # "HL", u # "HL", v # "HL", NEW op \in Opcode, NEW n
  PROVE  Mirrors(SetRes(c, n, op), SetRes(d, n, op), u, v)
<1> DEFINE b == IF n[1] = "SET_B" THEN 1 ELSE 0
           r == R(c.table, Z(op))
           o == OtherHalf(r, u, v)
           x == WithBit(Get(c, r), Y(op), b)
           y == WithBit(Read(c, Place(c)), Y(op), b)
<1>1. IsProcessor(c) /\ Place(d) = Place(c) /\ Place(c) \in Int /\ d.table # "HL"
  <2>1. IsProcessor(c)
    BY DEF Mirrors
  <2> QED
    BY <2>1, MirrorsOperand
<1>2. r \in AllHalves /\ R(d.table, Z(op)) = o
  <2>1. Z(op) \in 0..7 /\ c.table \in Words
    BY <1>1, Parts, Numbers
  <2>2. r \in AllHalves
    BY <2>1, TableHalves
  <2>3. R(d.table, Z(op)) = OtherHalf(R(c.table, Z(op)), u, v)
    BY <2>1, MirrorsRegister
  <2> QED
    BY <2>2, <2>3
<1>3. Get(d, o) = Get(c, r) /\ Read(d, Place(d)) = Read(c, Place(c))
  BY <1>1, <1>2, MirrorsGet, MirrorsReads
<1>4. Get(c, r) \in Int /\ Read(c, Place(c)) \in Int
  BY <1>1, <1>2, GetIsByte, ReadIsInt
<1>5. ASSUME NEW k \in Int PROVE WithBit(k, Y(op), b) \in Int
  <2>1. b \in Int /\ Y(op) \in 0..7
    BY Parts
  <2> HIDE DEF b
  <2>2. Bit(k, Y(op)) \in Int
    BY <1>5, <2>1, BitIsBit
  <2>3. Power(Y(op)) \in Int
    BY <2>1 DEF Power
  <2>4. (b - Bit(k, Y(op))) * Power(Y(op)) \in Int
    BY <2>1, <2>2, <2>3
  <2> QED
    BY <1>5, <2>4 DEF WithBit
<1>6. x \in Int /\ y \in Int
  BY <1>4, <1>5
<1>7. CASE n[2] = "R"
  <2>1. SetRes(c, n, op) = Set(c, r, x) /\ SetRes(d, n, op) = Set(d, o, x)
    BY <1>2, <1>3, <1>7 DEF SetRes
  <2> HIDE DEF r, x
  <2> QED
    BY <1>2, <1>6, <2>1, MirrorsSet
<1>8. CASE n[2] # "R"
  <2>1. /\ SetRes(c, n, op) = Write(Skip(c, 2), Place(c), y)
        /\ SetRes(d, n, op) = Write(Skip(d, 2), Place(c), y)
    BY <1>1, <1>3, <1>8 DEF SetRes
  <2> HIDE DEF y
  <2>2. Mirrors(Skip(c, 2), Skip(d, 2), u, v)
    BY MirrorsSkip
  <2> QED
    BY <1>1, <1>6, <2>1, <2>2, MirrorsWrite
<1> QED
  BY <1>7, <1>8

LEMMA EffectOf ==
  ASSUME NEW c, NEW n, NEW op
  PROVE  /\ n[1] \in Load8Names => Effect(c, n, op) = Load8(c, n, op)
         /\ n[1] \in Load16Names => Effect(c, n, op) = Load16(c, n, op)
         /\ n[1] \in ExchangeNames => Effect(c, n, op) = Exchange(c, n, op)
         /\ n[1] \in InputNames => Effect(c, n, op) = Inputs(c, n, op)
         /\ n[1] \in OutputNames => Effect(c, n, op) = Outputs(c, n, op)
         /\ n[1] \in BitNames => Effect(c, n, op) = SetRes(c, n, op)
         /\ n[1] \in TestNames => Effect(c, n, op) = TestBit(c, n, op)
         /\ n[1] \in JumpNames => Effect(c, n, op) = Jumps(c, n, op)
         /\ n[1] \in CallNames => Effect(c, n, op) = Calls(c, n, op)
BY DEF Effect, Load8Names, LoadIRNames, Load16Names, ExchangeNames, BlockPortNames,
       InputNames, OutputNames, BitNames, TestNames, JumpNames, CallNames

Apart(c, u, v) == c.table # "HL" /\ u # "HL" /\ v # "HL"
UsesHL(f) ==
  \/ f.kind = "CB"
  \/ f.op \in UsesHLMemory
  \/ f.n[1] \in {"EX_DE_HL", "EXX", "IN_A_N"}

LEMMA PlainMirrors ==
  ASSUME NEW f, Decoded(f), f.kind = "plain", f.n[1] \in Transfers, Accepted(f),
         NEW d, NEW u \in Exchanged, NEW v \in Exchanged, Mirrors(f.cpu, d, u, v),
         UsesHL(f) => Apart(f.cpu, u, v)
  PROVE  Mirrors(Effect(f.cpu, f.n, f.op), Effect(d, f.n, f.op), u, v)
<1> DEFINE c == f.cpu
           n == f.n
           op == f.op
<1>1. IsProcessor(c) /\ op \in Opcode /\ Encoded(op, Y(op), n)
  BY DEF Decoded
<1>encoded. /\ n \in Load8Instructions \cup {Whole(name) : name \in PlainNames}
            /\ (n[1] = "LD_INDIRECT_HL" \/ n[2] = "INDIRECT_HL") <=> op \in UsesHLMemory
  BY <1>1 DEF Encoded
<1>2. n \in Load8Instructions \/ \E name \in PlainNames : n = Whole(name)
  BY <1>encoded
<1>3. CASE n \in Load8Instructions
  <2>1. n[1] \in Load8Names
    <3>1. CASE n \in {Whole(name) : name \in Load8Names \ {"LD_R", "LD_INDIRECT_HL"}}
      <4>1. PICK name \in Load8Names : n = Whole(name)
        BY <3>1
      <4>2. n[1] = name
        BY <4>1, WholeConstants
      <4> QED
        BY <4>1, <4>2
    <3>2. CASE n \notin {Whole(name) : name \in Load8Names \ {"LD_R", "LD_INDIRECT_HL"}}
      BY <1>3, <3>2 DEF Load8Instructions, Load8Names
    <3> QED
      BY <3>1, <3>2
  <2>2. Effect(c, n, op) = Load8(c, n, op) /\ Effect(d, n, op) = Load8(d, n, op)
    BY <2>1, EffectOf
  <2>3. n[1] = "LD_INDIRECT_HL" \/ n[2] = "INDIRECT_HL" => c.table # "HL" /\ u # "HL" /\ v # "HL"
    BY <1>encoded DEF UsesHL, Apart
  <2> QED
    BY <1>1, <1>3, <2>2, <2>3, MirrorsLoad8
<1>4. ASSUME NEW name \in PlainNames, n = Whole(name), n \notin Load8Instructions
      PROVE  Mirrors(Effect(c, n, op), Effect(d, n, op), u, v)
  <2>1. n[1] = name
    BY <1>4, WholeConstants
  <2>2. CASE name \in Load16Names
    <3>1. Effect(c, n, op) = Load16(c, n, op) /\ Effect(d, n, op) = Load16(d, n, op)
      BY <2>1, <2>2, EffectOf
    <3> QED
      BY <1>1, <1>4, <2>2, <3>1, MirrorsLoad16
  <2>3. CASE name \in ExchangeNames
    <3>1. Effect(c, n, op) = Exchange(c, n, op) /\ Effect(d, n, op) = Exchange(d, n, op)
      BY <2>1, <2>3, EffectOf
    <3>2. n[1] \in {"EX_DE_HL", "EXX"} => u # "HL" /\ v # "HL"
      BY DEF UsesHL, Apart
    <3> QED
      BY <1>1, <1>4, <2>3, <3>1, <3>2, MirrorsExchange
  <2>4. CASE name = "IN_A_N"
    <3>1. Effect(c, n, op) = Inputs(c, n, op) /\ Effect(d, n, op) = Inputs(d, n, op)
      BY <2>1, <2>4, EffectOf DEF InputNames
    <3>2. u # "HL" /\ v # "HL"
      BY <2>1, <2>4 DEF UsesHL, Apart
    <3>3. N(c) \in InPorts
      BY <2>1, <2>4 DEF Accepted, Port, InputNames
    <3> QED
      BY <1>1, <1>4, <2>4, <3>1, <3>2, <3>3, MirrorsPorts
  <2>5. CASE name = "OUT_N_A"
    <3>1. Effect(c, n, op) = Outputs(c, n, op) /\ Effect(d, n, op) = Outputs(d, n, op)
      BY <2>1, <2>5, EffectOf DEF OutputNames
    <3> QED
      BY <1>1, <1>4, <2>5, <3>1, MirrorsPorts
  <2>6. CASE name \in JumpNames
    <3>1. Effect(c, n, op) = Jumps(c, n, op) /\ Effect(d, n, op) = Jumps(d, n, op)
      BY <2>1, <2>6, EffectOf
    <3> QED
      BY <1>1, <2>1, <2>6, <3>1, MirrorsJumps
  <2>7. CASE name \in CallNames \ {"RETI_RETN"}
    <3>1. Effect(c, n, op) = Calls(c, n, op) /\ Effect(d, n, op) = Calls(d, n, op)
      BY <2>1, <2>7, EffectOf
    <3> QED
      BY <1>1, <2>1, <2>7, <3>1, MirrorsCalls
  <2>8. name \notin Load8Names \ {"LD_R", "LD_INDIRECT_HL"}
    BY <1>4 DEF Load8Instructions
  <2> QED
    BY <2>2, <2>3, <2>4, <2>5, <2>6, <2>7, <2>8 DEF PlainNames, Load16Names
<1> QED
  BY <1>2, <1>3, <1>4

LEMMA CbMirrors ==
  ASSUME NEW f, Decoded(f), f.kind = "CB",
         NEW d, NEW u \in Exchanged, NEW v \in Exchanged, Mirrors(f.cpu, d, u, v), Apart(f.cpu, u, v)
  PROVE  Mirrors(Effect(f.cpu, f.n, f.op), Effect(d, f.n, f.op), u, v)
<1>1. f.op \in Opcode /\ f.n[1] \in {"BIT_B", "RES_B", "SET_B"}
  BY DEF Decoded
<1>2. f.cpu.table # "HL" /\ u # "HL" /\ v # "HL"
  BY DEF Apart
<1>3. CASE f.n[1] = "BIT_B"
  <2>1. Effect(f.cpu, f.n, f.op) = TestBit(f.cpu, f.n, f.op) /\ Effect(d, f.n, f.op) = TestBit(d, f.n, f.op)
    BY <1>3, EffectOf DEF TestNames
  <2> QED
    BY <1>1, <1>2, <2>1, MirrorsTestBit
<1>4. CASE f.n[1] \in {"RES_B", "SET_B"}
  <2>1. Effect(f.cpu, f.n, f.op) = SetRes(f.cpu, f.n, f.op) /\ Effect(d, f.n, f.op) = SetRes(d, f.n, f.op)
    BY <1>4, EffectOf DEF BitNames
  <2> QED
    BY <1>1, <1>2, <2>1, MirrorsSetRes
<1> QED
  BY <1>1, <1>3, <1>4

(* The effect with the words exchanged is the effect, with them exchanged. *)
LEMMA EffectSame ==
  ASSUME NEW f, Decoded(f), f.kind \in {"plain", "CB"}, f.n[1] \in Transfers, Accepted(f),
         NEW u \in Exchanged, NEW v \in Exchanged, UsesHL(f) => Apart(f.cpu, u, v)
  PROVE  Same(f, u, v)
<1> DEFINE d == Swapped(f.cpu, u, v)
           e == Effect(f.cpu, f.n, f.op)
           g == Effect(d, f.n, f.op)
<1>1. Mirrors(f.cpu, d, u, v)
  <2>1. IsProcessor(f.cpu)
    BY DEF Decoded
  <2> QED
    BY <2>1, SwappedMirrors
<1> HIDE DEF d
<1>2. ASSUME f.kind = "plain" PROVE Mirrors(e, g, u, v)
  BY <1>1, <1>2, PlainMirrors
<1>3. ASSUME f.kind = "CB" PROVE Mirrors(e, g, u, v)
  <2>1. Apart(f.cpu, u, v)
    BY <1>3 DEF UsesHL
  <2> QED
    BY <1>1, <1>3, <2>1, CbMirrors
<1>4. Mirrors(e, g, u, v)
  BY <1>2, <1>3
<1> HIDE DEF e, g
<1>5. g = Swapped(e, u, v)
  BY <1>4, MirrorsSwapped
<1> QED
  BY <1>5 DEF Same, d, e, g

(* The memory operand: what is done at IX + d is what is done at (HL).     *)
LEMMA MemoryShapes ==
  ASSUME NEW op, NEW y, NEW n, Encoded(op, y, n), op \in UsesHLMemory
  PROVE  \/ n = <<"LD_R", "INDIRECT_HL">> /\ y # 6
         \/ n = <<"LD_INDIRECT_HL", "R">> /\ Z(op) # 6
         \/ n = <<"LD_INDIRECT_HL", "N">>
<1>1. /\ n \in Load8Instructions \cup {Whole(name) : name \in PlainNames}
      /\ n[1] = "LD_INDIRECT_HL" \/ n[2] = "INDIRECT_HL"
      /\ n = <<"LD_R", "INDIRECT_HL">> => y # 6
      /\ n = <<"LD_INDIRECT_HL", "R">> => Z(op) # 6
  BY DEF Encoded, Z
<1>2. ASSUME NEW name, n = Whole(name), name # "LD_INDIRECT_HL" PROVE FALSE
  <2>1. n[1] = name /\ n[2] = ""
    BY <1>2, WholeConstants
  <2> QED
    BY <1>1, <1>2, <2>1
<1>3. "LD_INDIRECT_HL" \notin PlainNames
  BY DEF PlainNames, Load8Names, ExchangeNames, JumpNames, CallNames
<1>4. n \in {<<"LD_R", "R">>, <<"LD_R", "N">>, <<"LD_R", "INDIRECT_HL">>,
             <<"LD_INDIRECT_HL", "R">>, <<"LD_INDIRECT_HL", "N">>}
  BY <1>1, <1>2, <1>3 DEF Load8Instructions
<1>5. n # <<"LD_R", "R">> /\ n # <<"LD_R", "N">>
  BY <1>1
<1> QED
  BY <1>1, <1>4, <1>5

LEMMA RegisterWords ==
  ASSUME NEW k \in 0..7
  PROVE  /\ R("HL", k) \in AllHalves /\ R("HL", k).word \in {"BC", "DE", "HL", "AF"}
         /\ k \notin {4, 5, 6} => R("HL", k).word # "HL"
<1>1. R("HL", k) \in AllHalves
  <2>1. "HL" \in Words
    BY DEF Words
  <2> QED
    BY <2>1, TableHalves
<1>2. k = 0 \/ k = 1 \/ k = 2 \/ k = 3 \/ k = 4 \/ k = 5 \/ k = 6 \/ k = 7
  OBVIOUS
<1> QED
  BY <1>1, <1>2 DEF R, Half, RegA

LEMMA AtFields ==
  ASSUME NEW e, IsProcessor(e), NEW a \in Word
  PROVE  LET g == AtOperand(e, a) IN
         /\ IsProcessor(g) /\ g.word = [e.word EXCEPT !["HL"] = a] /\ g.table = "HL"
         /\ g.pc = e.pc /\ g.memory = e.memory /\ Rest(g) = Rest(e)
<1> DEFINE m == [e.word EXCEPT !["HL"] = a]
           h == [e EXCEPT !.word = m]
<1>1. AtOperand(e, a) = [h EXCEPT !.table = "HL"]
  <2>1. AtOperand(e, a) = [e EXCEPT !.word = m, !.table = "HL"]
    BY DEF AtOperand
  <2>2. m \in [Words -> Word]
    BY Fields
  <2> HIDE DEF m
  <2>3. [e EXCEPT !.word = m, !.table = "HL"] = [h EXCEPT !.table = "HL"]
    BY SMT DEF IsProcessor
  <2> QED
    BY <2>1, <2>3
<1>2. m \in [Words -> Word]
  BY Fields
<1> HIDE DEF m
<1>3. IsProcessor(h) /\ h.word = m /\ h.pc = e.pc /\ h.memory = e.memory /\ Rest(h) = Rest(e)
  BY <1>2, SMT DEF IsProcessor, Rest
<1> HIDE DEF h
<1>4. LET g == [h EXCEPT !.table = "HL"] IN
      /\ IsProcessor(g) /\ g.word = h.word /\ g.table = "HL"
      /\ g.pc = h.pc /\ g.memory = h.memory /\ Rest(g) = Rest(h)
  BY <1>3, SMT DEF IsProcessor, Rest
<1> QED
  BY <1>1, <1>3, <1>4 DEF m

LEMMA SameParts ==
  ASSUME NEW g, IsProcessor(g), NEW h, IsProcessor(h), g.word = h.word, g.table = h.table,
         g.pc = h.pc, g.memory = h.memory, Rest(g) = Rest(h)
  PROVE  g = h
BY RestParts, SameFields

LEMMA AtReads ==
  ASSUME NEW e, IsProcessor(e), NEW a \in Word
  PROVE  /\ \A p : Read(AtOperand(e, a), p) = Read(e, p)
         /\ N(AtOperand(e, a)) = N(e)
         /\ Place(AtOperand(e, a)) = a /\ PastD(AtOperand(e, a)) = AtOperand(e, a)
         /\ \A h \in AllHalves : h.word # "HL" => Get(AtOperand(e, a), h) = Get(e, h)
<1> DEFINE g == AtOperand(e, a)
<1>1. /\ IsProcessor(g) /\ g.word = [e.word EXCEPT !["HL"] = a] /\ g.table = "HL"
      /\ g.pc = e.pc /\ g.memory = e.memory
  BY AtFields
<1>2. e.word \in [Words -> Word] /\ "HL" \in Words
  BY Fields DEF Words
<1> HIDE DEF g
<1>3. g.word["HL"] = a
  BY <1>1, <1>2
<1>4. Place(g) = a /\ PastD(g) = g
  BY <1>1, <1>3 DEF Place, PastD
<1>5. (\A p : Read(g, p) = Read(e, p)) /\ N(g) = N(e)
  BY <1>1 DEF Read, N
<1>6. ASSUME NEW h \in AllHalves, h.word # "HL" PROVE Get(g, h) = Get(e, h)
  <2>1. h.word \in Words
    BY DEF AllHalves
  <2>2. g.word[h.word] = e.word[h.word]
    BY <1>1, <1>2, <1>6, <2>1
  <2> QED
    BY <2>2 DEF Get
<1> QED
  BY <1>4, <1>5, <1>6 DEF g

LEMMA AtSkip ==
  ASSUME NEW e, IsProcessor(e), NEW a \in Word, NEW k \in Int
  PROVE  Skip(AtOperand(e, a), k) = AtOperand(Skip(e, k), a)
<1> DEFINE g == Skip(AtOperand(e, a), k)
           h == AtOperand(Skip(e, k), a)
<1>1. /\ IsProcessor(AtOperand(e, a)) /\ AtOperand(e, a).word = [e.word EXCEPT !["HL"] = a]
      /\ AtOperand(e, a).table = "HL" /\ AtOperand(e, a).pc = e.pc
      /\ AtOperand(e, a).memory = e.memory /\ Rest(AtOperand(e, a)) = Rest(e)
  BY AtFields
<1>2. /\ IsProcessor(g) /\ g.word = [e.word EXCEPT !["HL"] = a] /\ g.table = "HL"
      /\ g.pc = Wrap(e.pc + k) /\ g.memory = e.memory /\ Rest(g) = Rest(e)
  BY <1>1, SkipKeeps, RestKept
<1>3. /\ IsProcessor(Skip(e, k)) /\ Skip(e, k).word = e.word /\ Skip(e, k).pc = Wrap(e.pc + k)
      /\ Skip(e, k).memory = e.memory /\ Rest(Skip(e, k)) = Rest(e)
  BY SkipKeeps, RestKept
<1>4. /\ IsProcessor(h) /\ h.word = [e.word EXCEPT !["HL"] = a] /\ h.table = "HL"
      /\ h.pc = Wrap(e.pc + k) /\ h.memory = e.memory /\ Rest(h) = Rest(e)
  BY <1>3, AtFields
<1> HIDE DEF g, h
<1>5. g = h
  BY <1>2, <1>4, SameParts
<1> QED
  BY <1>5 DEF g, h

LEMMA AtWrite ==
  ASSUME NEW e, IsProcessor(e), NEW a \in Word, NEW p \in Int, NEW x \in Int
  PROVE  Write(AtOperand(e, a), p, x) = AtOperand(Write(e, p, x), a)
<1> DEFINE b == AtOperand(e, a)
           w == Write(e, p, x)
           g == Write(b, p, x)
           h == AtOperand(w, a)
<1>1. /\ IsProcessor(b) /\ b.word = [e.word EXCEPT !["HL"] = a]
      /\ b.table = "HL" /\ b.pc = e.pc /\ b.memory = e.memory /\ Rest(b) = Rest(e)
  BY AtFields
<1> HIDE DEF b
<1>2. g.memory = w.memory
  BY <1>1, SMT DEF Write, IsProcessor
<1>3. /\ IsProcessor(g) /\ g.word = b.word /\ g.table = b.table /\ g.pc = b.pc /\ Rest(g) = Rest(b)
  BY <1>1, WriteKeeps, RestKept
<1>4. /\ IsProcessor(w) /\ w.word = e.word /\ w.pc = e.pc /\ Rest(w) = Rest(e)
  BY WriteKeeps, RestKept
<1> HIDE DEF w, g
<1>5. /\ IsProcessor(h) /\ h.word = [w.word EXCEPT !["HL"] = a] /\ h.table = "HL"
      /\ h.pc = w.pc /\ h.memory = w.memory /\ Rest(h) = Rest(w)
  BY <1>4, AtFields
<1> HIDE DEF h
<1>6. g = h
  BY <1>1, <1>2, <1>3, <1>4, <1>5, SameParts
<1> QED
  BY <1>6 DEF b, w, g, h

LEMMA AtSet ==
  ASSUME NEW e, IsProcessor(e), NEW a \in Word, NEW r \in AllHalves, r.word # "HL", NEW x \in Int
  PROVE  Set(AtOperand(e, a), r, x) = AtOperand(Set(e, r, x), a)
<1> DEFINE b == AtOperand(e, a)
           n == IF r.high THEN 256 * (x % 256) + (e.word[r.word] % 256)
                ELSE 256 * (e.word[r.word] \div 256) + (x % 256)
           w == Set(e, r, x)
           g == Set(b, r, x)
           h == AtOperand(w, a)
<1>1. /\ IsProcessor(b) /\ b.word = [e.word EXCEPT !["HL"] = a]
      /\ b.table = "HL" /\ b.pc = e.pc /\ b.memory = e.memory /\ Rest(b) = Rest(e)
  BY AtFields
<1>2. r.word \in Words /\ "HL" \in Words /\ e.word \in [Words -> Word]
  BY Fields DEF AllHalves, Words
<1>3. b.word[r.word] = e.word[r.word]
  BY <1>1, <1>2
<1> HIDE DEF b
<1>4. n \in Int
  <2>1. x % 256 \in Int /\ e.word[r.word] % 256 \in Int /\ e.word[r.word] \div 256 \in Int
    BY <1>2, Halves, ByteIsInt, RemainderIsByte
  <2> QED
    BY <2>1
<1>5. w = SetWord(e, r.word, n) /\ g = SetWord(b, r.word, n)
  BY <1>3 DEF Set
<1> HIDE DEF n, w, g
<1>set. ASSUME NEW k, IsProcessor(k), NEW z \in Words, NEW m \in Int
        PROVE  /\ IsProcessor(SetWord(k, z, m)) /\ SetWord(k, z, m).word = [k.word EXCEPT ![z] = Wrap(m)]
               /\ SetWord(k, z, m).pc = k.pc /\ SetWord(k, z, m).table = k.table
               /\ SetWord(k, z, m).memory = k.memory /\ Rest(SetWord(k, z, m)) = Rest(k)
  <2>1. Rest(SetWord(k, z, m)) = Rest(k)
    BY <1>set, RestKept
  <2> QED
    BY <1>set, <2>1, SetWordKeeps
<1>6. /\ IsProcessor(w) /\ w.word = [e.word EXCEPT ![r.word] = Wrap(n)] /\ w.pc = e.pc
      /\ w.memory = e.memory /\ Rest(w) = Rest(e)
  BY <1>2, <1>4, <1>5, <1>set
<1>7. /\ IsProcessor(g) /\ g.word = [b.word EXCEPT ![r.word] = Wrap(n)] /\ g.pc = b.pc
      /\ g.table = b.table /\ g.memory = b.memory /\ Rest(g) = Rest(b)
  BY <1>1, <1>2, <1>4, <1>5, <1>set
<1>8. /\ IsProcessor(h) /\ h.word = [w.word EXCEPT !["HL"] = a] /\ h.table = "HL"
      /\ h.pc = w.pc /\ h.memory = w.memory /\ Rest(h) = Rest(w)
  BY <1>6, AtFields
<1> HIDE DEF h
<1>9. g.word = h.word
  BY <1>1, <1>2, <1>6, <1>7, <1>8
<1>10. g = h
  BY <1>1, <1>6, <1>7, <1>8, <1>9, SameParts
<1> QED
  BY <1>10 DEF b, w, g, h

LEMMA WriteWrapped ==
  ASSUME NEW c, NEW p \in Int, NEW x
  PROVE  Write(c, Wrap(p), x) = Write(c, p, x) /\ Read(c, Wrap(p)) = Read(c, p)
<1>1. Wrap(Wrap(p)) = Wrap(p)
  BY WrapIsWord, WordWraps
<1> QED
  BY <1>1 DEF Write, Read

LEMMA MemoryOperand ==
  ASSUME NEW c, IsProcessor(c), c.table # "HL", NEW op \in Opcode,
         NEW n, Encoded(op, Y(op), n), op \in UsesHLMemory
  PROVE  /\ Effect(c, n, op).word[c.table] = c.word[c.table]
         /\ Y(op) \notin {4, 5} /\ Z(op) \notin {4, 5} =>
              Effect(AtOperand(Skip(c, 1), Wrap(Place(c))), n, op) = AtOperand(Effect(c, n, op), Wrap(Place(c)))
<1> DEFINE t == c.table
           p == Place(c)
           a == Wrap(p)
           s == Skip(c, 1)
           m == AtOperand(s, a)
<1>1. p \in Int /\ t \in {"IX", "IY"} /\ t \in Words /\ PastD(c) = s
  BY OperandsAreBytes, Fields, Numbers DEF PastD
<1>2. a \in Word
  BY <1>1, WrapIsWord
<1>3. IsProcessor(s) /\ s.word = c.word /\ s.memory = c.memory
  <2>1. 1 \in Int
    OBVIOUS
  <2> QED
    BY <2>1, SkipKeeps
<1>4. Place(m) = a /\ PastD(m) = m
  BY <1>2, <1>3, AtReads
<1>5. Read(c, p) \in Int /\ Read(m, a) = Read(c, p)
  <2>1. Read(m, a) = Read(s, a)
    BY <1>2, <1>3, AtReads
  <2>2. Read(s, a) = Read(c, a)
    BY <1>3 DEF Read
  <2> QED
    BY <1>1, <2>1, <2>2, WriteWrapped, ReadIsInt
<1>6. Y(op) \in 0..7 /\ Z(op) \in 0..7
  BY Parts
<1> HIDE DEF a, m, s, p
<1>7. CASE n = <<"LD_R", "INDIRECT_HL">> /\ Y(op) # 6
  <2> DEFINE h == R("HL", Y(op))
             x == Read(c, p)
  <2>1. n[1] = "LD_R" /\ n[1] \in Load8Names
    BY <1>7 DEF Load8Names
  <2>2. Effect(c, n, op) = Set(s, h, x) /\ Effect(m, n, op) = Set(m, h, x)
    <3>1. Effect(c, n, op) = Load8(c, n, op) /\ Effect(m, n, op) = Load8(m, n, op)
      BY <2>1, EffectOf
    <3>2. Load8(c, n, op) = Set(PastD(c), h, Read(c, Place(c)))
      BY <1>7, <2>1 DEF Load8
    <3>3. Load8(m, n, op) = Set(PastD(m), h, Read(m, Place(m)))
      BY <1>7, <2>1 DEF Load8
    <3> QED
      BY <1>1, <1>4, <1>5, <3>1, <3>2, <3>3 DEF p
  <2>3. h \in AllHalves /\ h.word \in {"BC", "DE", "HL", "AF"} /\ (Y(op) \notin {4, 5, 6} => h.word # "HL")
    BY <1>6, RegisterWords
  <2> HIDE DEF h, x
  <2>4. x \in Int
    BY <1>5 DEF x
  <2>5. Set(s, h, x).word[t] = s.word[t]
    <3>1. h.word \in Words /\ h.word # t
      BY <1>1, <2>3 DEF AllHalves
    <3> QED
      BY <1>1, <1>3, <2>3, <2>4, <3>1, SetKeeps
  <2>6. Y(op) \notin {4, 5} => Set(m, h, x) = AtOperand(Set(s, h, x), a)
    BY <1>2, <1>3, <1>7, <2>3, <2>4, AtSet DEF m
  <2> QED
    BY <1>3, <2>2, <2>5, <2>6 DEF a, m, s, p
<1>8. CASE n = <<"LD_INDIRECT_HL", "R">> /\ Z(op) # 6
  <2> DEFINE h == R("HL", Z(op))
             x == Get(c, h)
  <2>1. n[1] = "LD_INDIRECT_HL" /\ n[1] \in Load8Names
    BY <1>8 DEF Load8Names
  <2>2. Effect(c, n, op) = Write(s, p, x) /\ Effect(m, n, op) = Write(m, a, Get(m, h))
    <3>1. Effect(c, n, op) = Load8(c, n, op) /\ Effect(m, n, op) = Load8(m, n, op)
      BY <2>1, EffectOf
    <3>2. Load8(c, n, op) = Write(PastD(c), Place(c), Get(c, h))
      BY <1>8, <2>1 DEF Load8
    <3>3. Load8(m, n, op) = Write(PastD(m), Place(m), Get(m, h))
      BY <1>8, <2>1 DEF Load8
    <3> QED
      BY <1>1, <1>4, <3>1, <3>2, <3>3 DEF p
  <2>3. h \in AllHalves /\ (Z(op) \notin {4, 5, 6} => h.word # "HL")
    BY <1>6, RegisterWords
  <2> HIDE DEF h
  <2>4. x \in Int
    BY <2>3, GetIsByte
  <2>5. Write(s, p, x).word[t] = s.word[t]
    BY <1>1, <1>3, <2>4, WriteKeeps
  <2>6. ASSUME Z(op) \notin {4, 5} PROVE Write(m, a, Get(m, h)) = AtOperand(Write(s, p, x), a)
    <3>1. Get(m, h) = Get(s, h)
      BY <1>2, <1>3, <1>8, <2>3, <2>6, AtReads DEF m
    <3>2. Get(s, h) = x
      BY <1>3 DEF Get
    <3>3. Write(m, a, x) = Write(m, p, x)
      BY <1>1, WriteWrapped DEF a
    <3>4. Write(m, p, x) = AtOperand(Write(s, p, x), a)
      BY <1>1, <1>2, <1>3, <2>4, AtWrite DEF m
    <3> QED
      BY <3>1, <3>2, <3>3, <3>4
  <2> HIDE DEF x
  <2> QED
    BY <1>3, <2>2, <2>5, <2>6 DEF a, m, s, p
<1>9. CASE n = <<"LD_INDIRECT_HL", "N">>
  <2> DEFINE x == N(s)
             e == Skip(s, 1)
  <2>1. n[1] = "LD_INDIRECT_HL" /\ n[1] \in Load8Names
    BY <1>9 DEF Load8Names
  <2>2. N(m) = x
    BY <1>2, <1>3, AtReads DEF m
  <2>3. Effect(c, n, op) = Write(e, p, x) /\ Effect(m, n, op) = Write(Skip(m, 1), a, x)
    <3>1. Effect(c, n, op) = Load8(c, n, op) /\ Effect(m, n, op) = Load8(m, n, op)
      BY <2>1, EffectOf
    <3>2. Load8(c, n, op) = Write(Skip(PastD(c), 1), Place(c), N(PastD(c)))
      BY <1>9, <2>1 DEF Load8
    <3>3. Load8(m, n, op) = Write(Skip(PastD(m), 1), Place(m), N(PastD(m)))
      BY <1>9, <2>1 DEF Load8
    <3> QED
      BY <1>1, <1>4, <2>2, <3>1, <3>2, <3>3 DEF p
  <2>4. IsProcessor(e) /\ e.word = s.word /\ Skip(m, 1) = AtOperand(e, a)
    <3>1. 1 \in Int
      OBVIOUS
    <3>2. IsProcessor(e) /\ e.word = s.word
      BY <1>3, <3>1, SkipKeeps
    <3>3. Skip(m, 1) = AtOperand(e, a)
      BY <1>2, <1>3, <3>1, AtSkip DEF m
    <3> QED
      BY <3>2, <3>3
  <2>5. x \in Int
    BY <1>3, OperandsAreBytes
  <2> HIDE DEF x, e
  <2>6. Write(e, p, x).word[t] = e.word[t]
    BY <1>1, <2>4, <2>5, WriteKeeps
  <2>7. Write(Skip(m, 1), a, x) = AtOperand(Write(e, p, x), a)
    <3>1. Write(AtOperand(e, a), a, x) = Write(AtOperand(e, a), p, x)
      BY <1>1, WriteWrapped DEF a
    <3>2. Write(AtOperand(e, a), p, x) = AtOperand(Write(e, p, x), a)
      BY <1>1, <1>2, <2>4, <2>5, AtWrite
    <3> QED
      BY <2>4, <3>1, <3>2
  <2> QED
    BY <1>3, <2>3, <2>4, <2>6, <2>7 DEF a, m, s, p
<1> QED
  BY <1>7, <1>8, <1>9, MemoryShapes

LEMMA IndexInv == TransferInv => IndexReplacesHL
<1> SUFFICES ASSUME TransferInv, steps > 0, last.cpu.table # "HL"
             PROVE  LET c == last.cpu
                        t == c.table
                        a == Wrap(Place(c))
                    IN
                    /\ Same(last, "IX", "IY")
                    /\ last.kind = "plain" /\ last.op \in UsesHLMemory =>
                         /\ cpu.word[t] = c.word[t]
                         /\ Y(last.op) \notin {4, 5} /\ Z(last.op) \notin {4, 5} =>
                              Effect(AtOperand(Skip(c, 1), a), last.n, last.op)
                                = AtOperand(Effect(c, last.n, last.op), a)
                    /\ last.kind = "plain" /\ last.op \notin UsesHLMemory
                       /\ last.n[1] \notin {"EX_DE_HL", "EXX", "IN_A_N"} => Same(last, "HL", t)
  BY DEF IndexReplacesHL
<1>1. /\ Decoded(last) /\ last.n[1] \in Transfers /\ Accepted(last)
      /\ cpu.word = Effect(last.cpu, last.n, last.op).word
  BY DEF TransferInv, LastInv
<1>2. IsProcessor(last.cpu) /\ last.op \in Opcode /\ last.kind \in {"plain", "CB"}
  BY <1>1 DEF Decoded
<1>3. last.kind = "plain" => Encoded(last.op, Y(last.op), last.n)
  BY <1>1 DEF Decoded
<1>4. last.cpu.table \in Exchanged /\ "HL" \in Exchanged /\ "IX" \in Exchanged /\ "IY" \in Exchanged
  BY <1>2, Fields DEF Exchanged
<1>5. Same(last, "IX", "IY")
  <2>1. Apart(last.cpu, "IX", "IY")
    BY DEF Apart
  <2> QED
    BY <1>1, <1>2, <1>4, <2>1, EffectSame
<1>6. ASSUME last.kind = "plain", last.op \notin UsesHLMemory,
             last.n[1] \notin {"EX_DE_HL", "EXX", "IN_A_N"}
      PROVE  Same(last, "HL", last.cpu.table)
  <2>1. ~UsesHL(last)
    BY <1>6 DEF UsesHL
  <2> QED
    BY <1>1, <1>2, <1>4, <2>1, EffectSame
<1>7. ASSUME last.kind = "plain", last.op \in UsesHLMemory
      PROVE  /\ cpu.word[last.cpu.table] = last.cpu.word[last.cpu.table]
             /\ Y(last.op) \notin {4, 5} /\ Z(last.op) \notin {4, 5} =>
                  Effect(AtOperand(Skip(last.cpu, 1), Wrap(Place(last.cpu))), last.n, last.op)
                    = AtOperand(Effect(last.cpu, last.n, last.op), Wrap(Place(last.cpu)))
  BY <1>1, <1>2, <1>3, <1>7, MemoryOperand
<1> QED
  BY <1>5, <1>6, <1>7

(* IX and IY stand for each other in every prefixed instruction, and for   *)
(* HL in every plain one but those that always use HL; at the memory       *)
(* operand IX + d happens what the plain instruction does at (HL).         *)
THEOREM IndexCorrect == Spec => []IndexReplacesHL
BY TransferInductive, IndexInv, PTL
===============================================================================
