----------------------------- MODULE BlockProofs -----------------------------
(***************************************************************************)
(* The loops of the repeating block instructions, for every width of the   *)
(* registers, every cut of the loop by the cycles of a call and every      *)
(* register content: their steps are the iterations of the reference.      *)
(***************************************************************************)
EXTENDS BlockInstructions, TLAPS

-----------------------------------------------------------------------------
(* Remainders. *)

(* Division and remainder by a positive number. *)
LEMMA Division ==
  ASSUME NEW n \in Int, NEW b \in Nat \ {0}
  PROVE  /\ n \div b \in Int
         /\ n % b \in 0..b-1
         /\ n = b * (n \div b) + (n % b)
OBVIOUS

LEMMA Distributes ==
  ASSUME NEW b \in Int, NEW u \in Int, NEW v \in Int
  PROVE  b * (u + v) = b * u + b * v
OBVIOUS

(* Remainders are unique. *)
LEMMA Remainder ==
  ASSUME NEW b \in Nat \ {0}, NEW p \in Int, NEW q \in Int, NEW y \in 0..b-1, NEW z \in 0..b-1,
         b * p + y = b * q + z
  PROVE  y = z
<1>1. ~(p >= q + 1)
  <2>1. SUFFICES ASSUME p >= q + 1 PROVE FALSE
    OBVIOUS
  <2>2. PICK k \in Nat : p = q + 1 + k
    <3>1. p - (q + 1) \in Nat
      BY <2>1
    <3> QED
      BY <3>1
  <2>3. b * p = b * q + b + b * k /\ b * k \in Nat
    BY <2>2
  <2> QED
    BY <2>3
<1>2. ~(q >= p + 1)
  <2>1. SUFFICES ASSUME q >= p + 1 PROVE FALSE
    OBVIOUS
  <2>2. PICK k \in Nat : q = p + 1 + k
    <3>1. q - (p + 1) \in Nat
      BY <2>1
    <3> QED
      BY <3>1
  <2>3. b * q = b * p + b + b * k /\ b * k \in Nat
    BY <2>2
  <2> QED
    BY <2>3
<1>3. p = q
  BY <1>1, <1>2
<1> QED
  BY <1>3

(* A step from a remainder is a step from the number. *)
LEMMA StepFromRemainder ==
  ASSUME NEW b \in Nat \ {0}, NEW n \in Int, NEW k \in Int
  PROVE  ((n % b) + k) % b = (n + k) % b
<1>1. /\ n % b \in 0..b-1 /\ n \div b \in Int /\ n = b * (n \div b) + (n % b)
  BY Division
<1> DEFINE m == (n % b) + k
<1>2. /\ m \in Int /\ m % b \in 0..b-1 /\ m \div b \in Int /\ m = b * (m \div b) + (m % b)
  BY <1>1, Division
<1>3. /\ (n + k) % b \in 0..b-1 /\ (n + k) \div b \in Int
      /\ n + k = b * ((n + k) \div b) + ((n + k) % b)
  BY Division
<1>4. n + k = b * (n \div b) + m
  BY <1>1
<1> HIDE DEF m
<1>5. PICK u \in Int, v \in Int, w \in Int :
        u = n \div b /\ v = m \div b /\ w = (n + k) \div b
  BY <1>1, <1>2, <1>3
<1>6. b * (u + v) + (m % b) = b * w + ((n + k) % b)
  <2>1. b * (u + v) = b * u + b * v
    BY Distributes
  <2> QED
    BY <1>2, <1>3, <1>4, <1>5, <2>1
<1>7. m % b = (n + k) % b
  <2>1. u + v \in Int
    BY <1>5
  <2> QED
    BY <1>2, <1>3, <1>5, <1>6, <2>1, Remainder
<1> QED
  BY <1>7 DEF m

(* The remainder by a factor is that of the remainder by the product.      *)
LEMMA CutTwice ==
  ASSUME NEW b \in Nat \ {0}, NEW k \in Int, NEW u \in Int, NEW v \in Int, NEW w \in Int,
         NEW y \in 0..b-1, NEW z \in 0..b-1,
         (b * k) * u + (b * v + y) = b * w + z
  PROVE  y = z
<1>1. PICK q \in Int : q = k * u
  OBVIOUS
<1>2. (b * k) * u = b * q
  <2>1. (b * k) * u = b * (k * u)
    OBVIOUS
  <2> QED
    BY <1>1, <2>1, Zenon
<1>3. b * (q + v) = b * q + b * v
  BY <1>1, Distributes
<1>4. q + v \in Int /\ b * q \in Int /\ b * v \in Int
  BY <1>1
<1>5. b * q + (b * v + y) = b * w + z
  BY <1>2, Zenon
<1> HIDE <1>2
<1>6. PICK m \in Int, h \in Int : m = b * q /\ h = b * v
  BY <1>4
<1>7. m + (h + y) = (m + h) + y
  BY <1>6
<1>8. b * (q + v) + y = b * w + z
  BY <1>3, <1>5, <1>6, <1>7, Zenon
<1> QED
  BY <1>4, <1>8, Remainder

(* What is cut to a word and then to a byte is cut to a byte.              *)
LEMMA WordThenByte ==
  ASSUME NEW n \in Int
  PROVE  (n % WordBase) % ByteBase = n % ByteBase
<1>1. WordBase \in Nat \ {0} /\ ByteBase \in Nat \ {0} /\ WordBase % ByteBase = 0
  BY WidthAssumption
<1>2. PICK k \in Int : WordBase = ByteBase * k
  <2>1. /\ WordBase \div ByteBase \in Int
        /\ WordBase = ByteBase * (WordBase \div ByteBase) + (WordBase % ByteBase)
    BY <1>1, Division
  <2>2. ByteBase * (WordBase \div ByteBase) \in Int
    BY <1>1, <2>1
  <2>3. WordBase = ByteBase * (WordBase \div ByteBase)
    BY <1>1, <2>1, <2>2
  <2> QED
    BY <2>1, <2>3
<1>3. PICK u \in Int, x \in Int : x = n % WordBase /\ n = WordBase * u + x
  <2>1. /\ n \div WordBase \in Int /\ n % WordBase \in Int
        /\ n = WordBase * (n \div WordBase) + (n % WordBase)
    BY <1>1, Division
  <2> QED
    BY <2>1, Zenon
<1>4. PICK v \in Int, y \in 0..ByteBase-1 : y = x % ByteBase /\ x = ByteBase * v + y
  <2>1. /\ x \div ByteBase \in Int /\ x % ByteBase \in 0..ByteBase-1
        /\ x = ByteBase * (x \div ByteBase) + (x % ByteBase)
    BY <1>1, Division
  <2> QED
    BY <2>1, Zenon
<1>5. PICK w \in Int, z \in 0..ByteBase-1 : z = n % ByteBase /\ n = ByteBase * w + z
  <2>1. /\ n \div ByteBase \in Int /\ n % ByteBase \in 0..ByteBase-1
        /\ n = ByteBase * (n \div ByteBase) + (n % ByteBase)
    BY <1>1, Division
  <2> QED
    BY <2>1, Zenon
<1>6. (ByteBase * k) * u + (ByteBase * v + y) = ByteBase * w + z
  <2>1. WordBase * u = (ByteBase * k) * u
    BY <1>2, Zenon
  <2>2. (ByteBase * k) * u + x = n
    BY <1>3, <2>1, Zenon
  <2>3. (ByteBase * k) * u + (ByteBase * v + y) = n
    BY <1>4, <2>2, Zenon
  <2> QED
    BY <1>5, <2>3, Zenon
<1>7. y = z
  <2>1. ByteBase \in Nat \ {0}
    BY <1>1
  <2> DEFINE b == ByteBase
  <2>2. b \in Nat \ {0} /\ (b * k) * u + (b * v + y) = b * w + z
    BY <1>6, <2>1, Zenon
  <2>3. y \in 0..b-1 /\ z \in 0..b-1
    OBVIOUS
  <2> HIDE DEF b
  <2> QED
    BY <2>2, <2>3, CutTwice
<1> QED
  BY <1>3, <1>4, <1>5, <1>7, Zenon

(* Between -b and b, zero is the only number that leaves no remainder.     *)
LEMMA OnlyZeroWraps ==
  ASSUME NEW b \in Nat \ {0}, NEW n \in Int, -b < n, n < b
  PROVE  n % b = 0 <=> n = 0
<1>1. CASE n >= 0
  BY <1>1
<1>2. CASE n < 0
  <2>1. /\ n \div b \in Int /\ n % b \in 0..b-1 /\ n = b * (n \div b) + (n % b)
    BY Division
  <2>2. SUFFICES ASSUME n % b = 0 PROVE FALSE
    BY <1>2
  <2>3. PICK q \in Int : n = b * q
    BY <2>1, <2>2
  <2>4. CASE q >= 0
    <3>1. b * q >= 0
      BY <2>4
    <3> QED
      BY <1>2, <2>3, <3>1
  <2>5. CASE q = -1
    BY <2>3, <2>5
  <2>6. CASE q < -1
    <3>1. PICK k \in Nat : q = -1 - k
      <4>1. -1 - q \in Nat /\ q = -1 - (-1 - q)
        BY <2>6
      <4> QED
        BY <4>1
    <3>2. b * (-1 - k) = -b - b * k /\ b * k \in Nat
      OBVIOUS
    <3> QED
      BY <2>3, <3>1, <3>2
  <2> QED
    BY <2>4, <2>5, <2>6
<1> QED
  BY <1>1, <1>2

-----------------------------------------------------------------------------
(* The registers and their copies. *)

(* B is not 0 before a port instruction: from 0 its int copy goes negative *)
(* and never returns to 0 within the cycles of a call.                     *)
PortsCounted == \A o \in Ops \cap PortOps : 0 \notin Counters[o]

(* The copy of the counter is behind the register by the iterations of     *)
(* this call, so that it wraps around at most once.                        *)
CopiesFollow ==
  Inside =>
    /\ c \in Int /\ hl \in Int /\ de \in Int
    /\ left \in 1..MaxChunk
    /\ c <= counter /\ c - left >= counter - MaxChunk
    /\ op \in PortOps => c >= 1

BlockInv ==
  /\ op \in Ops /\ at \in {"instruction", "loop", "next"}
  /\ counter \in 0..CounterBase-1 /\ HL \in 0..WordBase-1 /\ DE \in 0..WordBase-1
  /\ at = "instruction" /\ op \in PortOps => counter >= 1
  /\ CopiesFollow

LEMMA Widths ==
  /\ WordBase \in Nat \ {0} /\ ByteBase \in Nat \ {0} /\ CounterBase \in Nat \ {0}
  /\ MaxChunk \in Nat \ {0} /\ MaxChunk < WordBase
  /\ op \in WordOps => CounterBase = WordBase
  /\ Direction \in Int
BY WidthAssumption DEF CounterBase, Direction

(* The int copy is zero exactly when the register would be.                *)
LEMMA ZeroTogether ==
  ASSUME BlockInv, Inside, op \in AllOps
  PROVE  /\ c - 1 \in Int /\ (c - 1) % CounterBase \in 0..CounterBase-1
         /\ (c - 1) % CounterBase = 0 <=> c - 1 = 0
         /\ op \in PortOps /\ c - 1 # 0 => (c - 1) % CounterBase >= 1
         /\ c # counter + 1 /\ c - 1 # counter
<1>1. /\ c \in Int /\ left \in 1..MaxChunk /\ c <= counter /\ c - left >= counter - MaxChunk
      /\ op \in PortOps => c >= 1
      /\ counter \in 0..CounterBase-1
  BY DEF BlockInv, CopiesFollow
<1>2. c - 1 \in Int /\ c - 1 < CounterBase /\ -CounterBase < c - 1
  BY <1>1, Widths DEF AllOps
<1>3. (c - 1) % CounterBase \in 0..CounterBase-1
  BY <1>2, Widths, Division
<1>4. (c - 1) % CounterBase = 0 <=> c - 1 = 0
  BY <1>2, Widths, OnlyZeroWraps
<1> QED
  BY <1>1, <1>2, <1>3, <1>4

LEMMA BodyIsKnown ==
  ASSUME Body
  PROVE  /\ op \in AllOps /\ op' = op /\ Inside
         /\ c' = c - 1 /\ hl' = hl + Direction
         /\ de' = IF op \in {"LDIR", "LDDR"} THEN de + Direction ELSE de
BY DEF Body, Load, Compare, Input, Output, AllOps, WordOps, PortOps, Inside

LEMMA InitBlock ==
  ASSUME PortsCounted, Init
  PROVE  BlockInv
<1>1. op \in Ops /\ counter \in Counters[op] /\ counter < CounterBase /\ counter \in Nat
  BY WidthAssumption DEF Init
<1>2. op \in PortOps => counter # 0
  BY <1>1 DEF PortsCounted
<1> QED
  BY <1>1, <1>2, Widths, WidthAssumption DEF Init, BlockInv, CopiesFollow, Inside

LEMMA EnterBlock ==
  ASSUME BlockInv, NEW n \in 1..MaxChunk, Enter(n)
  PROVE  BlockInv'
BY Widths DEF Enter, BlockInv, CopiesFollow, Inside, CounterBase, registers

LEMMA ContinueBlock ==
  ASSUME BlockInv, Continue
  PROVE  BlockInv'
<1>1. /\ op \in AllOps /\ op' = op /\ Inside /\ c' = c - 1 /\ hl' = hl + Direction
      /\ de' = IF op \in {"LDIR", "LDDR"} THEN de + Direction ELSE de
      /\ UNCHANGED <<at, registers>> /\ left' = left - 1 /\ left # 1 /\ c - 1 # 0
  BY BodyIsKnown DEF Continue, Finished, OutOfCycles
<1>2. hl' \in Int /\ de' \in Int
  BY <1>1, Widths DEF BlockInv, CopiesFollow
<1>3. left' \in 1..MaxChunk
  BY <1>1, Widths DEF BlockInv, CopiesFollow
<1>4. c' \in Int /\ c' <= counter /\ c' - left' >= counter - MaxChunk /\ (op \in PortOps => c' >= 1)
  BY <1>1, Widths DEF BlockInv, CopiesFollow
<1>5. CounterBase' = CounterBase
  BY <1>1 DEF CounterBase
<1> QED
  BY <1>1, <1>2, <1>3, <1>4, <1>5 DEF BlockInv, CopiesFollow, Inside, registers

LEMMA LeaveBlock ==
  ASSUME BlockInv, Leave
  PROVE  BlockInv'
<1>1. /\ op \in AllOps /\ op' = op /\ Inside /\ hl \in Int /\ de' \in Int
      /\ at' = IF Finished THEN "next" ELSE "instruction"
      /\ counter' = (c - 1) % CounterBase /\ HL' = (hl + Direction) % WordBase /\ DE' = de' % WordBase
  BY BodyIsKnown, Widths DEF Leave, StoreCopies, BlockInv, CopiesFollow
<1>2. counter' \in 0..CounterBase-1 /\ (op \in PortOps /\ c - 1 # 0 => counter' >= 1)
  BY <1>1, ZeroTogether
<1>3. HL' \in 0..WordBase-1 /\ DE' \in 0..WordBase-1
  <2>1. hl + Direction \in Int
    BY <1>1, Widths
  <2> QED
    BY <1>1, <2>1, Widths, Division
<1>4. CounterBase' = CounterBase
  BY <1>1 DEF CounterBase
<1> QED
  BY <1>1, <1>2, <1>3, <1>4 DEF BlockInv, CopiesFollow, Inside, Finished

LEMMA NextBlock ==
  ASSUME BlockInv, [Next]_vars
  PROVE  BlockInv'
<1>1. CASE UNCHANGED vars
  BY <1>1 DEF vars, registers, copies, BlockInv, CopiesFollow, Inside, CounterBase
<1> QED
  BY <1>1, EnterBlock, ContinueBlock, LeaveBlock DEF Next

(* Whatever the registers, and wherever the cycles of a call end: the      *)
(* registers keep their width, and the int copy of the counter never       *)
(* passes the point where it would miss zero.                              *)
THEOREM CopiesBounded == PortsCounted => (Spec => []BlockInv)
<1> SUFFICES ASSUME PortsCounted PROVE Spec => []BlockInv
  OBVIOUS
<1>1. Init => BlockInv
  BY InitBlock
<1>2. BlockInv /\ [Next]_vars => BlockInv'
  BY NextBlock
<1> QED
  BY <1>1, <1>2, PTL DEF Spec

-----------------------------------------------------------------------------
(* The steps of the loop are the iterations of the reference. *)

(* The registers as the instruction sees them.                             *)
SeenCounter == IF Inside THEN c % CounterBase ELSE counter
SeenSource == IF Inside THEN hl % WordBase ELSE HL
SeenDest == IF Inside THEN de % WordBase ELSE DE
SeenZ == IF Inside /\ Started /\ op \notin {"LDIR", "LDDR"} THEN FALSE ELSE Z
SeenP == IF Inside /\ Started THEN op \in WordOps \/ PortParity(c, hl) ELSE P

LEMMA EnterStutters ==
  ASSUME BlockInv, NEW n \in 1..MaxChunk, Enter(n)
  PROVE  UNCHANGED Reference!vars
<1>1. /\ UNCHANGED <<op, A, registers, memory, read, written, r, Z, P>> /\ at = "instruction"
      /\ at' = "loop" /\ c' = counter /\ hl' = HL /\ de' = DE
  BY DEF Enter
<1>2. counter % CounterBase = counter /\ HL % WordBase = HL /\ DE % WordBase = DE
  BY Widths DEF BlockInv
<1>3. CounterBase' = CounterBase
  BY <1>1 DEF CounterBase
<1>4. UNCHANGED <<SeenCounter, SeenSource, SeenDest>>
  BY <1>1, <1>2, <1>3 DEF SeenCounter, SeenSource, SeenDest, Inside, registers
<1>5. UNCHANGED <<SeenZ, SeenP>>
  BY <1>1 DEF SeenZ, SeenP, Inside, Started, registers
<1>6. UNCHANGED (at = "next")
  BY <1>1
<1> QED
  BY <1>1, <1>4, <1>5, <1>6, Zenon
  DEF Reference!vars, SeenCounter, SeenSource, SeenDest, SeenZ, SeenP

(* Where an iteration takes the registers that the instruction sees.       *)
LEMMA SeenMoves ==
  ASSUME BlockInv, Continue \/ Leave
  PROVE  /\ Inside /\ op \in AllOps /\ op' = op /\ at = "loop"
         /\ SeenCounter' = Reference!Left
         /\ Reference!Left = 0 <=> c - 1 = 0
         /\ SeenSource' = Reference!Moved(SeenSource)
         /\ SeenDest' = IF op \in {"LDIR", "LDDR"} THEN Reference!Moved(SeenDest) ELSE SeenDest
         /\ Reference!Moved(SeenSource) = (hl + Direction) % WordBase
         /\ op \in PortOps => c - 1 \in 0..ByteBase-1 /\ Reference!Left = c - 1
         /\ Reference!Step(op) = Direction
<1>1. /\ op \in AllOps /\ op' = op /\ Inside /\ at = "loop"
      /\ c' = c - 1 /\ hl' = hl + Direction
      /\ de' = IF op \in {"LDIR", "LDDR"} THEN de + Direction ELSE de
      /\ c \in Int /\ hl \in Int /\ de \in Int
  BY BodyIsKnown DEF Continue, Leave, BlockInv, CopiesFollow, Inside
<1>2. CounterBase' = CounterBase
  BY <1>1 DEF CounterBase
<1>3. Reference!CounterBase(op) = CounterBase /\ Reference!Step(op) = Direction
  BY DEF Reference!CounterBase, CounterBase, WordOps, Reference!Step, Direction
<1>4. /\ SeenCounter' = (c - 1) % CounterBase
      /\ SeenSource' = (hl + Direction) % WordBase
      /\ SeenDest' = de' % WordBase
  <2>1. CASE Continue
    BY <1>1, <1>2, <2>1 DEF Continue, SeenCounter, SeenSource, SeenDest, Inside
  <2>2. CASE Leave
    BY <1>1, <1>2, <2>2 DEF Leave, StoreCopies, SeenCounter, SeenSource, SeenDest, Inside
  <2> QED
    BY <2>1, <2>2
<1>5. SeenCounter = c % CounterBase /\ SeenSource = hl % WordBase /\ SeenDest = de % WordBase
  BY <1>1 DEF SeenCounter, SeenSource, SeenDest
<1>6. Reference!Left = (c - 1) % CounterBase
  <2>1. Reference!Left = ((c % CounterBase) - 1) % CounterBase
    BY <1>1, <1>3 DEF Reference!Left
  <2>2. PICK k \in Int : k = -1
    OBVIOUS
  <2>3. ((c % CounterBase) + k) % CounterBase = (c + k) % CounterBase
    BY <1>1, Widths, StepFromRemainder
  <2>4. c % CounterBase \in Int
    BY <1>1, Widths, Division
  <2>5. (c % CounterBase) - 1 = (c % CounterBase) + k /\ c - 1 = c + k
    BY <1>1, <2>2, <2>4
  <2> QED
    BY <2>1, <2>3, <2>5
<1>7. ASSUME NEW x \in Int
      PROVE  Reference!Moved(x % WordBase) = (x + Direction) % WordBase
  <2>1. Reference!Moved(x % WordBase) = ((x % WordBase) + Direction) % WordBase
    BY <1>3 DEF Reference!Moved
  <2> QED
    BY <2>1, Widths, StepFromRemainder
<1>8. (c - 1) % CounterBase = 0 <=> c - 1 = 0
  BY <1>1, ZeroTogether
<1>9. ASSUME op \in PortOps
      PROVE  c - 1 \in 0..ByteBase-1 /\ (c - 1) % CounterBase = c - 1
  <2>1. CounterBase = ByteBase
    BY <1>9 DEF CounterBase, PortOps, WordOps
  <2>2. c - 1 \in 0..ByteBase-1
    BY <1>1, <1>9, <2>1, Widths DEF BlockInv, CopiesFollow
  <2> QED
    BY <2>1, <2>2, Widths
<1> QED
  BY <1>1, <1>3, <1>4, <1>5, <1>6, <1>7, <1>8, <1>9

(* The parity of an iteration, from the copies as they are behind it.      *)
LEMMA ParityKept ==
  ASSUME BlockInv, Continue, op \in PortOps
  PROVE  PortParity(c, hl)' = PortParity(c - 1, hl + Direction)
<1>1. /\ op' = op /\ c' = c - 1 /\ hl' = hl + Direction
  BY BodyIsKnown DEF Continue
<1>2. Direction' = Direction
  BY <1>1 DEF Direction
<1>3. op \notin {"INIR", "INDR"} => memory' = memory
  BY DEF Continue, Body, Load, Compare, Input, Output, PortOps
<1> QED
  BY <1>1, <1>2, <1>3, Zenon DEF PortParity, Added, EvenParity, OneBits, Bit

(* What an iteration does to the flags that the instruction sees.          *)
LEMMA SeenFlags ==
  ASSUME BlockInv, Continue \/ Leave
  PROVE  /\ SeenP' = IF op \in WordOps THEN c - 1 # 0 ELSE PortParity(c - 1, hl + Direction)
         /\ op \in {"LDIR", "LDDR"} => SeenZ' = SeenZ
         /\ op \in {"CPIR", "CPDR"} => SeenZ' = Found
         /\ op \in PortOps => SeenZ' = (c - 1 = 0)
         /\ at' = "next" <=> Finished
<1>1. /\ op \in AllOps /\ op' = op /\ Inside /\ at = "loop" /\ c' = c - 1
      /\ c - 1 # counter /\ (op \in PortOps => c - 1 \in 0..ByteBase-1)
      /\ op \notin WordOps => op \in PortOps
  BY BodyIsKnown, ZeroTogether, SeenMoves DEF Continue, Leave, Inside, AllOps
<1>2. /\ op \in WordOps => op \notin PortOps
      /\ op \in {"LDIR", "LDDR", "CPIR", "CPDR"} <=> op \in WordOps
      /\ op \in PortOps => op \notin {"LDIR", "LDDR", "CPIR", "CPDR"}
  BY DEF WordOps, PortOps
<1>3. CASE Continue
  <2>1. /\ ~Finished /\ UNCHANGED <<at, registers, Z, P>> /\ c - 1 # 0 /\ ~Found
    BY <1>3 DEF Continue, Finished
  <2>2. Inside' /\ Started' /\ at' # "next" /\ Z' = Z /\ P' = P
    BY <1>1, <2>1 DEF Inside, Started, registers
  <2>3. /\ SeenP' = (op \in WordOps \/ PortParity(c, hl)')
        /\ SeenZ' = IF op \notin {"LDIR", "LDDR"} THEN FALSE ELSE Z
    BY <1>1, <2>2, Zenon DEF SeenP, SeenZ
  <2>4. op \in {"LDIR", "LDDR"} => SeenZ = Z
    BY Zenon DEF SeenZ
  <2>5. TRUE = (c - 1 # 0) /\ FALSE = (c - 1 = 0) /\ FALSE = Found
    BY <2>1, Zenon DEF Found
  <2>6. SeenP' = IF op \in WordOps THEN c - 1 # 0 ELSE PortParity(c - 1, hl + Direction)
    <3>1. op \notin WordOps => PortParity(c, hl)' = PortParity(c - 1, hl + Direction)
      BY <1>1, <1>3, ParityKept
    <3>2. PortParity(c - 1, hl + Direction) \in BOOLEAN
      BY Zenon DEF PortParity, EvenParity
    <3> QED
      BY <2>3, <2>5, <3>1, <3>2, Zenon
  <2>7. op \in {"LDIR", "LDDR"} => SeenZ' = SeenZ
    BY <2>3, <2>4, Zenon
  <2>8. op \in {"CPIR", "CPDR"} => SeenZ' = Found
    <3>1. op \in {"CPIR", "CPDR"} => op \notin {"LDIR", "LDDR"}
      OBVIOUS
    <3> QED
      BY <2>3, <2>5, <3>1, Zenon
  <2>9. op \in PortOps => SeenZ' = (c - 1 = 0)
    <3>1. op \in PortOps => op \notin {"LDIR", "LDDR"}
      BY DEF PortOps
    <3> QED
      BY <2>3, <2>5, <3>1, Zenon
  <2> QED
    BY <2>1, <2>2, <2>6, <2>7, <2>8, <2>9, Zenon
<1>4. CASE Leave
  <2>1. /\ at' = IF Finished THEN "next" ELSE "instruction"
        /\ P' \in IF op \in WordOps THEN {c - 1 # 0}
                  ELSE IF InTable(c - 1) THEN {PortParity(c - 1, hl + Direction)} ELSE BOOLEAN
        /\ Z' \in IF op \in {"LDIR", "LDDR"} THEN {Z}
                  ELSE IF op \in {"CPIR", "CPDR"} THEN {Found}
                  ELSE IF InTable(c - 1) THEN {c - 1 = 0} ELSE BOOLEAN
    BY <1>4 DEF Leave
  <2>2. ~Inside' /\ (at' = "next" <=> Finished)
    BY <2>1 DEF Inside
  <2>3. SeenP' = P' /\ SeenZ' = Z'
    BY <2>2, Zenon DEF SeenP, SeenZ
  <2>4. op \in {"LDIR", "LDDR"} => SeenZ = Z
    BY Zenon DEF SeenZ
  <2>5. /\ op \in {"LDIR", "LDDR"} => Z' = Z
        /\ op \in {"CPIR", "CPDR"} => Z' = Found
        /\ op \in PortOps => Z' = (c - 1 = 0)
        /\ P' = IF op \in WordOps THEN c - 1 # 0 ELSE PortParity(c - 1, hl + Direction)
    <3>1. op \in {"CPIR", "CPDR"} => op \notin {"LDIR", "LDDR"}
      OBVIOUS
    <3>2. op \in PortOps => InTable(c - 1)
      BY <1>1 DEF InTable
    <3> QED
      BY <1>1, <1>2, <2>1, <3>1, <3>2, Zenon
  <2> QED
    BY <2>1, <2>2, <2>3, <2>4, <2>5, Zenon
<1> QED
  BY <1>3, <1>4

(* Each pass through the body is one iteration.                            *)
LEMMA BodyIterates ==
  ASSUME BlockInv, Continue \/ Leave
  PROVE  Reference!Next
<1>1. /\ Inside /\ op \in AllOps /\ op' = op /\ at = "loop"
      /\ SeenCounter' = Reference!Left
      /\ Reference!Left = 0 <=> c - 1 = 0
      /\ SeenSource' = Reference!Moved(SeenSource)
      /\ SeenDest' = IF op \in {"LDIR", "LDDR"} THEN Reference!Moved(SeenDest) ELSE SeenDest
      /\ Reference!Moved(SeenSource) = (hl + Direction) % WordBase
      /\ op \in PortOps => Reference!Left = c - 1
      /\ Reference!Step(op) = Direction
  BY SeenMoves
<1>2. /\ SeenP' = IF op \in WordOps THEN c - 1 # 0 ELSE PortParity(c - 1, hl + Direction)
      /\ op \in {"LDIR", "LDDR"} => SeenZ' = SeenZ
      /\ op \in {"CPIR", "CPDR"} => SeenZ' = Found
      /\ op \in PortOps => SeenZ' = (c - 1 = 0)
      /\ at' = "next" <=> Finished
  BY SeenFlags
<1>3. SeenSource = hl % WordBase /\ SeenDest = de % WordBase
  BY <1>1 DEF SeenSource, SeenDest
<1>4. r' = (r + 2) % RBase /\ (Load \/ Compare \/ Input \/ Output)
  BY DEF Continue, Leave, Body
<1>5. (c - 1 # 0) = (Reference!Left # 0) /\ (c - 1 = 0) = (Reference!Left = 0)
  BY <1>1
<1>6. ASSUME Load \/ Compare \/ Input \/ Output
      PROVE  Reference!Load \/ Reference!Compare \/ Reference!Input \/ Reference!Output
  <2>1. CASE Load
    <3>1. /\ op \in {"LDIR", "LDDR"} /\ op \in WordOps
          /\ memory' = [memory EXCEPT ![SeenDest] = memory[SeenSource]]
          /\ UNCHANGED <<A, read, written>>
      BY <1>3, <2>1 DEF Load, WordOps
    <3>2. SeenDest' = Reference!Moved(SeenDest)
      BY <1>1, <3>1
    <3>3. SeenP' = (Reference!Left # 0) /\ SeenZ' = SeenZ
      BY <1>2, <1>5, <3>1, Zenon
    <3>4. (at' = "next") = (Reference!Left = 0)
      <4>1. ~Found
        BY <3>1 DEF Found
      <4> QED
        BY <1>1, <1>2, <4>1 DEF Finished
    <3> QED
      BY <3>1, <3>2, <3>3, <3>4, Zenon
      DEF Reference!Load, SeenSource, SeenDest, SeenZ, SeenP
  <2>2. CASE Compare
    <3>1. /\ op \in {"CPIR", "CPDR"} /\ op \in WordOps /\ op \notin {"LDIR", "LDDR"}
          /\ UNCHANGED <<A, memory, read, written>>
      BY <2>2 DEF Compare, WordOps
    <3>2. SeenDest' = SeenDest
      BY <1>1, <3>1
    <3>3. SeenP' = (Reference!Left # 0) /\ SeenZ' = (memory[SeenSource] = A)
      <4>1. Found = (memory[SeenSource] = A)
        BY <1>3, <3>1 DEF Found
      <4> QED
        BY <1>2, <1>5, <3>1, <4>1, Zenon
    <3>4. (at' = "next") = (Reference!Left = 0 \/ SeenZ')
      <4>1. Found = (memory[SeenSource] = A)
        BY <1>3, <3>1 DEF Found
      <4> QED
        BY <1>1, <1>2, <3>3, <4>1 DEF Finished
    <3> QED
      BY <3>1, <3>2, <3>3, <3>4, Zenon
      DEF Reference!Compare, SeenSource, SeenDest, SeenZ, SeenP
  <2>3. ASSUME op \in PortOps
        PROVE  /\ op \notin WordOps /\ SeenDest' = SeenDest
               /\ SeenP' = Reference!EvenParity(Added(hl + Direction) % 8, Reference!Left)
               /\ SeenZ' = (Reference!Left = 0) /\ (at' = "next") = SeenZ'
    <3>1. op \notin WordOps /\ op \notin {"LDIR", "LDDR"} /\ ~Found
      BY <2>3 DEF WordOps, PortOps, Found
    <3>2. SeenZ' = (Reference!Left = 0)
      BY <1>2, <1>5, <2>3, Zenon
    <3>3. (at' = "next") = (Reference!Left = 0)
      BY <1>1, <1>2, <3>1 DEF Finished
    <3>4. SeenP' = PortParity(c - 1, hl + Direction) /\ SeenDest' = SeenDest
      BY <1>1, <1>2, <3>1, Zenon
    <3>5. PortParity(c - 1, hl + Direction)
          = Reference!EvenParity(Added(hl + Direction) % 8, Reference!Left)
      <4>1. Reference!Left = c - 1
        BY <1>1, <2>3
      <4>2. EvenParity(Added(hl + Direction) % 8, c - 1)
            = Reference!EvenParity(Added(hl + Direction) % 8, c - 1)
        BY Zenon DEF EvenParity, OneBits, Bit, Reference!EvenParity, Reference!OneBits, Reference!Bit
      <4> QED
        BY <4>1, <4>2 DEF PortParity
    <3> QED
      BY <3>1, <3>2, <3>3, <3>4, <3>5, Zenon
  <2>4. CASE Input
    <3>1. /\ op \in {"INIR", "INDR"} /\ op \in PortOps
          /\ A' = Reference!InputByte(read) /\ read' = read + 1 /\ written' = written
          /\ memory' = [memory EXCEPT ![SeenSource] = 0]
      BY <1>3, <2>4 DEF Input, PortOps, InputByte, Reference!InputByte
    <3>2. Added(hl + Direction) = (Port + Reference!Step(op)) % ByteBase
      BY <1>1, <3>1, Zenon DEF Added
    <3>3. SeenP' = Reference!EvenParity(((Port + Reference!Step(op)) % ByteBase) % 8, Reference!Left)
      BY <2>3, <3>1, <3>2, Zenon
    <3> QED
      BY <2>3, <3>1, <3>3, Zenon DEF Reference!Input, SeenSource, SeenDest, SeenZ, SeenP
  <2>5. CASE Output
    <3>1. /\ op \in {"OTIR", "OTDR"} /\ op \in PortOps
          /\ written' = Append(written, A) /\ UNCHANGED <<A, memory, read>>
      BY <2>5 DEF Output, PortOps
    <3>2. Added(hl + Direction) = memory[SeenSource] + (Reference!Moved(SeenSource) % ByteBase)
      <4>1. hl \in Int /\ Direction \in Int
        BY <1>1, Widths DEF BlockInv, CopiesFollow
      <4>2. (hl + Direction) - Direction = hl /\ hl + Direction \in Int
        BY <4>1
      <4>3. ((hl + Direction) % WordBase) % ByteBase = (hl + Direction) % ByteBase
        BY <4>2, WordThenByte
      <4>4. op \notin {"INIR", "INDR"}
        BY <3>1
      <4> QED
        BY <1>1, <1>3, <4>2, <4>3, <4>4, Zenon DEF Added
    <3>3. SeenP' = Reference!EvenParity(
                     (memory[SeenSource] + (Reference!Moved(SeenSource) % ByteBase)) % 8, Reference!Left)
      BY <2>3, <3>1, <3>2, Zenon
    <3> QED
      BY <2>3, <3>1, <3>3, Zenon DEF Reference!Output, SeenSource, SeenDest, SeenZ, SeenP
  <2> QED
    BY <1>6, <2>1, <2>2, <2>4, <2>5
<1>7. ~(at = "next")
  BY <1>1
<1> QED
  BY <1>1, <1>4, <1>6, <1>7, Zenon DEF Reference!Next, SeenCounter, SeenSource

LEMMA InitRefines == Init => Reference!Init
<1> SUFFICES ASSUME Init PROVE Reference!Init
  OBVIOUS
<1>1. ~(at = "next") /\ ~Inside
  BY DEF Init, Inside
<1>2. /\ A = Sought /\ read = 0 /\ written = <<>> /\ r = 0 /\ ~Z /\ ~P
      /\ memory = [a \in 0..WordBase-1 |-> a]
  BY DEF Init
<1> QED
  BY <1>1, <1>2, Zenon DEF Reference!Init

(* However the cycles of the calls cut the loop, and although the counter  *)
(* and the addresses are kept in ints that are not cut to their width: the *)
(* instruction starts like the reference, and each pass through the body   *)
(* is one of its iterations, with its memory, ports, registers, refresh    *)
(* counter, flags and end; storing the copies, and resuming, is no step of *)
(* it (the loops of LDIR_LDDR, CPIR_CPDR, INIR_INDR and OTIR_OTDR).        *)
THEOREM StepsAreIterations ==
  PortsCounted => (Spec => Reference!Init /\ [][Reference!Next]_(Reference!vars))
<1> SUFFICES ASSUME PortsCounted
             PROVE  Spec => Reference!Init /\ [][Reference!Next]_(Reference!vars)
  OBVIOUS
<1>1. BlockInv /\ [Next]_vars => [Reference!Next]_(Reference!vars)
  <2> SUFFICES ASSUME BlockInv, [Next]_vars PROVE [Reference!Next]_(Reference!vars)
    OBVIOUS
  <2>1. CASE UNCHANGED vars
    <3>1. UNCHANGED <<op, A, memory, read, written, r, at>>
      BY <2>1 DEF vars
    <3>2. UNCHANGED <<SeenCounter, SeenSource, SeenDest>>
      BY <2>1 DEF vars, registers, copies, SeenCounter, SeenSource, SeenDest, Inside, CounterBase
    <3>3. UNCHANGED <<SeenZ, SeenP>>
      BY <2>1 DEF vars, registers, copies, SeenZ, SeenP, Inside, Started,
                  PortParity, Added, EvenParity, OneBits, Bit, Direction
    <3> QED
      BY <3>1, <3>2, <3>3, Zenon
      DEF Reference!vars, SeenCounter, SeenSource, SeenDest, SeenZ, SeenP
  <2>2. CASE \E n \in 1..MaxChunk : Enter(n)
    BY <2>2, EnterStutters
  <2>3. CASE Continue \/ Leave
    BY <2>3, BodyIterates
  <2> QED
    BY <2>1, <2>2, <2>3 DEF Next
<1> QED
  BY <1>1, InitRefines, CopiesBounded, PTL DEF Spec
=============================================================================
