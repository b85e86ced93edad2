--------------------------- MODULE Z80ControlProofs ---------------------------
(***************************************************************************)
(* The control of the processor, for every program, address space, stack   *)
(* and budget of cycles: type correctness, handlers that run with          *)
(* interrupts disabled, no interrupt right after EI or DI, and returns     *)
(* that resume what was called from or interrupted.                        *)
(***************************************************************************)
EXTENDS Z80Control, SequenceTheorems, TLAPS

-----------------------------------------------------------------------------
(* Arithmetic of a stack pointer that wraps around. *)

LEMMA Division ==
  ASSUME NEW n \in Int, NEW b \in Nat \ {0}
  PROVE  /\ n \div b \in Int
         /\ n % b \in 0..b-1
         /\ n = b * (n \div b) + (n % b)
OBVIOUS

LEMMA Distributes ==
  ASSUME NEW b \in Int, NEW u \in Int, NEW v \in Int
  PROVE  b * (u + v) = b * u + b * v
OBVIOUS

(* Remainders are unique. *)
LEMMA Remainder ==
  ASSUME NEW b \in Nat \ {0}, NEW p \in Int, NEW q \in Int, NEW r \in 0..b-1, NEW s \in 0..b-1,
         b * p + r = b * q + s
  PROVE  r = s
<1>1. ~(p >= q + 1)
  <2>1. SUFFICES ASSUME p >= q + 1 PROVE FALSE
    OBVIOUS
  <2>2. PICK k \in Nat : p = q + 1 + k
    <3>1. p - (q + 1) \in Nat
      BY <2>1
    <3> QED
      BY <3>1
  <2>3. b * p = b * q + b + b * k /\ b * k \in Nat
    BY <2>2
  <2> QED
    BY <2>3
<1>2. ~(q >= p + 1)
  <2>1. SUFFICES ASSUME q >= p + 1 PROVE FALSE
    OBVIOUS
  <2>2. PICK k \in Nat : q = p + 1 + k
    <3>1. q - (p + 1) \in Nat
      BY <2>1
    <3> QED
      BY <3>1
  <2>3. b * q = b * p + b + b * k /\ b * k \in Nat
    BY <2>2
  <2> QED
    BY <2>3
<1>3. p = q
  BY <1>1, <1>2
<1> QED
  BY <1>3

(* A step from a remainder is a step from the number. *)
LEMMA StepFromRemainder ==
  ASSUME NEW b \in Nat \ {0}, NEW n \in Int, NEW k \in Int
  PROVE  ((n % b) + k) % b = (n + k) % b
<1>1. /\ n % b \in 0..b-1 /\ n \div b \in Int /\ n = b * (n \div b) + (n % b)
  BY Division
<1> DEFINE m == (n % b) + k
<1>2. /\ m \in Int /\ m % b \in 0..b-1 /\ m \div b \in Int /\ m = b * (m \div b) + (m % b)
  BY <1>1, Division
<1>3. /\ (n + k) % b \in 0..b-1 /\ (n + k) \div b \in Int
      /\ n + k = b * ((n + k) \div b) + ((n + k) % b)
  BY Division
<1>4. n + k = b * (n \div b) + m
  BY <1>1
<1> HIDE DEF m
<1>5. PICK u \in Int, v \in Int, w \in Int :
        u = n \div b /\ v = m \div b /\ w = (n + k) \div b
  BY <1>1, <1>2, <1>3
<1>6. b * (u + v) + (m % b) = b * w + ((n + k) % b)
  <2>1. b * (u + v) = b * u + b * v
    BY Distributes
  <2> QED
    BY <1>2, <1>3, <1>4, <1>5, <2>1
<1>7. m % b = (n + k) % b
  <2>1. u + v \in Int
    BY <1>5
  <2> QED
    BY <1>2, <1>3, <1>5, <1>6, <2>1, Remainder
<1> QED
  BY <1>7 DEF m

(* Numbers less than b apart have different remainders. *)
LEMMA Apart ==
  ASSUME NEW b \in Nat \ {0}, NEW n \in Int, NEW k \in 1..b-1
  PROVE  (n + k) % b # n % b
<1>1. SUFFICES ASSUME (n + k) % b = n % b PROVE FALSE
  OBVIOUS
<1>2. /\ n = b * (n \div b) + (n % b) /\ n \div b \in Int
      /\ n + k = b * ((n + k) \div b) + ((n + k) % b) /\ (n + k) \div b \in Int
      /\ n % b \in 0..b-1
  BY Division
<1>3. PICK p \in Int, q \in Int : p = (n + k) \div b /\ q = n \div b
  BY <1>2
<1>4. b * q + k = b * p + 0
  BY <1>1, <1>2, <1>3
<1>5. k = 0
  BY <1>3, <1>4, Remainder
<1> QED
  BY <1>5

-----------------------------------------------------------------------------
(* What each kind of instruction leaves. *)

LEMMA Constants ==
  /\ PcBase \in Nat \ {0} /\ StackWords \in Nat \ {0}
  /\ \A k \in Nat : TypeOK => At(k) \in Address
  /\ RstVector \in Address /\ NmiVector \in Address
  /\ TypeOK => Vector \in Address
<1>1. PcBase \in Nat \ {0} /\ StackWords \in Nat \ {0}
  BY ControlAssumption
<1>2. ASSUME TypeOK, NEW k \in Nat
      PROVE  At(k) \in Address
  <2>1. pc + k \in Int
    BY <1>1, <1>2 DEF TypeOK, Address
  <2> QED
    BY <1>1, <1>2, <2>1, Division DEF At, Address
<1> QED
  BY <1>1, <1>2, ControlAssumption DEF TypeOK, Vector

(* The budget and pc after an instruction: the loop goes on only with      *)
(* cycles left.                                                            *)
LEMMA RetireType ==
  ASSUME TypeOK, NEW k \in Nat, NEW a \in Address, Retire(k, a)
  PROVE  /\ left' \in Nat /\ phase' \in {"stopped", "run"} /\ pc' \in Address
         /\ indexed' \in BOOLEAN /\ ~indexed'
         /\ phase' = "run" => left' > 0
         /\ k = 0 /\ left > 0 => phase' = "run"
<1>1. left \in Nat
  BY DEF TypeOK
<1>2. indexed' \in BOOLEAN /\ ~indexed' /\ pc' \in Address
  BY DEF Retire
<1> QED
  BY <1>1, <1>2 DEF Retire, Spend

(* The frames with clean changed are frames at the same addresses.         *)
SamePlaces(fs, gs) ==
  /\ gs \in Seq(Frame) /\ Len(gs) = Len(fs)
  /\ \A i \in 1..Len(fs) : gs[i].pc = fs[i].pc

LEMMA Changing ==
  ASSUME NEW fs \in Seq(Frame), NEW b \in BOOLEAN
  PROVE  LET gs == [i \in DOMAIN fs |-> [fs[i] EXCEPT !.clean = @ /\ b]] IN
         /\ SamePlaces(fs, gs)
         /\ \A i \in 1..Len(fs) : /\ gs[i].kind = fs[i].kind /\ gs[i].iff = fs[i].iff
                                  /\ gs[i].clean = (fs[i].clean /\ b)
<1> DEFINE gs == [i \in DOMAIN fs |-> [fs[i] EXCEPT !.clean = @ /\ b]]
<1>1. DOMAIN fs = 1..Len(fs) /\ Len(fs) \in Nat
  BY LenProperties
<1>2. ASSUME NEW i \in 1..Len(fs)
      PROVE  /\ gs[i] \in Frame /\ gs[i].pc = fs[i].pc
             /\ gs[i].kind = fs[i].kind /\ gs[i].iff = fs[i].iff
             /\ gs[i].clean = (fs[i].clean /\ b)
  <2>1. fs[i] \in Frame
    BY <1>2, ElementOfSeq
  <2>2. gs[i] = [fs[i] EXCEPT !.clean = fs[i].clean /\ b]
    BY <1>1, <1>2
  <2>3. gs[i] \in Frame
    BY <2>1, <2>2 DEF Frame
  <2> QED
    BY <2>1, <2>2, <2>3 DEF Frame
<1>3. gs \in [1..Len(fs) -> Frame]
  BY <1>1, <1>2
<1>4. gs \in Seq(Frame) /\ Len(gs) = Len(fs)
  BY <1>1, <1>3
<1> QED
  BY <1>2, <1>4 DEF SamePlaces

(* Frame i after a push was frame j before it.                             *)
KeepsDistance(i, j, kind) ==
  /\ j \in 1..Len(frames)
  /\ frames'[i].pc = frames[j].pc /\ frames'[i].iff = frames[j].iff
  /\ frames'[i].kind = frames[j].kind
  /\ frames'[i].clean = (frames[j].clean /\ kind = "call")

(* The history of a push: the new frame is the last, the others keep their *)
(* distance from it.                                                       *)
LEMMA Entering ==
  ASSUME TypeOK, NEW kind \in {"call", "interrupt", "nmi"}, NEW x \in Address, Entered(kind, x)
  PROVE  /\ frames' \in Seq(Frame) /\ Len(frames') \in 1..StackWords
         /\ Len(frames') <= Len(frames) + 1
         /\ frames'[Len(frames')] = [kind |-> kind, pc |-> x, iff |-> iff1, clean |-> TRUE]
         /\ \A i \in 1..Len(frames')-1 : KeepsDistance(i, i + (Len(frames) + 1 - Len(frames')), kind)
<1> DEFINE soiled == [i \in DOMAIN frames |-> [frames[i] EXCEPT !.clean = @ /\ kind = "call"]]
           new == [kind |-> kind, pc |-> x, iff |-> iff1, clean |-> TRUE]
           all == Append(soiled, new)
<1>1. /\ frames \in Seq(Frame) /\ Len(frames) \in 0..StackWords /\ StackWords \in Nat \ {0}
  BY Constants, LenProperties DEF TypeOK
<1>2. /\ soiled \in Seq(Frame) /\ Len(soiled) = Len(frames)
      /\ \A i \in 1..Len(frames) :
           /\ soiled[i].pc = frames[i].pc /\ soiled[i].iff = frames[i].iff
           /\ soiled[i].kind = frames[i].kind
           /\ soiled[i].clean = (frames[i].clean /\ kind = "call")
  <2>1. (kind = "call") \in BOOLEAN
    OBVIOUS
  <2> QED
    BY <1>1, <2>1, Changing DEF SamePlaces
<1>3. new \in Frame
  BY DEF Frame, TypeOK
<1>4. frames' = IF Len(all) > StackWords THEN Tail(all) ELSE all
  BY DEF Entered
<1> HIDE DEF soiled, new
<1>5. /\ all \in Seq(Frame) /\ all # <<>> /\ Len(all) = Len(frames) + 1
      /\ \A i \in 1..Len(frames) : all[i] = soiled[i]
      /\ all[Len(frames) + 1] = new
  BY <1>2, <1>3, AppendProperties
<1> HIDE DEF all
<1>6. CASE Len(all) > StackWords
  <2>1. /\ frames' \in Seq(Frame) /\ Len(frames') = Len(frames)
        /\ \A i \in 1..Len(frames') : frames'[i] = all[i + 1]
    BY <1>1, <1>4, <1>5, <1>6, HeadTailProperties
  <2>2. Len(frames) = StackWords
    BY <1>1, <1>5, <1>6
  <2>3. frames'[Len(frames')] = new
    BY <1>1, <1>5, <2>1, <2>2
  <2>4. ASSUME NEW i \in 1..Len(frames')-1
        PROVE  /\ i + (Len(frames) + 1 - Len(frames')) = i + 1
               /\ i + 1 \in 1..Len(frames) /\ frames'[i] = soiled[i + 1]
    BY <1>1, <1>5, <2>1
  <2> QED
    BY <1>1, <1>2, <2>1, <2>2, <2>3, <2>4 DEF new, KeepsDistance
<1>7. CASE ~(Len(all) > StackWords)
  <2>1. frames' = all
    BY <1>4, <1>7
  <2>2. ASSUME NEW i \in 1..Len(frames')-1
        PROVE  /\ i + (Len(frames) + 1 - Len(frames')) = i
               /\ i \in 1..Len(frames) /\ frames'[i] = soiled[i]
    BY <1>1, <1>5, <2>1
  <2>3. /\ frames' \in Seq(Frame) /\ Len(frames') = Len(frames) + 1
        /\ Len(frames') \in 1..StackWords /\ frames'[Len(frames')] = new
    BY <1>1, <1>5, <1>7, <2>1
  <2> QED
    BY <1>1, <1>2, <2>2, <2>3 DEF new, KeepsDistance
<1> QED
  BY <1>6, <1>7

(* A return drops the last frame.                                          *)
LEMMA Dropping ==
  ASSUME NEW fs \in Seq(Frame)
  PROVE  /\ Dropped(fs) \in Seq(Frame)
         /\ Len(Dropped(fs)) = IF fs = <<>> THEN 0 ELSE Len(fs) - 1
         /\ \A i \in 1..Len(Dropped(fs)) : i \in 1..Len(fs) /\ Dropped(fs)[i] = fs[i]
<1>1. CASE fs = <<>>
  BY <1>1 DEF Dropped
<1>2. CASE fs # <<>>
  <2>1. Len(fs) \in Nat \ {0} /\ \A i \in 1..Len(fs)-1 : fs[i] \in Frame
    BY <1>2, EmptySeq, ElementOfSeq
  <2>2. Dropped(fs) = SubSeq(fs, 1, Len(fs) - 1)
    BY <1>2 DEF Dropped
  <2>3. /\ SubSeq(fs, 1, Len(fs) - 1) \in Seq(Frame)
        /\ Len(SubSeq(fs, 1, Len(fs) - 1)) = Len(fs) - 1
        /\ \A i \in 1..Len(fs)-1 : SubSeq(fs, 1, Len(fs) - 1)[i] = fs[i]
    <3>0. Len(fs) - 1 \in Nat
      BY <2>1
    <3>1. PICK n \in Nat : n = Len(fs) - 1
      BY <3>0
    <3>2. \A i \in 1..n : fs[i] \in Frame
      BY <2>1, <3>1
    <3>3. /\ SubSeq(fs, 1, n) \in Seq(Frame)
          /\ Len(SubSeq(fs, 1, n)) = (IF 1 <= n THEN n - 1 + 1 ELSE 0)
          /\ \A i \in 1..n-1+1 : SubSeq(fs, 1, n)[i] = fs[1 + i - 1]
      BY <3>2, SubSeqProperties
    <3>4. Len(SubSeq(fs, 1, n)) = n /\ \A i \in 1..n : SubSeq(fs, 1, n)[i] = fs[i]
      BY <3>3
    <3> QED
      BY <3>1, <3>3, <3>4
  <2> QED
    BY <1>2, <2>1, <2>2, <2>3
<1> QED
  BY <1>1, <1>2

-----------------------------------------------------------------------------
(* The stack holds what the history says: the frame that is the k-th from  *)
(* the last has its address k words above the stack pointer.               *)
StackHolds ==
  \A i \in 1..Len(frames) : stack[(sp + (Len(frames) - i)) % StackWords] = frames[i].pc

(* Cycles are left before every opcode but one that follows a prefix.      *)
Budgeted == phase = "run" /\ ~indexed => left > 0

(* So the loop does not end after an EI or DI that has no prefix.          *)
Shadowed == shadow = "plain" => phase = "run"

ControlInv == TypeOK /\ HandlersRunMasked /\ Budgeted /\ Shadowed /\ StackHolds

LEMMA InitInv == Init => ControlInv
<1> SUFFICES ASSUME Init PROVE ControlInv
  OBVIOUS
<1>1. TypeOK
  <2>1. 0 \in Address /\ 0 \in 0..StackWords-1 /\ StackWords \in Nat
    BY Constants DEF Address
  <2>2. frames \in Seq(Frame) /\ Len(frames) = 0
    BY EmptySeq DEF Init
  <2>3. indexed \in BOOLEAN /\ iff1 \in BOOLEAN /\ iff2 \in BOOLEAN
    BY Zenon DEF Init
  <2> QED
    BY <2>1, <2>2, <2>3 DEF Init, TypeOK
<1>2. DOMAIN frames = {} /\ 1..Len(frames) = {}
  BY DEF Init
<1>3. HandlersRunMasked /\ StackHolds
  BY <1>2 DEF HandlersRunMasked, StackHolds
<1>4. Budgeted /\ Shadowed
  BY DEF Init, Budgeted, Shadowed
<1> QED
  BY <1>1, <1>3, <1>4 DEF ControlInv

-----------------------------------------------------------------------------
(* The stack. *)

(* Pushing moves every frame one word away from the pointer, and overwrites *)
(* the word of the one that is StackWords away, which is lost.             *)
LEMMA PushHolds ==
  ASSUME ControlInv, NEW kind \in {"call", "interrupt", "nmi"}, NEW x \in Address,
         Push(x), Entered(kind, x)
  PROVE  StackHolds' /\ sp' \in 0..StackWords-1 /\ stack' \in [0..StackWords-1 -> Address]
<1>1. /\ StackWords \in Nat \ {0} /\ sp \in 0..StackWords-1
      /\ stack \in [0..StackWords-1 -> Address] /\ TypeOK
      /\ Len(frames) \in 0..StackWords
  BY Constants, LenProperties DEF ControlInv, TypeOK
<1>2. /\ sp' = (sp - 1) % StackWords /\ sp' \in 0..StackWords-1
      /\ stack' = [stack EXCEPT ![sp'] = x]
  <2>1. sp - 1 \in Int
    BY <1>1
  <2> QED
    BY <1>1, <2>1, Division DEF Push
<1>3. stack' \in [0..StackWords-1 -> Address]
  BY <1>1, <1>2
<1>4. /\ Len(frames') \in 1..StackWords /\ Len(frames') <= Len(frames) + 1
      /\ frames'[Len(frames')].pc = x
      /\ \A i \in 1..Len(frames')-1 : KeepsDistance(i, i + (Len(frames) + 1 - Len(frames')), kind)
  <2>1. /\ Len(frames') \in 1..StackWords /\ Len(frames') <= Len(frames) + 1
        /\ frames'[Len(frames')] = [kind |-> kind, pc |-> x, iff |-> iff1, clean |-> TRUE]
    BY <1>1, Entering
  <2>2. \A i \in 1..Len(frames')-1 : KeepsDistance(i, i + (Len(frames) + 1 - Len(frames')), kind)
    BY <1>1, Entering, Zenon
  <2> QED
    BY <2>1, <2>2
<1>5. ASSUME NEW i \in 1..Len(frames')
      PROVE  stack'[(sp' + (Len(frames') - i)) % StackWords] = frames'[i].pc
  <2> DEFINE k == Len(frames') - i
  <2>1. k \in 0..StackWords-1 /\ k \in Int /\ sp - 1 \in Int
    BY <1>1, <1>4
  <2>2. (sp' + k) % StackWords = (sp - 1 + k) % StackWords
    BY <1>1, <1>2, <2>1, StepFromRemainder
  <2>3. CASE k = 0
    <3>1. (sp' + k) % StackWords = sp' /\ i = Len(frames')
      BY <1>1, <1>2, <1>4, <2>2, <2>3
    <3> QED
      BY <1>1, <1>2, <1>4, <3>1
  <2>4. CASE k # 0
    <3>1. k \in 1..StackWords-1
      BY <2>1, <2>4
    <3>2. (sp - 1 + k) % StackWords # (sp - 1) % StackWords
      BY <1>1, <2>1, <3>1, Apart
    <3>3. (sp - 1 + k) % StackWords \in 0..StackWords-1
      <4>1. sp - 1 + k \in Int
        BY <2>1
      <4> QED
        BY <1>1, <4>1, Division
    <3>4. stack'[(sp' + k) % StackWords] = stack[(sp - 1 + k) % StackWords]
      BY <1>1, <1>2, <2>2, <3>2, <3>3
    <3> DEFINE j == i + (Len(frames) + 1 - Len(frames'))
    <3>5. i \in 1..Len(frames')-1
      BY <1>4, <2>4
    <3>6. j \in 1..Len(frames) /\ frames'[i].pc = frames[j].pc
      BY <1>4, <3>5 DEF KeepsDistance
    <3>7. sp + (Len(frames) - j) = sp - 1 + k
      BY <1>1, <1>4
    <3>8. stack[(sp + (Len(frames) - j)) % StackWords] = frames[j].pc
      BY <3>6 DEF ControlInv, StackHolds
    <3> QED
      BY <3>4, <3>6, <3>7, <3>8
  <2> QED
    BY <2>3, <2>4
<1> QED
  BY <1>2, <1>3, <1>5 DEF StackHolds

(* Popping brings every frame but the last one word nearer.                *)
LEMMA PopHolds ==
  ASSUME ControlInv, sp' = (sp + 1) % StackWords, stack' = stack,
         SamePlaces(Dropped(frames), frames')
  PROVE  StackHolds' /\ sp' \in 0..StackWords-1
<1>1. /\ StackWords \in Nat \ {0} /\ sp \in 0..StackWords-1
      /\ frames \in Seq(Frame) /\ Len(frames) \in 0..StackWords
  BY Constants, LenProperties DEF ControlInv, TypeOK
<1>2. sp' \in 0..StackWords-1 /\ sp + 1 \in Int
  <2>1. sp + 1 \in Int
    BY <1>1
  <2> QED
    BY <1>1, <2>1, Division
<1>3. /\ Len(frames') = IF frames = <<>> THEN 0 ELSE Len(frames) - 1
      /\ \A i \in 1..Len(frames') : i \in 1..Len(frames) /\ frames'[i].pc = frames[i].pc
  BY <1>1, Dropping DEF SamePlaces
<1>4. ASSUME NEW i \in 1..Len(frames')
      PROVE  stack'[(sp' + (Len(frames') - i)) % StackWords] = frames'[i].pc
  <2>1. /\ Len(frames') = Len(frames) - 1 /\ i \in 1..Len(frames)
        /\ frames'[i].pc = frames[i].pc
    BY <1>1, <1>3, <1>4
  <2> DEFINE k == Len(frames') - i
  <2>2. k \in Int /\ sp + 1 + k = sp + (Len(frames) - i)
    BY <1>1, <2>1
  <2>3. (sp' + k) % StackWords = (sp + 1 + k) % StackWords
    BY <1>1, <1>2, <2>2, StepFromRemainder
  <2>4. stack[(sp + (Len(frames) - i)) % StackWords] = frames[i].pc
    BY <2>1 DEF ControlInv, StackHolds
  <2> QED
    BY <2>1, <2>2, <2>3, <2>4
<1> QED
  BY <1>2, <1>4 DEF StackHolds

-----------------------------------------------------------------------------
(* The instructions. *)

(* What does not touch the stack or the flip-flops.                        *)
LEMMA PlainInv ==
  ASSUME ControlInv, NEW k \in Nat, NEW a \in Address, Retire(k, a), Straight
  PROVE  ControlInv'
<1>1. TypeOK'
  BY RetireType DEF ControlInv, TypeOK, Straight, flipflops
<1>2. HandlersRunMasked'
  BY DEF ControlInv, HandlersRunMasked, Straight, flipflops
<1>3. StackHolds'
  BY DEF ControlInv, StackHolds, Straight
<1>4. Budgeted' /\ Shadowed'
  BY RetireType DEF ControlInv, Budgeted, Shadowed, Straight
<1> QED
  BY <1>1, <1>2, <1>3, <1>4 DEF ControlInv

LEMMA PlainStep ==
  ASSUME ControlInv, Register \/ LoadConstant \/ LoadIndirect \/ CbPrefix \/ IndexedCbPrefix \/ UndefinedEd
  PROVE  ControlInv'
<1>1. At(1) \in Address /\ At(2) \in Address /\ At(3) \in Address
  BY Constants DEF ControlInv
<1>2. /\ 4 \in Nat /\ 7 \in Nat /\ 8 \in Nat /\ 12 \in Nat /\ 15 \in Nat /\ 16 \in Nat /\ 19 \in Nat
  OBVIOUS
<1>3. CASE Register
  BY <1>1, <1>2, <1>3, PlainInv DEF Register
<1>4. CASE LoadConstant
  BY <1>1, <1>2, <1>4, PlainInv DEF LoadConstant
<1>5. CASE LoadIndirect
  BY <1>1, <1>2, <1>5, PlainInv DEF LoadIndirect
<1>6. CASE CbPrefix
  BY <1>1, <1>2, <1>6, PlainInv DEF CbPrefix
<1>7. CASE IndexedCbPrefix
  BY <1>1, <1>2, <1>7, PlainInv DEF IndexedCbPrefix
<1>8. CASE UndefinedEd
  BY <1>1, <1>2, <1>8, PlainInv DEF UndefinedEd
<1> QED
  BY <1>3, <1>4, <1>5, <1>6, <1>7, <1>8

(* What leaves the frames where they are, and their addresses.             *)
LEMMA SoiledHolds ==
  ASSUME ControlInv, Soil, UNCHANGED <<sp, stack>>
  PROVE  /\ StackHolds' /\ HandlersRunMasked'
         /\ frames' \in Seq(Frame) /\ Len(frames') = Len(frames)
<1>1. frames \in Seq(Frame)
  BY DEF ControlInv, TypeOK
<1> DEFINE gs == [i \in DOMAIN frames |-> [frames[i] EXCEPT !.clean = FALSE]]
           hs == [i \in DOMAIN frames |-> [frames[i] EXCEPT !.clean = @ /\ FALSE]]
<1>2. gs = hs
  OBVIOUS
<1>3. /\ SamePlaces(frames, hs)
      /\ \A i \in 1..Len(frames) : hs[i].clean = (frames[i].clean /\ FALSE)
  BY <1>1, Changing
<1>4. frames' = gs
  BY DEF Soil
<1> HIDE DEF gs, hs
<1>5. /\ SamePlaces(frames, frames')
      /\ \A i \in 1..Len(frames) : ~frames'[i].clean
  BY <1>2, <1>3, <1>4
<1>6. DOMAIN frames' = 1..Len(frames) /\ Len(frames') = Len(frames) /\ frames' \in Seq(Frame)
  BY <1>5, LenProperties DEF SamePlaces
<1>7. HandlersRunMasked'
  BY <1>5, <1>6 DEF HandlersRunMasked
<1>8. StackHolds'
  BY <1>5, <1>6 DEF ControlInv, StackHolds, SamePlaces
<1> QED
  BY <1>6, <1>7, <1>8

LEMMA EiDiStep ==
  ASSUME ControlInv, EiDi
  PROVE  ControlInv'
<1>1. At(1) \in Address /\ 0 \in Nat /\ Retire(0, At(1))
  BY Constants DEF ControlInv, EiDi
<1>2. /\ StackHolds' /\ HandlersRunMasked'
      /\ frames' \in Seq(Frame) /\ Len(frames') = Len(frames)
  BY SoiledHolds DEF EiDi
<1>3. iff1' \in BOOLEAN /\ iff2' \in BOOLEAN
  BY Zenon DEF EiDi, Running
<1>4. shadow' \in {"none", "plain", "prefixed"}
  BY DEF EiDi
<1>5. TypeOK'
  BY <1>1, <1>2, <1>3, <1>4, RetireType DEF ControlInv, TypeOK, EiDi
<1>6. Budgeted' /\ Shadowed'
  <2>1. phase' = "run" => left' > 0
    BY <1>1, RetireType DEF ControlInv
  <2>2. shadow' = "plain" => ~indexed
    BY DEF EiDi
  <2>3. phase = "run"
    BY DEF EiDi, Running
  <2>4. shadow' = "plain" => phase' = "run"
    BY <1>1, <2>2, <2>3, RetireType DEF ControlInv, Budgeted
  <2> QED
    BY <2>1, <2>4 DEF Budgeted, Shadowed
<1> QED
  BY <1>2, <1>5, <1>6 DEF ControlInv

LEMMA HaltStep ==
  ASSUME ControlInv, Halt
  PROVE  ControlInv'
<1>1. At(1) \in Address
  BY Constants DEF ControlInv
<1>2. indexed' \in BOOLEAN
  BY DEF Halt
<1>3. TypeOK'
  BY <1>1, <1>2 DEF ControlInv, TypeOK, Halt, flipflops
<1>4. HandlersRunMasked' /\ StackHolds'
  BY DEF ControlInv, HandlersRunMasked, StackHolds, Halt, flipflops
<1>5. Budgeted' /\ Shadowed'
  BY DEF Halt, Budgeted, Shadowed
<1> QED
  BY <1>3, <1>4, <1>5 DEF ControlInv

LEMMA DdPrefixStep ==
  ASSUME ControlInv, DdPrefix
  PROVE  ControlInv'
<1>1. At(1) \in Address
  BY Constants DEF ControlInv
<1>2. left' \in Nat /\ indexed' \in BOOLEAN /\ indexed'
  BY DEF ControlInv, TypeOK, DdPrefix, Spend
<1>3. TypeOK'
  BY <1>1, <1>2 DEF ControlInv, TypeOK, DdPrefix, flipflops
<1>4. HandlersRunMasked' /\ StackHolds'
  BY DEF ControlInv, HandlersRunMasked, StackHolds, DdPrefix, flipflops
<1>5. Budgeted' /\ Shadowed'
  BY <1>2 DEF ControlInv, DdPrefix, Budgeted, Shadowed
<1> QED
  BY <1>3, <1>4, <1>5 DEF ControlInv

LEMMA InterruptModeStep ==
  ASSUME ControlInv, InterruptMode
  PROVE  ControlInv'
<1>1. At(2) \in Address /\ 8 \in Nat /\ Retire(8, At(2))
  BY Constants DEF ControlInv, InterruptMode
<1>2. TypeOK'
  BY <1>1, RetireType DEF ControlInv, TypeOK, InterruptMode
<1>3. HandlersRunMasked' /\ StackHolds'
  BY DEF ControlInv, HandlersRunMasked, StackHolds, InterruptMode
<1>4. Budgeted' /\ Shadowed'
  BY <1>1, RetireType DEF ControlInv, InterruptMode, Budgeted, Shadowed
<1> QED
  BY <1>2, <1>3, <1>4 DEF ControlInv

LEMMA Z80EmulateStep ==
  ASSUME ControlInv, NEW n \in Budgets, Z80Emulate(n)
  PROVE  ControlInv'
<1>1. n \in Nat /\ n > 0
  BY ControlAssumption
<1>2. TypeOK'
  BY <1>1 DEF ControlInv, TypeOK, Z80Emulate, flipflops
<1>3. HandlersRunMasked' /\ StackHolds'
  BY DEF ControlInv, HandlersRunMasked, StackHolds, Z80Emulate, flipflops
<1>4. Budgeted' /\ Shadowed'
  BY <1>1 DEF Z80Emulate, Budgeted, Shadowed
<1> QED
  BY <1>2, <1>3, <1>4 DEF ControlInv
(* The frames below a call or a return stand for handlers as before.       *)
LEMMA RstStep ==
  ASSUME ControlInv, Rst
  PROVE  ControlInv'
<1>1. /\ At(1) \in Address /\ RstVector \in Address /\ 11 \in Nat
      /\ Retire(11, RstVector) /\ Push(At(1)) /\ Entered("call", At(1)) /\ TypeOK
  BY Constants DEF ControlInv, Rst
<1>2. StackHolds' /\ sp' \in 0..StackWords-1 /\ stack' \in [0..StackWords-1 -> Address]
  BY <1>1, PushHolds
<1>3. /\ frames' \in Seq(Frame) /\ Len(frames') \in 1..StackWords
      /\ Len(frames') <= Len(frames) + 1
      /\ frames'[Len(frames')] = [kind |-> "call", pc |-> At(1), iff |-> iff1, clean |-> TRUE]
  BY <1>1, Entering
<1>4. \A i \in 1..Len(frames')-1 : KeepsDistance(i, i + (Len(frames) + 1 - Len(frames')), "call")
  BY <1>1, Entering
<1>5. HandlersRunMasked'
  <2>1. SUFFICES ASSUME NEW i \in 1..Len(frames'), frames'[i].clean, frames'[i].kind # "call"
                 PROVE  ~iff1' /\ (frames'[i].kind = "nmi" => iff2' = frames'[i].iff)
    BY <1>3, LenProperties DEF HandlersRunMasked
  <2>2. i \in 1..Len(frames')-1
    BY <1>3, <2>1
  <2>3. PICK j \in 1..Len(frames) :
          frames[j].clean /\ frames[j].kind = frames'[i].kind /\ frames[j].iff = frames'[i].iff
    BY <1>4, <2>1, <2>2 DEF KeepsDistance
  <2>4. DOMAIN frames = 1..Len(frames)
    BY <1>1, LenProperties DEF TypeOK
  <2> QED
    BY <2>1, <2>3, <2>4 DEF ControlInv, HandlersRunMasked, Rst, flipflops
<1>6. TypeOK'
  BY <1>1, <1>2, <1>3, RetireType DEF TypeOK, Rst, flipflops
<1>7. Budgeted' /\ Shadowed'
  BY <1>1, RetireType DEF Rst, Budgeted, Shadowed
<1> QED
  BY <1>2, <1>5, <1>6, <1>7 DEF ControlInv

LEMMA RetStep ==
  ASSUME ControlInv, Ret
  PROVE  ControlInv'
<1>1. /\ TypeOK /\ stack[sp] \in Address /\ 10 \in Nat /\ Retire(10, stack[sp])
      /\ sp' = (sp + 1) % StackWords /\ stack' = stack /\ frames' = Dropped(frames)
      /\ frames \in Seq(Frame) /\ Len(frames) \in 0..StackWords /\ StackWords \in Nat
  BY Constants, LenProperties DEF ControlInv, TypeOK, Ret, Pop
<1>2. /\ frames' \in Seq(Frame) /\ Len(frames') <= StackWords
      /\ \A i \in 1..Len(frames') : i \in 1..Len(frames) /\ frames'[i] = frames[i]
  <2>1. Len(frames') = IF frames = <<>> THEN 0 ELSE Len(frames) - 1
    BY <1>1, Dropping
  <2> QED
    BY <1>1, <2>1, Dropping
<1>3. StackHolds' /\ sp' \in 0..StackWords-1
  BY <1>1, <1>2, PopHolds DEF SamePlaces
<1>4. HandlersRunMasked'
  <2>1. DOMAIN frames = 1..Len(frames) /\ DOMAIN frames' = 1..Len(frames')
    BY <1>1, <1>2, LenProperties
  <2> QED
    BY <1>2, <2>1 DEF ControlInv, HandlersRunMasked, Ret, flipflops
<1>5. TypeOK'
  BY <1>1, <1>2, <1>3, RetireType DEF TypeOK, Ret, Pop, flipflops
<1>6. Budgeted' /\ Shadowed'
  BY <1>1, RetireType DEF Ret, Pop, Budgeted, Shadowed
<1> QED
  BY <1>3, <1>4, <1>5, <1>6 DEF ControlInv

LEMMA RetnStep ==
  ASSUME ControlInv, Retn
  PROVE  ControlInv'
<1> DEFINE fs == Dropped(frames)
           gs == [i \in DOMAIN fs |-> [frames[i] EXCEPT !.clean = FALSE]]
           hs == [i \in DOMAIN fs |-> [fs[i] EXCEPT !.clean = @ /\ FALSE]]
<1>1. /\ TypeOK /\ stack[sp] \in Address /\ 14 \in Nat /\ Retire(14, stack[sp])
      /\ sp' = (sp + 1) % StackWords /\ stack' = stack
      /\ frames \in Seq(Frame) /\ Len(frames) \in 0..StackWords /\ StackWords \in Nat
  BY Constants, LenProperties DEF ControlInv, TypeOK, Retn, Pop
<1>2. /\ fs \in Seq(Frame) /\ Len(fs) \in Nat /\ Len(fs) <= StackWords /\ DOMAIN fs = 1..Len(fs)
      /\ \A i \in 1..Len(fs) : fs[i] = frames[i]
  <2>1. Len(fs) = IF frames = <<>> THEN 0 ELSE Len(frames) - 1
    BY <1>1, Dropping
  <2> QED
    BY <1>1, <2>1, Dropping, LenProperties
<1>3. gs = hs
  BY <1>2
<1>4. /\ SamePlaces(fs, hs)
      /\ \A i \in 1..Len(fs) : hs[i].clean = (fs[i].clean /\ FALSE)
  BY <1>2, Changing
<1>5. frames' = gs
  BY DEF Retn
<1> HIDE DEF gs, hs
<1>6. SamePlaces(fs, frames') /\ \A i \in 1..Len(fs) : ~frames'[i].clean
  BY <1>3, <1>4, <1>5
<1>7. /\ DOMAIN frames' = 1..Len(frames') /\ Len(frames') = Len(fs)
      /\ frames' \in Seq(Frame) /\ Len(frames') <= StackWords
  BY <1>2, <1>6, LenProperties DEF SamePlaces
<1>8. StackHolds' /\ sp' \in 0..StackWords-1
  BY <1>1, <1>6, PopHolds
<1>9. HandlersRunMasked'
  BY <1>6, <1>7 DEF HandlersRunMasked
<1>10. TypeOK'
  <2>1. iff1' \in BOOLEAN /\ iff2' \in BOOLEAN
    BY <1>1, Zenon DEF TypeOK, Retn
  <2> QED
    BY <1>1, <1>7, <1>8, <2>1, RetireType DEF TypeOK, Retn, Pop
<1>11. Budgeted' /\ Shadowed'
  BY <1>1, RetireType DEF Retn, Pop, Budgeted, Shadowed
<1> QED
  BY <1>8, <1>9, <1>10, <1>11 DEF ControlInv

(* An interrupt of either kind: the frames before it no longer count, and  *)
(* its own is the only one whose handler has just begun.                   *)
LEMMA InterruptingStep ==
  ASSUME ControlInv, NEW kind \in {"interrupt", "nmi"}, NEW a \in Address,
         phase = "stopped", Push(pc), Entered(kind, pc), pc' = a,
         iff1' = FALSE, iff2' \in BOOLEAN, kind = "nmi" => iff2' = iff1,
         shadow' = "none", UNCHANGED <<program, phase, indexed, left, im>>
  PROVE  ControlInv'
<1>1. TypeOK /\ pc \in Address /\ kind \in {"call", "interrupt", "nmi"}
  BY DEF ControlInv, TypeOK
<1>2. StackHolds' /\ sp' \in 0..StackWords-1 /\ stack' \in [0..StackWords-1 -> Address]
  BY <1>1, PushHolds
<1>3. /\ frames' \in Seq(Frame) /\ Len(frames') \in 1..StackWords
      /\ frames'[Len(frames')] = [kind |-> kind, pc |-> pc, iff |-> iff1, clean |-> TRUE]
  BY <1>1, Entering
<1>4. \A i \in 1..Len(frames')-1 : KeepsDistance(i, i + (Len(frames) + 1 - Len(frames')), kind)
  BY <1>1, Entering
<1>5. HandlersRunMasked'
  <2>1. SUFFICES ASSUME NEW i \in 1..Len(frames'), frames'[i].clean
                 PROVE  ~iff1' /\ (frames'[i].kind = "nmi" => iff2' = frames'[i].iff)
    BY <1>3, LenProperties DEF HandlersRunMasked
  <2>2. i = Len(frames')
    <3>1. i \in 1..Len(frames')-1 => ~frames'[i].clean
      BY <1>4 DEF KeepsDistance
    <3> QED
      BY <1>3, <2>1, <3>1
  <2>3. frames'[i].kind = kind /\ frames'[i].iff = iff1
    BY <1>3, <2>2
  <2> QED
    BY <2>3
<1>6. TypeOK'
  <2>1. iff1' \in BOOLEAN
    OBVIOUS
  <2> QED
    BY <1>1, <1>2, <1>3, <2>1 DEF TypeOK
<1>7. Budgeted' /\ Shadowed'
  BY DEF Budgeted, Shadowed
<1> QED
  BY <1>2, <1>5, <1>6, <1>7 DEF ControlInv

LEMMA NextInv ==
  ASSUME ControlInv, [Next]_vars
  PROVE  ControlInv'
<1>1. CASE \E n \in Budgets : Z80Emulate(n)
  BY <1>1, Z80EmulateStep
<1>2. CASE Instruction
  <2>1. CASE Register \/ LoadConstant \/ LoadIndirect \/ CbPrefix \/ IndexedCbPrefix \/ UndefinedEd
    BY <2>1, PlainStep
  <2>2. CASE EiDi \/ Halt \/ Rst
    BY <2>2, EiDiStep, HaltStep, RstStep
  <2>3. CASE Ret \/ Retn
    BY <2>3, RetStep, RetnStep
  <2>4. CASE DdPrefix \/ InterruptMode
    BY <2>4, DdPrefixStep, InterruptModeStep
  <2> QED
    BY <1>2, <2>1, <2>2, <2>3, <2>4 DEF Instruction
<1>3. CASE Z80Interrupt
  <2>1. Vector \in Address
    BY Constants DEF ControlInv
  <2>2. iff2' \in BOOLEAN /\ iff1' = FALSE
    BY <1>3 DEF Z80Interrupt
  <2> QED
    BY <1>3, <2>1, <2>2, InterruptingStep DEF Z80Interrupt
<1>4. CASE Z80NonMaskableInterrupt
  <2>1. NmiVector \in Address
    BY Constants
  <2>2. iff2' \in BOOLEAN /\ iff1' = FALSE /\ iff2' = iff1
    BY <1>4, Zenon DEF ControlInv, TypeOK, Z80NonMaskableInterrupt
  <2> QED
    BY <1>4, <2>1, <2>2, InterruptingStep DEF Z80NonMaskableInterrupt
<1>5. CASE UNCHANGED vars
  BY <1>5 DEF vars, flipflops, ControlInv, TypeOK, HandlersRunMasked, Budgeted, Shadowed, StackHolds
<1> QED
  BY <1>1, <1>2, <1>3, <1>4, <1>5 DEF Next
-----------------------------------------------------------------------------
(* The theorems. *)

(* Type correctness, masked handlers, cycles left before every opcode, no  *)
(* end of the loop after EI or DI, and a stack that agrees with the history *)
(* of calls and interrupts, always.                                        *)
THEOREM ControlInvariant == Spec => []ControlInv
<1>1. Init => ControlInv
  BY InitInv
<1>2. ControlInv /\ [Next]_vars => ControlInv'
  BY NextInv
<1> QED
  BY <1>1, <1>2, PTL DEF Spec

(* pc, the stack pointer and the budget stay in their ranges, whatever the *)
(* program does.                                                           *)
THEOREM TypeCorrect == Spec => []TypeOK
<1>1. ControlInv => TypeOK
  BY DEF ControlInv
<1> QED
  BY <1>1, ControlInvariant, PTL

(* The handler of an interrupt or NMI runs with interrupts disabled until  *)
(* it changes that itself: Z80Interrupt and Z80NonMaskableInterrupt.       *)
THEOREM HandlersMasked == Spec => []HandlersRunMasked
<1>1. ControlInv => HandlersRunMasked
  BY DEF ControlInv
<1> QED
  BY <1>1, ControlInvariant, PTL

(* No interrupt comes between an EI or DI and the instruction after it:    *)
(* the cycles they give back keep Z80Emulate in its loop.                  *)
THEOREM EiShadowKept == Spec => EiShadow
<1>1. ControlInv /\ [Next]_vars => [Z80Interrupt => shadow # "plain"]_vars
  BY DEF ControlInv, Shadowed, Z80Interrupt
<1> QED
  BY <1>1, ControlInvariant, PTL DEF Spec, EiShadow

(* RET and RETN resume at the instruction that was next when the last call *)
(* or interrupt came, and RETN brings back what an NMI saved.              *)
THEOREM ReturnsResumed == Spec => ReturnsResume
<1> DEFINE last == frames[Len(frames)]
           Resumes == (Ret \/ Retn) /\ frames # <<>> =>
                        /\ pc' = last.pc
                        /\ Retn /\ last.kind = "nmi" /\ last.clean => iff1' = last.iff
<1>1. ASSUME ControlInv, Ret \/ Retn, frames # <<>>
      PROVE  /\ pc' = last.pc
             /\ Retn /\ last.kind = "nmi" /\ last.clean => iff1' = last.iff
  <2>1. /\ StackWords \in Nat \ {0} /\ sp \in 0..StackWords-1 /\ frames \in Seq(Frame)
    BY <1>1, Constants DEF ControlInv, TypeOK
  <2>2. Len(frames) \in 1..Len(frames) /\ Len(frames) \in DOMAIN frames
    BY <1>1, <2>1, EmptySeq, LenProperties
  <2>3. pc' = stack[sp]
    BY <1>1 DEF Ret, Retn, Pop, Retire
  <2>4. (sp + (Len(frames) - Len(frames))) % StackWords = sp
    BY <2>1, <2>2
  <2>5. pc' = last.pc
    BY <1>1, <2>2, <2>3, <2>4 DEF ControlInv, StackHolds
  <2>6. ASSUME Retn, last.kind = "nmi", last.clean
        PROVE  iff1' = last.iff
    <3>1. iff2 = last.iff
      BY <1>1, <2>2, <2>6 DEF ControlInv, HandlersRunMasked
    <3> QED
      BY <2>6, <3>1 DEF Retn
  <2> QED
    BY <2>5, <2>6
<1>2. ControlInv => [Resumes]_vars
  BY <1>1
<1> QED
  BY <1>2, ControlInvariant, PTL DEF ReturnsResume
=============================================================================
