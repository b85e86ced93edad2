------------------------------ MODULE BusProofs ------------------------------
(***************************************************************************)
(* The disk controller alone, under the BIOS and on the system bus with    *)
(* the other devices, for every guest, geometry, size of the socket table  *)
(* and behaviour of the peers.  First the disk: under every guest, type    *)
(* correctness and confinement of the writes; under the BIOS, that no      *)
(* request brings the emulator down, one drive at a time is busy, no byte  *)
(* outside memory is written, and the controller implements SectorStore.   *)
(* Then the bus: the readings of the clock, the bytes of memory that a     *)
(* network command may change, what the guest learns from its block, and   *)
(* the order of the bytes received.                                        *)
(***************************************************************************)
EXTENDS SystemBus, DiskBios, SequenceTheorems, WellFoundedInduction, TLAPS

-----------------------------------------------------------------------------
(* Arithmetic of byte and sector addresses. *)

(* Division and remainder by a positive number. *)
LEMMA Division ==
  ASSUME NEW n \in Int, NEW b \in Nat \ {0}
  PROVE  /\ n \div b \in Int
         /\ n % b \in 0..b-1
         /\ n = b * (n \div b) + (n % b)
OBVIOUS

(* Two bytes make an address. *)
LEMMA TwoDigits ==
  ASSUME NEW q \in Nat, NEW b \in Nat, NEW r \in 0..b-1, q < b
  PROVE  q * b + r \in 0..b*b-1
<1>1. q * b + b <= b * b
  OBVIOUS
<1>2. q * b \in Nat /\ b * b \in Nat
  OBVIOUS
<1> QED
  BY <1>1, <1>2

(* The high byte of an address is a byte. *)
LEMMA HighDigit ==
  ASSUME NEW b \in Nat \ {0}, NEW n \in 0..b*b-1
  PROVE  n \div b \in 0..b-1
<1>1. n \in Nat
  OBVIOUS
<1>2. PICK q \in Int : q = n \div b /\ n = b * q + (n % b) /\ n % b \in 0..b-1
  <2>1. n \div b \in Int /\ n = b * (n \div b) + (n % b) /\ n % b \in 0..b-1
    BY <1>1, Division
  <2> QED
    BY <2>1
<1>3. q >= 0
  <2>1. SUFFICES ASSUME q <= -1 PROVE FALSE
    BY <1>2
  <2>2. b * q <= -b
    BY <2>1
  <2> QED
    BY <1>1, <1>2, <2>2
<1>4. q < b
  <2>1. SUFFICES ASSUME q >= b PROVE FALSE
    BY <1>2
  <2>2. b * q >= b * b
    BY <2>1
  <2> QED
    BY <1>2, <2>2
<1> QED
  BY <1>2, <1>3, <1>4

(* A product of naturals is a natural; of positive ones, positive. *)
LEMMA Products ==
  ASSUME NEW m \in Nat, NEW n \in Nat
  PROVE  m * n \in Nat /\ (m > 0 /\ n > 0 => m * n >= n)
OBVIOUS

(* Factors cancel. *)
LEMMA Cancel ==
  ASSUME NEW i \in Int, NEW j \in Int, NEW s \in Nat \ {0}, i * s <= j * s
  PROVE  i <= j
<1>1. SUFFICES ASSUME i >= j + 1 PROVE FALSE
  OBVIOUS
<1>2. i * s >= j * s + s
  BY <1>1
<1> QED
  BY <1>2

(* A multiple of s stays one modulo a multiple of s. *)
LEMMA AlignedRemainder ==
  ASSUME NEW i \in Int, NEW s \in Nat \ {0}, NEW m \in Nat \ {0}, m % s = 0
  PROVE  \E k \in Nat : (i * s) % m = k * s
<1>1. i * s \in Int
  OBVIOUS
<1>2. PICK q \in Int : i * s = m * q + ((i * s) % m)
  BY <1>1, Division
<1>3. PICK p \in Int : m = s * p
  <2>1. m \div s \in Int /\ m = s * (m \div s) + (m % s)
    BY Division
  <2> QED
    BY <2>1
<1>4. (i * s) % m \in 0..m-1
  BY <1>1, Division
<1>5. (i * s) % m = (i - p * q) * s
  <2>1. m * q = (p * q) * s
    BY <1>3
  <2> QED
    BY <1>2, <2>1, <1>4
<1>6. i - p * q >= 0
  <2>1. SUFFICES ASSUME i - p * q <= -1 PROVE FALSE
    OBVIOUS
  <2>2. (i - p * q) * s <= -s
    BY <2>1
  <2> QED
    BY <1>4, <1>5, <2>2
<1> QED
  BY <1>5, <1>6

-----------------------------------------------------------------------------
(* The constants. *)

LEMMA Sizes ==
  /\ MemSize \in Nat /\ MemSize > 0
  /\ 0 \in RegA
  /\ \A d \in Present : Size(d) \in Nat
<1>1. MemSize \in Nat /\ MemSize > 0
  BY SizesAssumption, Products DEF MemSize
<1>2. ASSUME NEW d \in Present PROVE Size(d) \in Nat
  <2>1. Tracks[d] \in Nat /\ Spt[d] \in Nat /\ SectorSize \in Nat
    BY DrivesAssumption, SizesAssumption
  <2> QED
    BY <2>1, Products DEF Size
<1> QED
  BY <1>1, <1>2, SizesAssumption DEF RegA

(* The position of a transfer is a byte position. *)
LEMMA PosNat ==
  ASSUME TypeOK, current_drive_id \in Present
  PROVE  SectorIndex(current_drive_id) \in Int /\ Pos(current_drive_id) \in Nat
<1> DEFINE d == current_drive_id
<1>1. selected_track[d] \in Nat /\ selected_sector[d] \in Nat /\ Spt[d] \in Nat
  BY DrivesAssumption, SizesAssumption DEF TypeOK, RegA
<1>2. SectorIndex(d) \in Int
  BY <1>1, Products DEF SectorIndex
<1>3. SectorIndex(d) * SectorSize \in Int
  BY <1>2, SizesAssumption
<1>4. Pos(d) \in 0..PosBase-1
  BY <1>3, SizesAssumption, Division DEF Pos
<1> QED
  BY <1>2, <1>4, SizesAssumption

(* A copy to memory within the limits of the image keeps memory's type. *)
LEMMA LoadMemoryType ==
  ASSUME TypeOK, NEW d \in Present, NEW a \in Int, NEW p \in Nat, NEW n \in Nat,
         InLimits(d, p, n), LoadMemory(d, a, p, n)
  PROVE  memory' \in [Cell -> Byte]
<1>1. SUFFICES ASSUME NEW c \in Cell, c \in a..a+n-1
               PROVE  backingstore[d][p + c - a] \in Byte
  BY DEF LoadMemory, TypeOK
<1>2. p + c - a \in StoreOffset(d)
  BY <1>1, Sizes, SizesAssumption DEF StoreOffset, InLimits, Cell
<1> QED
  BY <1>2 DEF TypeOK

(* A copy from an address of memory keeps the images' types. *)
LEMMA LoadStoreType ==
  ASSUME TypeOK, NEW d \in Present, NEW p \in Nat, LoadStore(d, DMA, p, SectorSize)
  PROVE  DOMAIN backingstore' = Present
         /\ \A e \in Present : backingstore'[e] \in [StoreOffset(e) -> Byte]
<1>1. DOMAIN backingstore' = Present
  BY DEF LoadStore, TypeOK
<1>2. ASSUME NEW e \in Present, e # d
      PROVE  backingstore'[e] \in [StoreOffset(e) -> Byte]
  BY <1>2 DEF LoadStore, TypeOK
<1>3. backingstore'[d] \in [StoreOffset(d) -> Byte]
  <2>1. backingstore'[d] = [o \in StoreOffset(d) |->
                              IF o \in p..p+SectorSize-1 THEN memory[DMA + o - p]
                                                         ELSE backingstore[d][o]]
    BY DEF LoadStore, TypeOK
  <2>2. ASSUME NEW o \in StoreOffset(d), o \in p..p+SectorSize-1
        PROVE  memory[DMA + o - p] \in Byte
    <3>1. DMA + o - p \in Cell
      BY <2>2, Sizes, SizesAssumption DEF StoreOffset, Cell, TypeOK, Address
    <3> QED
      BY <3>1 DEF TypeOK
  <2>3. \A o \in StoreOffset(d) : backingstore[d][o] \in Byte
    BY DEF TypeOK
  <2> QED
    BY <2>1, <2>2, <2>3
<1> QED
  BY <1>1, <1>2, <1>3

-----------------------------------------------------------------------------
(* Type correctness. *)

LEMMA InitType == Init => TypeOK
BY SizesAssumption, DrivesAssumption, DataAssumption, Sizes
   DEF Init, TypeOK, Address

LEMMA NextType == TypeOK /\ [Next]_vars => TypeOK'
<1> SUFFICES ASSUME TypeOK, [Next]_vars PROVE TypeOK'
  OBVIOUS
<1> USE DEF controls, data
<1>1. CASE Bootloader
  <2>1. CASE InLimits(0, 0, 2 * SectorSize)
    <3>1. 0 \in Present /\ 2 * SectorSize \in Nat
      BY <2>1, SizesAssumption DEF InLimits
    <3>2. memory' \in [Cell -> Byte]
      BY <1>1, <2>1, <3>1, LoadMemoryType DEF Bootloader
    <3> QED
      BY <1>1, <3>2 DEF Bootloader, Assert, TypeOK
  <2>2. CASE ~InLimits(0, 0, 2 * SectorSize)
    BY <1>1, <2>2 DEF Bootloader, Assert, TypeOK
  <2> QED
    BY <2>1, <2>2
<1>2. CASE LoadTestProgram
  BY <1>2 DEF LoadTestProgram, TypeOK
<1>3. ASSUME NEW a \in DriveBytes, SelectDrive(a) PROVE TypeOK'
  BY <1>3, GuestAssumption DEF SelectDrive, Assert, TypeOK
<1>4. ASSUME NEW a \in TrackBytes, SelectTrack(a) PROVE TypeOK'
  BY <1>4, GuestAssumption DEF SelectTrack, Assert, TypeOK
<1>5. ASSUME NEW a \in SectorBytes, SelectSector(a) PROVE TypeOK'
  BY <1>5, GuestAssumption DEF SelectSector, Assert, TypeOK
<1>6. ASSUME NEW a \in DmaLowBytes, SetDmaLow(a) PROVE TypeOK'
  <2>1. DMA \div ByteBase \in 0..ByteBase-1
    <3>1. ByteBase \in Nat \ {0} /\ DMA \in 0..ByteBase*ByteBase-1
      BY SizesAssumption DEF TypeOK, Address, MemSize
    <3> QED
      BY <3>1, HighDigit
  <2>2. a \in 0..ByteBase-1
    BY GuestAssumption DEF RegA
  <2>3. DMA' \in Address
    BY <1>6, <2>1, <2>2, SizesAssumption, TwoDigits DEF SetDmaLow, Address, MemSize
  <2> QED
    BY <1>6, <2>3 DEF SetDmaLow, TypeOK
<1>7. ASSUME NEW a \in DmaHighBytes, SetDmaHigh(a) PROVE TypeOK'
  <2>1. DMA % ByteBase \in 0..ByteBase-1
    <3>1. DMA \in Int /\ ByteBase \in Nat \ {0}
      BY SizesAssumption, Sizes DEF TypeOK, Address
    <3> QED
      BY <3>1, Division
  <2>2. a \in 0..ByteBase-1
    BY GuestAssumption DEF RegA
  <2>3. a * ByteBase + (DMA % ByteBase) \in Address
    BY <2>1, <2>2, SizesAssumption, TwoDigits DEF Address, MemSize
  <2>4. DMA' \in Address
    <3>1. a * ByteBase \in Int
      BY <2>2, SizesAssumption, Products
    <3> QED
      BY <1>7, <2>1, <2>3, <3>1 DEF SetDmaHigh
  <2> QED
    BY <1>7, <2>4 DEF SetDmaHigh, TypeOK
<1>8. CASE ReadSector
  <2>1. memory' \in [Cell -> Byte]
    <3>1. current_drive_id \in Present /\ Pos(current_drive_id) \in Nat /\ DMA \in Int
      BY <1>8, PosNat DEF ReadSector, Transferable, TypeOK, Address
    <3> QED
      BY <1>8, <3>1, LoadMemoryType, SizesAssumption DEF ReadSector, Transferable
  <2> QED
    BY <1>8, <2>1, SizesAssumption DEF ReadSector, StartTransfer, TypeOK
<1>9. CASE WriteSector
  <2>1. current_drive_id \in Present /\ Pos(current_drive_id) \in Nat
    BY <1>9, PosNat DEF WriteSector, Transferable
  <2>2. DOMAIN backingstore' = Present
        /\ \A e \in Present : backingstore'[e] \in [StoreOffset(e) -> Byte]
    BY <1>9, <2>1, LoadStoreType DEF WriteSector
  <2> QED
    BY <1>9, <2>2, SizesAssumption DEF WriteSector, StartTransfer, TypeOK
<1>10. CASE FailedTransfer
  BY <1>10 DEF FailedTransfer, StartTransfer, TypeOK
<1>11. CASE UnsupportedOperation
  BY <1>11 DEF UnsupportedOperation, TypeOK
<1>12. CASE Acknowledge
  BY <1>12 DEF Acknowledge, Assert, TypeOK
<1>13. ASSUME NEW st \in Stores, CpuStore(st[1], st[2]) PROVE TypeOK'
  <2>1. st[1] \in Address /\ st[2] \in Byte
    BY DataAssumption
  <2> QED
    BY <1>13, <2>1 DEF CpuStore, TypeOK
<1>14. CASE UNCHANGED vars
  BY <1>14 DEF vars, TypeOK
<1> QED
  BY <1>1, <1>2, <1>3, <1>4, <1>5, <1>6, <1>7, <1>8, <1>9, <1>10, <1>11, <1>12,
     <1>13, <1>14 DEF Next, Start

(* Whatever the guest does, every variable keeps the type the code gives   *)
(* it: in particular DMA stays a 16-bit address, the images keep their     *)
(* size, and a transfer copies whole bytes that exist.                     *)
THEOREM TypeCorrect == Spec => []TypeOK
BY InitType, NextType, PTL DEF Spec

-----------------------------------------------------------------------------
(* Confinement. *)

(* A transfer within the limits covers one whole sector of the image.      *)
LEMMA PosAligned ==
  ASSUME TypeOK, Transferable
  PROVE  \E k \in 0..Tracks[current_drive_id]*Spt[current_drive_id]-1 :
           Pos(current_drive_id) = k * SectorSize
<1> DEFINE d == current_drive_id
           sectors == Tracks[d] * Spt[d]
<1>1. d \in Present /\ Pos(d) + SectorSize <= Size(d)
  BY DEF Transferable, InLimits
<1>2. SectorIndex(d) \in Int
  BY <1>1, PosNat
<1>3. PICK k \in Nat : Pos(d) = k * SectorSize
  <2>1. \E k \in Nat : (SectorIndex(d) * SectorSize) % PosBase = k * SectorSize
    BY <1>2, SizesAssumption, AlignedRemainder
  <2> QED
    BY <2>1 DEF Pos
<1>4. sectors \in Nat
  BY <1>1, DrivesAssumption, Products
<1>5. k + 1 <= sectors
  <2>1. (k + 1) * SectorSize = k * SectorSize + SectorSize
    BY <1>3, SizesAssumption
  <2>2. (k + 1) * SectorSize <= sectors * SectorSize
    BY <1>1, <1>3, <2>1 DEF Size
  <2> QED
    BY <1>3, <1>4, <2>2, SizesAssumption, Cancel
<1> QED
  BY <1>3, <1>4, <1>5

(* The images change in a WriteSector only. *)
LEMMA OnlyWriteSectorWrites ==
  ASSUME [Next]_vars, backingstore' # backingstore
  PROVE  WriteSector
BY DEF Next, vars, Start, Bootloader, LoadTestProgram, SelectDrive, SelectTrack,
       SelectSector, SetDmaLow, SetDmaHigh, ReadSector, FailedTransfer,
       UnsupportedOperation, Acknowledge, CpuStore, data

LEMMA WriteConfined ==
  ASSUME TypeOK, WriteSector
  PROVE  \A d \in Present : backingstore'[d] # backingstore[d] =>
           /\ d = current_drive_id
           /\ memory' = memory
           /\ \E k \in 0..Tracks[d]*Spt[d]-1 :
                \A o \in StoreOffset(d) \ SectorBytesOf(k) :
                  backingstore'[d][o] = backingstore[d][o]
<1> DEFINE c == current_drive_id
<1>1. c \in Present /\ memory' = memory
      /\ LoadStore(c, DMA, Pos(c), SectorSize)
  BY DEF WriteSector, Transferable
<1>2. ASSUME NEW d \in Present, d # c PROVE backingstore'[d] = backingstore[d]
  BY <1>1, <1>2 DEF LoadStore, TypeOK
<1>3. PICK k \in 0..Tracks[c]*Spt[c]-1 : Pos(c) = k * SectorSize
  BY PosAligned DEF WriteSector
<1>4. ASSUME NEW o \in StoreOffset(c) \ SectorBytesOf(k)
      PROVE  backingstore'[c][o] = backingstore[c][o]
  <2>1. o \notin Pos(c)..Pos(c)+SectorSize-1
    BY <1>3, <1>4 DEF SectorBytesOf
  <2> QED
    BY <1>1, <2>1 DEF LoadStore, TypeOK
<1> QED
  BY <1>1, <1>2, <1>3, <1>4

(* Whatever the guest puts in the drive, track, sector and DMA registers,  *)
(* a write changes one whole aligned sector of the drive it is for, and    *)
(* nothing else.                                                           *)
THEOREM WritesConfined == Spec => StoreConfined
<1>1. TypeOK /\ [Next]_vars =>
        [\A d \in Present : backingstore'[d] # backingstore[d] =>
           /\ d = current_drive_id
           /\ memory' = memory
           /\ \E k \in 0..Tracks[d]*Spt[d]-1 :
                \A o \in StoreOffset(d) \ SectorBytesOf(k) :
                  backingstore'[d][o] = backingstore[d][o]]_vars
  BY OnlyWriteSectorWrites, WriteConfined
<1> QED
  BY <1>1, TypeCorrect, PTL DEF Spec, StoreConfined

-----------------------------------------------------------------------------
(* Under the BIOS. *)

(* A run under the BIOS is a run of the controller.                        *)
LEMMA BiosStep == [BiosNext]_biosVars => [Next]_vars
BY DEF BiosNext, biosVars, Seldsk, Settrk, Setsec, SetdmaLow, SetdmaHigh, BiosTransfer,
       CpuStores, Next, Start

THEOREM BiosIsGuest == BiosSpec => Spec
BY BiosStep, PTL DEF BiosSpec, Spec, BiosInit

(* Every variable of a run under the BIOS keeps its type.                  *)
THEOREM BiosTypeCorrect == BiosSpec => []BiosTypeOK
<1>1. BiosInit => BiosTypeOK
  BY InitType DEF BiosInit, BiosTypeOK
<1>2. BiosTypeOK /\ [BiosNext]_biosVars => BiosTypeOK'
  <2>1. BiosTypeOK /\ [BiosNext]_biosVars => TypeOK'
    BY BiosStep, NextType DEF BiosTypeOK
  <2>2. BiosTypeOK /\ [BiosNext]_biosVars => bios' \in {"idle", "dma", "ack"}
    BY DEF BiosTypeOK, BiosNext, biosVars
  <2> QED
    BY <2>1, <2>2 DEF BiosTypeOK
<1> QED
  BY <1>1, <1>2, PTL DEF BiosSpec

-----------------------------------------------------------------------------
(* A sector of the geometry is on the image. *)
LEMMA LegalIndex ==
  ASSUME NEW t \in Nat, NEW n \in Nat, NEW T \in Nat, NEW S \in Nat, t < T, n \in 1..S
  PROVE  t * S + n - 1 \in 0..T*S-1
<1>1. (t + 1) * S <= T * S
  OBVIOUS
<1>2. (t + 1) * S = t * S + S
  OBVIOUS
<1> QED
  BY <1>1, <1>2, Products

LEMMA LegalPos ==
  ASSUME TypeOK, LegalRequest
  PROVE  /\ SectorIndex(current_drive_id)
              \in 0..Tracks[current_drive_id]*Spt[current_drive_id]-1
         /\ Pos(current_drive_id) = SectorIndex(current_drive_id) * SectorSize
         /\ Transferable
<1> DEFINE d == current_drive_id
           sectors == Tracks[d] * Spt[d]
           i == SectorIndex(d)
<1>1. d \in Present /\ Tracks[d] \in Nat /\ Spt[d] \in Nat /\ sectors \in Nat
  BY DrivesAssumption, Products DEF LegalRequest
<1>2. i \in 0..sectors-1
  <2>1. selected_track[d] \in Nat /\ selected_sector[d] \in 1..Spt[d]
        /\ selected_track[d] < Tracks[d]
    BY <1>1, DrivesAssumption, SizesAssumption DEF LegalRequest, TypeOK, RegA
  <2>2. selected_sector[d] \in Nat
    BY <1>1, <2>1
  <2>3. selected_track[d] * Spt[d] + selected_sector[d] - 1 \in 0..Tracks[d] * Spt[d] - 1
    BY <1>1, <2>1, <2>2, LegalIndex
  <2> QED
    BY <2>3 DEF SectorIndex
<1>3. i * SectorSize \in Nat /\ i * SectorSize + SectorSize <= Size(d)
  <2>1. (i + 1) * SectorSize <= sectors * SectorSize
    BY <1>1, <1>2, SizesAssumption
  <2>2. (i + 1) * SectorSize = i * SectorSize + SectorSize
    BY <1>2, SizesAssumption
  <2> QED
    BY <1>2, <2>1, <2>2, SizesAssumption, Products DEF Size
<1>4. Size(d) < PosBase /\ Size(d) \in Nat
  BY <1>1, GeometryAssumption, SizesAssumption, Sizes
<1>5. Pos(d) = i * SectorSize
  <2>1. i * SectorSize \in 0..PosBase-1
    BY <1>3, <1>4, SizesAssumption
  <2> QED
    BY <2>1, SizesAssumption DEF Pos
<1>6. Transferable
  BY <1>1, <1>3, <1>4, <1>5, SizesAssumption DEF Transferable, InLimits
<1> QED
  BY <1>2, <1>5, <1>6

(* Drive 0, if there is one, holds the boot loader.                        *)
LEMMA BootFits == 0 \in Present => InLimits(0, 0, 2 * SectorSize)
<1>1. SUFFICES ASSUME 0 \in Present PROVE InLimits(0, 0, 2 * SectorSize)
  OBVIOUS
<1>2. Tracks[0] \in Nat \ {0} /\ Spt[0] \in Nat /\ Spt[0] >= 2 /\ SectorSize \in Nat \ {0}
  BY <1>1, DrivesAssumption, SizesAssumption
<1>3. Tracks[0] * Spt[0] \in Nat /\ Tracks[0] * Spt[0] >= 2
  BY <1>2, Products
<1>4. Size(0) >= 2 * SectorSize
  BY <1>2, <1>3 DEF Size
<1> QED
  BY <1>1, <1>2, <1>4, Sizes DEF InLimits

-----------------------------------------------------------------------------
(* BiosNeverAborts and OnlyCurrentDriveBusy, made inductive: what keeps    *)
(* the asserts from failing is that the selected drive is one that exists, *)
(* and that an operation is in progress exactly on the drive that the BIOS *)
(* is about to acknowledge.                                                *)
BiosInv ==
  /\ BiosTypeOK
  /\ BiosNeverAborts
  /\ OnlyCurrentDriveBusy
  /\ 0 \in Present => current_drive_id \in Present
  /\ bios = "ack" => current_drive_id \in Present

LEMMA InitBiosInv == BiosInit => BiosInv
<1> SUFFICES ASSUME BiosInit PROVE BiosInv
  OBVIOUS
<1>1. BiosTypeOK
  BY InitType DEF BiosInit, BiosTypeOK
<1> QED
  BY <1>1 DEF BiosInit, Init, BiosInv, BiosNeverAborts, OnlyCurrentDriveBusy

LEMMA NextBiosInv == BiosInv /\ [BiosNext]_biosVars => BiosInv'
<1> SUFFICES ASSUME BiosInv, [BiosNext]_biosVars PROVE BiosInv'
  OBVIOUS
<1> USE DEF controls, data, At
<1>0. TypeOK /\ BiosTypeOK'
  <2>1. TypeOK'
    BY BiosStep, NextType DEF BiosInv, BiosTypeOK
  <2>2. bios' \in {"idle", "dma", "ack"}
    BY DEF BiosInv, BiosTypeOK, BiosNext, biosVars
  <2> QED
    BY <2>1, <2>2 DEF BiosInv, BiosTypeOK
<1> DEFINE Rest == /\ BiosNeverAborts
                   /\ OnlyCurrentDriveBusy
                   /\ 0 \in Present => current_drive_id \in Present
                   /\ bios = "ack" => current_drive_id \in Present
<1>a. Rest /\ io_in_progress \in [Slots -> BOOLEAN]
  BY <1>0 DEF BiosInv, TypeOK
<1> USE DEF BiosNeverAborts, OnlyCurrentDriveBusy
<1>1. CASE At("idle") /\ Bootloader /\ UNCHANGED bios
  BY <1>0, <1>a, <1>1, BootFits DEF Bootloader, Assert, BiosInv
<1>2. ASSUME At("idle"), UNCHANGED bios, NEW a \in DriveBytes \cap Present, SelectDrive(a)
      PROVE  BiosInv'
  BY <1>0, <1>a, <1>2 DEF SelectDrive, Assert, BiosInv
<1>3. ASSUME At("idle"), UNCHANGED bios, NEW a \in TrackBytes, SelectTrack(a)
      PROVE  BiosInv'
  BY <1>0, <1>a, <1>3 DEF SelectTrack, Assert, BiosInv
<1>4. ASSUME At("idle"), UNCHANGED bios, NEW a \in SectorBytes, SelectSector(a)
      PROVE  BiosInv'
  BY <1>0, <1>a, <1>4 DEF SelectSector, Assert, BiosInv
<1>5. ASSUME At("idle"), NEW a \in DmaLowBytes, SetDmaLow(a), bios' = "dma"
      PROVE  BiosInv'
  BY <1>0, <1>a, <1>5 DEF SetDmaLow, BiosInv
<1>6. ASSUME At("dma"), NEW a \in DmaHighBytes, SetDmaHigh(a), bios' = "idle"
      PROVE  BiosInv'
  BY <1>0, <1>a, <1>6 DEF SetDmaHigh, BiosInv
<1>7. CASE At("idle") /\ BiosTransfer /\ bios' = "ack"
  <2>1. current_drive_id \in Present /\ Transferable
    BY <1>0, <1>7, LegalPos DEF BiosTransfer, LegalRequest
  <2>2. StartTransfer /\ UNCHANGED status
    BY <1>7, <2>1 DEF BiosTransfer, ReadSector, WriteSector, FailedTransfer
  <2> QED
    BY <1>0, <1>a, <1>7, <2>1, <2>2 DEF StartTransfer, BiosInv
<1>8. CASE At("ack") /\ Acknowledge /\ bios' = "idle"
  <2>1. Acknowledgeable
    BY <1>0, <1>a, <1>8 DEF Acknowledgeable, TypeOK
  <2> QED
    BY <1>0, <1>a, <1>8, <2>1 DEF Acknowledge, Assert, BiosInv
<1>9. ASSUME At("idle"), UNCHANGED bios, NEW st \in Stores, CpuStore(st[1], st[2])
      PROVE  BiosInv'
  BY <1>0, <1>a, <1>9 DEF CpuStore, BiosInv
<1>10. CASE UNCHANGED biosVars
  BY <1>0, <1>a, <1>10 DEF biosVars, vars, BiosInv
<1> QED
  BY <1>1, <1>2, <1>3, <1>4, <1>5, <1>6, <1>7, <1>8, <1>9, <1>10
     DEF BiosNext, Seldsk, Settrk, Setsec, SetdmaLow, SetdmaHigh, CpuStores

THEOREM BiosInvariant == BiosSpec => []BiosInv
BY InitBiosInv, NextBiosInv, PTL DEF BiosSpec

(* No sequence of BIOS requests fails an assert of the controller.         *)
THEOREM BiosSafe == BiosSpec => []BiosNeverAborts
BY BiosInvariant, PTL DEF BiosInv

(* Only the drive the BIOS is about to acknowledge is ever busy.           *)
THEOREM OneDriveBusy == BiosSpec => []OnlyCurrentDriveBusy
BY BiosInvariant, PTL DEF BiosInv

-----------------------------------------------------------------------------
(* Nothing outside memory is written. *)

LEMMA NextOutside ==
  ASSUME BiosInv, OutsideMemoryUntouched, [BiosNext]_biosVars
  PROVE  OutsideMemoryUntouched'
<1> USE DEF controls, data, At
<1>0. SUFFICES ASSUME NEW c \in Cell \ Address PROVE memory'[c] = memory[c]
  BY DEF OutsideMemoryUntouched
<1>1. c >= MemSize /\ memory \in [Cell -> Byte] /\ DMA \in Int
  BY Sizes, SizesAssumption DEF Cell, Address, BiosInv, BiosTypeOK, TypeOK
<1>2. CASE Bootloader
  <2>1. c \notin 0..0+2*SectorSize-1
    BY <1>1, Sizes, SizesAssumption
  <2> QED
    BY <1>1, <1>2, <2>1 DEF Bootloader, LoadMemory
<1>3. CASE BiosTransfer
  <2>1. c \notin DMA..DMA+SectorSize-1
    BY <1>1, <1>3, Sizes, SizesAssumption DEF BiosTransfer, LegalRequest
  <2> QED
    BY <1>1, <1>3, <2>1 DEF BiosTransfer, ReadSector, WriteSector, FailedTransfer, LoadMemory
<1>4. ASSUME NEW st \in Stores, CpuStore(st[1], st[2]) PROVE memory'[c] = memory[c]
  <2>1. st[1] \in Address
    BY DataAssumption
  <2> QED
    BY <1>0, <1>1, <1>4, <2>1 DEF CpuStore
<1>5. CASE UNCHANGED memory
  BY <1>5
<1> QED
  BY <1>2, <1>3, <1>4, <1>5
     DEF BiosNext, Seldsk, Settrk, Setsec, SetdmaLow, SetdmaHigh, CpuStores,
         SelectDrive, SelectTrack, SelectSector, SetDmaLow, SetDmaHigh, Acknowledge,
         biosVars, vars

(* Under the BIOS the bytes that follow memory[] are never written.        *)
THEOREM BiosStaysInMemory == BiosSpec => []OutsideMemoryUntouched
<1>1. BiosInit => OutsideMemoryUntouched
  BY DEF BiosInit, Init, OutsideMemoryUntouched
<1>2. BiosInv /\ OutsideMemoryUntouched /\ [BiosNext]_biosVars => OutsideMemoryUntouched'
  BY NextOutside
<1> QED
  BY <1>1, <1>2, BiosInvariant, PTL DEF BiosSpec

-----------------------------------------------------------------------------
(* Names of sectors and where their bytes are. *)

Index(n) == n[2] * Spt[n[1]] + n[3] - 1

LEMMA Names ==
  /\ \A d \in Present : \A t \in 0..Tracks[d]-1, s \in 1..Spt[d] : <<d, t, s>> \in SectorNames
  /\ \A n \in SectorNames : /\ n = <<n[1], n[2], n[3]>>
                            /\ n[1] \in Present
                            /\ n[2] \in 0..Tracks[n[1]]-1
                            /\ n[3] \in 1..Spt[n[1]]
BY DEF SectorNames

(* Two names of one drive have the same index only if they are the same.   *)
LEMMA IndexInjective ==
  ASSUME NEW t \in Nat, NEW u \in Nat, NEW S \in Nat, NEW s \in 1..S, NEW r \in 1..S,
         t * S + s - 1 = u * S + r - 1
  PROVE  t = u /\ s = r
<1>1. ASSUME NEW x \in Nat, NEW y \in Nat, x < y PROVE x * S + S <= y * S
  <2>1. (x + 1) * S <= y * S
    BY <1>1
  <2> QED
    BY <2>1
<1>2. ~(t < u)
  <2>1. SUFFICES ASSUME t < u PROVE FALSE
    OBVIOUS
  <2>2. t * S + S <= u * S
    BY <1>1, <2>1
  <2> QED
    BY <2>2, Products
<1>3. ~(u < t)
  <2>1. SUFFICES ASSUME u < t PROVE FALSE
    OBVIOUS
  <2>2. u * S + S <= t * S
    BY <1>1, <2>1
  <2> QED
    BY <2>2, Products
<1>4. t = u
  BY <1>2, <1>3
<1> QED
  BY <1>4, Products

(* The bytes of a sector are on its image.                                 *)
LEMMA SliceOnImage ==
  ASSUME NEW n \in SectorNames
  PROVE  /\ Index(n) \in Nat
         /\ Index(n) * SectorSize \in Nat
         /\ Index(n) * SectorSize + SectorSize <= Size(n[1])
<1> DEFINE sectors == Tracks[n[1]] * Spt[n[1]]
<1>1. n[1] \in Present /\ n[2] \in 0..Tracks[n[1]]-1 /\ n[3] \in 1..Spt[n[1]]
  BY Names
<1>2. Tracks[n[1]] \in Nat /\ Spt[n[1]] \in Nat /\ sectors \in Nat
  BY <1>1, DrivesAssumption, Products
<1>3. Index(n) \in 0..sectors-1
  <2>1. n[2] \in Nat /\ n[2] < Tracks[n[1]]
    BY <1>1, <1>2
  <2>2. n[3] \in Nat
    BY <1>1, <1>2
  <2>3. n[2] * Spt[n[1]] + n[3] - 1 \in 0..sectors-1
    BY <1>1, <1>2, <2>1, <2>2, LegalIndex
  <2> QED
    BY <2>3 DEF Index
<1>4. (Index(n) + 1) * SectorSize <= sectors * SectorSize
  BY <1>2, <1>3, SizesAssumption
<1>5. (Index(n) + 1) * SectorSize = Index(n) * SectorSize + SectorSize
  BY <1>3, SizesAssumption
<1> QED
  BY <1>3, <1>4, <1>5, SizesAssumption, Products DEF Size

LEMMA SliceByte ==
  ASSUME NEW n \in SectorNames, NEW i \in 0..SectorSize-1, NEW store
  PROVE  /\ Index(n) * SectorSize + i \in StoreOffset(n[1])
         /\ SectorsOf(store)[n][i] = store[n[1]][Index(n) * SectorSize + i]
<1>1. Index(n) * SectorSize + i \in StoreOffset(n[1])
  BY SliceOnImage, Names, Sizes, SizesAssumption DEF StoreOffset
<1> QED
  BY <1>1 DEF SectorsOf, Slice, Index

(* Sectors do not overlap.                                                 *)
LEMMA SlicesDisjoint ==
  ASSUME NEW m \in SectorNames, NEW n \in SectorNames, m # n, m[1] = n[1],
         NEW i \in 0..SectorSize-1
  PROVE  Index(m) * SectorSize + i
           \notin Index(n) * SectorSize .. Index(n) * SectorSize + SectorSize - 1
<1>1. Index(m) # Index(n)
  <2>1. m[1] \in Present /\ Spt[m[1]] \in Nat /\ m[2] \in Nat /\ n[2] \in Nat
        /\ m[3] \in 1..Spt[m[1]] /\ n[3] \in 1..Spt[m[1]]
    BY Names, DrivesAssumption
  <2>2. m[2] # n[2] \/ m[3] # n[3]
    BY Names
  <2>3. ASSUME Index(m) = Index(n) PROVE m[2] = n[2] /\ m[3] = n[3]
    <3>1. m[2] * Spt[m[1]] + m[3] - 1 = n[2] * Spt[m[1]] + n[3] - 1
      BY <2>3 DEF Index
    <3>2. \A S, t, u \in Nat : \A q, r \in 1..S :
            t * S + q - 1 = u * S + r - 1 => t = u /\ q = r
      BY IndexInjective
    <3> QED
      BY <2>1, <3>1, <3>2
  <2> QED
    BY <2>2, <2>3
<1>2. Index(m) \in Nat /\ Index(n) \in Nat /\ SectorSize \in Nat \ {0}
  BY SliceOnImage, SizesAssumption
<1>3. CASE Index(m) < Index(n)
  <2>1. (Index(m) + 1) * SectorSize <= Index(n) * SectorSize
    BY <1>2, <1>3
  <2>2. (Index(m) + 1) * SectorSize = Index(m) * SectorSize + SectorSize
    BY <1>2
  <2> QED
    BY <1>2, <2>1, <2>2, Products
<1>4. CASE Index(n) < Index(m)
  <2>1. (Index(n) + 1) * SectorSize <= Index(m) * SectorSize
    BY <1>2, <1>4
  <2>2. (Index(n) + 1) * SectorSize = Index(n) * SectorSize + SectorSize
    BY <1>2
  <2> QED
    BY <1>2, <2>1, <2>2, Products
<1> QED
  BY <1>1, <1>2, <1>3, <1>4

-----------------------------------------------------------------------------
(* Each step of the BIOS is a step of the sector store, or none.           *)

View(m) == [a \in Address |-> m[a]]

(* A number of two bytes has those bytes.                                  *)
LEMMA Digits ==
  ASSUME NEW b \in Nat \ {0}, NEW q \in Int, NEW r \in 0..b-1
  PROVE  (q * b + r) % b = r /\ (q * b + r) \div b = q
<1>1. PICK n \in Int : n = q * b + r
  OBVIOUS
<1>2. PICK k \in Int : k = n \div b /\ n = b * k + (n % b) /\ (n % b) \in 0..b-1
  <2>1. n \div b \in Int /\ n = b * (n \div b) + (n % b) /\ (n % b) \in 0..b-1
    BY <1>1, Division
  <2> QED
    BY <2>1
<1>3. ~(k < q)
  <2>1. SUFFICES ASSUME k + 1 <= q PROVE FALSE
    OBVIOUS
  <2>2. (k + 1) * b <= q * b
    BY <2>1
  <2> QED
    BY <1>1, <1>2, <2>2
<1>4. ~(q < k)
  <2>1. SUFFICES ASSUME q + 1 <= k PROVE FALSE
    OBVIOUS
  <2>2. (q + 1) * b <= k * b
    BY <2>1
  <2> QED
    BY <1>1, <1>2, <2>2
<1>5. k = q
  BY <1>3, <1>4
<1> QED
  BY <1>1, <1>2, <1>5

(* The two bytes of the buffer address are the address.                    *)
LEMMA BufferIsDMA ==
  ASSUME BiosInv
  PROVE  /\ Abstract!Buffer = DMA
         /\ DMA % ByteBase \in 0..ByteBase-1
         /\ DMA \div ByteBase \in 0..ByteBase-1
<1>1. DMA \in 0..ByteBase*ByteBase-1 /\ ByteBase \in Nat \ {0}
  BY SizesAssumption DEF BiosInv, BiosTypeOK, TypeOK, Address, MemSize
<1>2. DMA \in Int
  BY <1>1
<1>3. /\ DMA \div ByteBase \in Int
      /\ (DMA % ByteBase) \in 0..ByteBase-1
      /\ DMA = ByteBase * (DMA \div ByteBase) + (DMA % ByteBase)
  BY <1>1, <1>2, Division
<1>4. DMA \div ByteBase \in 0..ByteBase-1
  BY <1>1, HighDigit
<1> QED
  BY <1>1, <1>3, <1>4 DEF Abstract!Buffer

(* What CP/M asks for is a request of the sector store.                    *)
LEMMA RequestMaps ==
  ASSUME BiosInv, LegalRequest
  PROVE  Abstract!Legal
<1> DEFINE d == current_drive_id
<1>1. d \in Present /\ TypeOK /\ DMA + SectorSize <= MemSize
  BY DEF LegalRequest, BiosInv, BiosTypeOK
<1>2. <<d, selected_track[d], selected_sector[d]>> \in SectorNames
  BY <1>1, Names, DrivesAssumption, SizesAssumption DEF LegalRequest, TypeOK, RegA
<1> QED
  BY <1>1, <1>2, BufferIsDMA
     DEF Abstract!Legal, Abstract!Selected, Abstract!SectorName, Abstract!MemSize,
         SectorNames, MemSize

LEMMA ReadMaps ==
  ASSUME BiosInv, LegalRequest, ReadSector
  PROVE  Abstract!Read
<1> DEFINE d == current_drive_id
           n == <<d, selected_track[d], selected_sector[d]>>
<1>1. d \in Present /\ TypeOK /\ DMA \in 0..MemSize-SectorSize
  BY Sizes, SizesAssumption DEF LegalRequest, BiosInv, BiosTypeOK, TypeOK, Address
<1>2. n \in SectorNames
  BY <1>1, Names, DrivesAssumption, SizesAssumption DEF LegalRequest, TypeOK, RegA
<1>3. Pos(d) = Index(n) * SectorSize
  BY <1>1, LegalPos DEF Index, SectorIndex
<1>4. LoadMemory(d, DMA, Pos(d), SectorSize) /\ UNCHANGED backingstore
  BY DEF ReadSector
<1>5. ASSUME NEW i \in Address
      PROVE  memory'[i] = IF i \in DMA..DMA+SectorSize-1
                          THEN SectorsOf(backingstore)[n][i - DMA] ELSE memory[i]
  <2>1. i \in Cell
    BY Sizes, SizesAssumption DEF Address, Cell
  <2>2. ASSUME i \in DMA..DMA+SectorSize-1
        PROVE  memory'[i] = SectorsOf(backingstore)[n][i - DMA]
    <3>1. i - DMA \in 0..SectorSize-1
      BY <1>1, <2>2, SizesAssumption, Sizes
    <3>2. SectorsOf(backingstore)[n][i - DMA]
            = backingstore[d][Index(n) * SectorSize + (i - DMA)]
      BY <1>2, <3>1, SliceByte
    <3>3. Index(n) * SectorSize \in Int
      BY <1>2, SliceOnImage
    <3>4. Pos(d) + i - DMA = Index(n) * SectorSize + (i - DMA)
      BY <1>1, <1>3, <2>2, <3>3, Sizes
    <3> QED
      BY <1>4, <2>1, <2>2, <3>2, <3>4 DEF LoadMemory
  <2>3. ASSUME i \notin DMA..DMA+SectorSize-1 PROVE memory'[i] = memory[i]
    BY <1>4, <2>1, <2>3 DEF LoadMemory
  <2> QED
    BY <2>2, <2>3
<1>6. Abstract!Selected = n /\ Abstract!Buffer = DMA /\ Abstract!Legal
  BY BufferIsDMA, RequestMaps DEF Abstract!Selected
<1>7. UNCHANGED Abstract!selection
  BY DEF ReadSector, StartTransfer, controls, Abstract!selection
<1> QED
  BY <1>4, <1>5, <1>6, <1>7 DEF Abstract!Read, Abstract!Address, Abstract!MemSize,
     Abstract!Window, Address, MemSize

LEMMA WriteMaps ==
  ASSUME BiosInv, LegalRequest, WriteSector
  PROVE  Abstract!Write
<1> DEFINE d == current_drive_id
           n == <<d, selected_track[d], selected_sector[d]>>
           p == Index(n) * SectorSize
           written == [i \in 0..SectorSize-1 |-> View(memory)[DMA + i]]
<1>1. d \in Present /\ TypeOK /\ DMA \in 0..MemSize-SectorSize
  BY Sizes, SizesAssumption DEF LegalRequest, BiosInv, BiosTypeOK, TypeOK, Address
<1>2. n \in SectorNames
  BY <1>1, Names, DrivesAssumption, SizesAssumption DEF LegalRequest, TypeOK, RegA
<1>3. Pos(d) = p /\ p \in Nat
  BY <1>1, <1>2, LegalPos, SliceOnImage DEF Index, SectorIndex
<1>4. UNCHANGED memory
      /\ backingstore' = [backingstore EXCEPT ![d] =
           [o \in StoreOffset(d) |-> IF o \in p..p+SectorSize-1 THEN memory[DMA + o - p]
                                                                ELSE backingstore[d][o]]]
  BY <1>3 DEF WriteSector, LoadStore
<1>5. \A e \in Present : e # d => backingstore'[e] = backingstore[e]
  BY <1>1, <1>4 DEF TypeOK
<1>6. \A o \in StoreOffset(d) :
        backingstore'[d][o] = IF o \in p..p+SectorSize-1 THEN memory[DMA + o - p]
                                                         ELSE backingstore[d][o]
  BY <1>1, <1>4 DEF TypeOK
<1>7. SectorsOf(backingstore')[n] = written
  <2>1. ASSUME NEW i \in 0..SectorSize-1
        PROVE  SectorsOf(backingstore')[n][i] = View(memory)[DMA + i]
    <3>1. p + i \in StoreOffset(d) /\ SectorsOf(backingstore')[n][i] = backingstore'[d][p + i]
      BY <1>2, SliceByte
    <3>2. p + i \in p..p+SectorSize-1 /\ DMA + (p + i) - p = DMA + i
      BY <1>1, <1>3, Sizes, SizesAssumption
    <3>3. DMA + i \in Address
      BY <1>1, Sizes, SizesAssumption DEF Address
    <3> QED
      BY <1>6, <3>1, <3>2, <3>3 DEF View
  <2>2. SectorsOf(backingstore')[n] = [i \in 0..SectorSize-1 |-> SectorsOf(backingstore')[n][i]]
    BY <1>2 DEF SectorsOf, Slice
  <2> QED
    BY <2>1, <2>2
<1>8. ASSUME NEW m \in SectorNames, m # n
      PROVE  SectorsOf(backingstore')[m] = SectorsOf(backingstore)[m]
  <2>1. ASSUME NEW i \in 0..SectorSize-1
        PROVE  SectorsOf(backingstore')[m][i] = SectorsOf(backingstore)[m][i]
    <3>1. /\ Index(m) * SectorSize + i \in StoreOffset(m[1])
          /\ SectorsOf(backingstore')[m][i] = backingstore'[m[1]][Index(m) * SectorSize + i]
          /\ SectorsOf(backingstore)[m][i] = backingstore[m[1]][Index(m) * SectorSize + i]
      BY SliceByte
    <3>2. CASE m[1] = d
      <4>1. Index(m) * SectorSize + i \notin p..p+SectorSize-1
        BY <1>2, <1>8, <3>2, SlicesDisjoint
      <4> QED
        BY <1>6, <3>1, <3>2, <4>1
    <3>3. CASE m[1] # d
      BY <1>5, <3>1, <3>3, Names
    <3> QED
      BY <3>2, <3>3
  <2> QED
    BY <2>1 DEF SectorsOf, Slice
<1>9. SectorsOf(backingstore') = [SectorsOf(backingstore) EXCEPT ![n] = written]
  <2>1. DOMAIN SectorsOf(backingstore) = SectorNames
        /\ SectorsOf(backingstore') = [m \in SectorNames |-> SectorsOf(backingstore')[m]]
    BY DEF SectorsOf
  <2> QED
    BY <1>7, <1>8, <2>1
<1>10. Abstract!Selected = n /\ Abstract!Buffer = DMA /\ Abstract!Legal
  BY BufferIsDMA, RequestMaps DEF Abstract!Selected
<1>11. UNCHANGED Abstract!selection
  BY DEF WriteSector, StartTransfer, controls, Abstract!selection
<1> QED
  BY <1>4, <1>9, <1>10, <1>11 DEF Abstract!Write, Abstract!Offset, View

LEMMA BootMaps ==
  ASSUME BiosInv, Bootloader
  PROVE  Abstract!Boot \/ UNCHANGED Abstract!vars
<1>0. UNCHANGED Abstract!selection
  BY DEF Bootloader, controls, Abstract!selection
<1>1. CASE ~InLimits(0, 0, 2 * SectorSize)
  BY <1>0, <1>1 DEF Bootloader, Abstract!vars
<1>2. CASE InLimits(0, 0, 2 * SectorSize)
  <2>1. 0 \in Present /\ SectorSize \in Nat \ {0} /\ UNCHANGED backingstore
    BY <1>2, SizesAssumption DEF InLimits, Bootloader
  <2>2. <<0, 0, 1>> \in SectorNames /\ <<0, 0, 2>> \in SectorNames
    BY <2>1, Names, DrivesAssumption
  <2>3. Index(<<0, 0, 1>>) = 0 /\ Index(<<0, 0, 2>>) = 1
    BY <2>1, DrivesAssumption DEF Index
  <2>4. \A i \in 0..SectorSize-1 :
          /\ SectorsOf(backingstore)[<<0, 0, 1>>][i] = backingstore[0][i]
          /\ SectorsOf(backingstore)[<<0, 0, 2>>][i] = backingstore[0][SectorSize + i]
    <3>1. \A i \in 0..SectorSize-1 :
            /\ SectorsOf(backingstore)[<<0, 0, 1>>][i] = backingstore[0][0 * SectorSize + i]
            /\ SectorsOf(backingstore)[<<0, 0, 2>>][i] = backingstore[0][1 * SectorSize + i]
      BY <2>2, <2>3, SliceByte
    <3> QED
      BY <2>1, <3>1
  <2>5. \A c \in Cell : memory'[c] = IF c \in 0..0+2*SectorSize-1
                                     THEN backingstore[0][0 + c - 0] ELSE memory[c]
    BY <1>2 DEF Bootloader, LoadMemory
  <2>6. ASSUME NEW i \in Address
        PROVE  memory'[i] = IF i < SectorSize THEN SectorsOf(backingstore)[<<0, 0, 1>>][i]
                            ELSE IF i < 2 * SectorSize
                                 THEN SectorsOf(backingstore)[<<0, 0, 2>>][i - SectorSize]
                                 ELSE memory[i]
    <3>1. i \in Cell /\ i \in Nat
      BY <2>1, Sizes DEF Address, Cell
    <3>2. CASE i < SectorSize
      <4>1. memory'[i] = backingstore[0][i]
        BY <2>1, <2>5, <3>1, <3>2
      <4> QED
        BY <2>1, <2>4, <3>1, <3>2, <4>1
    <3>3. CASE i >= SectorSize /\ i < 2 * SectorSize
      <4>1. memory'[i] = backingstore[0][i]
        BY <2>1, <2>5, <3>1, <3>3
      <4>2. i - SectorSize \in 0..SectorSize-1 /\ SectorSize + (i - SectorSize) = i
        BY <2>1, <3>1, <3>3
      <4>3. SectorsOf(backingstore)[<<0, 0, 2>>][i - SectorSize]
              = backingstore[0][SectorSize + (i - SectorSize)]
        BY <2>4, <4>2
      <4> QED
        BY <2>1, <3>1, <3>3, <4>1, <4>2, <4>3
    <3>4. CASE i >= 2 * SectorSize
      BY <2>1, <2>5, <3>1, <3>4
    <3> QED
      BY <2>1, <3>1, <3>2, <3>3, <3>4
  <2> QED
    BY <1>0, <2>1, <2>6
       DEF Abstract!Boot, Abstract!Address, Abstract!MemSize, Address, MemSize
<1> QED
  BY <1>1, <1>2

LEMMA StoreMaps ==
  ASSUME BiosInv, NEW a \in Address, NEW v, CpuStore(a, v)
  PROVE  Abstract!Store(a, v)
<1>1. /\ memory \in [Cell -> Byte]
      /\ UNCHANGED <<backingstore, Abstract!selection>>
      /\ memory' = [memory EXCEPT ![a] = v]
  BY DEF BiosInv, BiosTypeOK, TypeOK, CpuStore, data, controls, Abstract!selection
<1>2. Address \subseteq Cell
  BY Sizes, SizesAssumption DEF Address, Cell
<1> QED
  BY <1>1, <1>2 DEF Abstract!Store

(* A port that selects changes its own part of the selection.              *)
LEMMA SelectMaps ==
  ASSUME BiosInv, Seldsk \/ Settrk \/ Setsec
  PROVE  Abstract!Next \/ UNCHANGED Abstract!vars
<1> USE DEF controls, data
<1>1. CASE Seldsk
  <2>1. PICK a \in Present : SelectDrive(a)
    BY <1>1 DEF Seldsk
  <2>2. Abstract!SelectDrive(a)
    BY <2>1 DEF SelectDrive, Abstract!SelectDrive
  <2> QED
    BY <2>2 DEF Abstract!Next
<1>2. CASE Settrk
  <2>1. PICK a \in RegA : SelectTrack(a)
    BY <1>2, GuestAssumption DEF Settrk
  <2>2. CASE current_drive_id \in Present
    <3>1. Abstract!SelectTrack(a)
      BY <2>1, <2>2 DEF SelectTrack, Abstract!SelectTrack
    <3> QED
      BY <3>1 DEF Abstract!Next, RegA
  <2>3. CASE current_drive_id \notin Present
    BY <2>1, <2>3 DEF SelectTrack, Abstract!vars, Abstract!selection
  <2> QED
    BY <2>2, <2>3
<1>3. CASE Setsec
  <2>1. PICK a \in RegA : SelectSector(a)
    BY <1>3, GuestAssumption DEF Setsec
  <2>2. CASE current_drive_id \in Present
    <3>1. Abstract!SelectSector(a)
      BY <2>1, <2>2 DEF SelectSector, Abstract!SelectSector
    <3> QED
      BY <3>1 DEF Abstract!Next, RegA
  <2>3. CASE current_drive_id \notin Present
    BY <2>1, <2>3 DEF SelectSector, Abstract!vars, Abstract!selection
  <2> QED
    BY <2>2, <2>3
<1> QED
  BY <1>1, <1>2, <1>3

(* Each half of SETDMA changes its own byte of the buffer address.         *)
LEMMA SetdmaMaps ==
  ASSUME BiosInv, SetdmaLow \/ SetdmaHigh
  PROVE  Abstract!Next
<1> USE DEF controls, data
<1>1. /\ ByteBase \in Nat \ {0}
      /\ DMA % ByteBase \in 0..ByteBase-1
      /\ DMA \div ByteBase \in Int
  BY SizesAssumption, BufferIsDMA
<1>2. CASE SetdmaLow
  <2>1. PICK a \in 0..ByteBase-1 : SetDmaLow(a)
    BY <1>2, GuestAssumption DEF SetdmaLow, RegA
  <2>2. DMA' % ByteBase = a /\ DMA' \div ByteBase = DMA \div ByteBase
    <3>1. DMA' = (DMA \div ByteBase) * ByteBase + a
      BY <2>1 DEF SetDmaLow
    <3>2. /\ ((DMA \div ByteBase) * ByteBase + a) % ByteBase = a
          /\ ((DMA \div ByteBase) * ByteBase + a) \div ByteBase = DMA \div ByteBase
      BY <1>1, Digits
    <3> QED
      BY <3>1, <3>2
  <2>3. Abstract!SetLow(a)
    BY <2>1, <2>2 DEF SetDmaLow, Abstract!SetLow
  <2> QED
    BY <2>3 DEF Abstract!Next
<1>3. CASE SetdmaHigh
  <2>1. PICK a \in 0..ByteBase-1 : SetDmaHigh(a)
    BY <1>3, GuestAssumption DEF SetdmaHigh, RegA
  <2>2. DMA' % ByteBase = DMA % ByteBase /\ DMA' \div ByteBase = a
    <3>1. DMA' = a * ByteBase + (DMA % ByteBase)
      <4>1. DMA' = (DMA % ByteBase) + a * ByteBase
        BY <2>1 DEF SetDmaHigh
      <4>2. DMA % ByteBase \in Int /\ a * ByteBase \in Int
        BY <1>1
      <4> QED
        BY <4>1, <4>2
    <3>2. PICK low \in 0..ByteBase-1 : low = DMA % ByteBase
      BY <1>1
    <3>3. (a * ByteBase + low) % ByteBase = low /\ (a * ByteBase + low) \div ByteBase = a
      <4>1. \A b \in Nat \ {0} : \A q \in Int, r \in 0..b-1 :
              (q * b + r) % b = r /\ (q * b + r) \div b = q
        BY Digits, Zenon
      <4>2. a \in Int
        BY <1>1
      <4> QED
        BY <1>1, <4>1, <4>2, Zenon
    <3> QED
      BY <3>1, <3>2, <3>3
  <2>3. Abstract!SetHigh(a)
    BY <2>1, <2>2 DEF SetDmaHigh, Abstract!SetHigh
  <2> QED
    BY <2>3 DEF Abstract!Next
<1> QED
  BY <1>2, <1>3

LEMMA InitMaps == BiosInit => Abstract!Init
<1>1. 0 % ByteBase = 0 /\ 0 \div ByteBase = 0
  <2>1. ByteBase \in Nat \ {0} /\ 0 \in 0..ByteBase-1 /\ 0 * ByteBase + 0 = 0
    BY SizesAssumption
  <2>2. (0 * ByteBase + 0) % ByteBase = 0 /\ (0 * ByteBase + 0) \div ByteBase = 0
    BY <2>1, Digits
  <2> QED
    BY <2>1, <2>2
<1> QED
  BY <1>1 DEF BiosInit, Init, Abstract!Init

LEMMA NextMaps == BiosInv /\ [BiosNext]_biosVars => [Abstract!Next]_Abstract!vars
<1> SUFFICES ASSUME BiosInv, [BiosNext]_biosVars
             PROVE  Abstract!Next \/ UNCHANGED Abstract!vars
  OBVIOUS
<1>1. CASE Bootloader
  BY <1>1, BootMaps DEF Abstract!Next
<1>2. CASE Seldsk \/ Settrk \/ Setsec
  BY <1>2, SelectMaps
<1>3. CASE SetdmaLow \/ SetdmaHigh
  BY <1>3, SetdmaMaps
<1>4. CASE BiosTransfer
  <2>1. CASE ReadSector
    BY <1>4, <2>1, ReadMaps DEF BiosTransfer, Abstract!Next
  <2>2. CASE WriteSector
    BY <1>4, <2>2, WriteMaps DEF BiosTransfer, Abstract!Next
  <2>3. CASE FailedTransfer
    BY <2>3 DEF FailedTransfer, StartTransfer, controls, data, Abstract!vars, Abstract!selection
  <2> QED
    BY <1>4, <2>1, <2>2, <2>3 DEF BiosTransfer
<1>5. CASE Acknowledge
  BY <1>5 DEF Acknowledge, controls, data, Abstract!vars, Abstract!selection
<1>6. ASSUME NEW st \in Stores, CpuStore(st[1], st[2]) PROVE Abstract!Next
  <2>1. st[1] \in Address /\ st[2] \in Byte
    BY DataAssumption
  <2>2. Abstract!Store(st[1], st[2])
    BY <1>6, <2>1, StoreMaps
  <2> QED
    BY <2>1, <2>2 DEF Abstract!Next, Abstract!Address, Abstract!MemSize, Address, MemSize
<1>7. CASE UNCHANGED biosVars
  BY <1>7 DEF biosVars, vars, Abstract!vars, Abstract!selection
<1> QED
  BY <1>1, <1>2, <1>3, <1>4, <1>5, <1>6, <1>7 DEF BiosNext, At, CpuStores

(* Under the BIOS the controller is an array of independent sectors: every *)
(* request copies exactly the sector that was selected, whole, to or from  *)
(* exactly the buffer that was set, and touches no other byte of any drive *)
(* or of memory; each selection keeps all the others.                      *)
THEOREM ControllerImplementsStore == BiosSpec => ImplementsSectorStore
BY InitMaps, NextMaps, BiosInvariant, PTL DEF BiosSpec, Abstract!Spec, ImplementsSectorStore

-----------------------------------------------------------------------------
(* Arithmetic of numbers in two digits. *)

LEMMA Distributes ==
  ASSUME NEW b \in Int, NEW u \in Int, NEW v \in Int
  PROVE  b * (u + v) = b * u + b * v /\ b * (u - v) = b * u - b * v
OBVIOUS

(* A remainder determines its quotient, and is the only one.               *)
LEMMA Unique ==
  ASSUME NEW n \in Int, NEW b \in Nat \ {0}, NEW p \in Int, NEW r \in 0..b-1, n = b * p + r
  PROVE  n \div b = p /\ n % b = r
<1>1. PICK q \in Int, s \in 0..b-1 : q = n \div b /\ s = n % b /\ n = b * q + s
  <2>1. n \div b \in Int /\ n % b \in 0..b-1 /\ n = b * (n \div b) + (n % b)
    BY Division
  <2> QED
    BY <2>1
<1>2. ~(p >= q + 1)
  <2>1. SUFFICES ASSUME p >= q + 1 PROVE FALSE
    OBVIOUS
  <2>2. PICK k \in Nat : p = q + 1 + k
    <3>1. p - (q + 1) \in Nat
      BY <2>1
    <3> QED
      BY <3>1
  <2>3. b * p = b * q + b + b * k /\ b * k \in Nat
    BY <2>2
  <2> QED
    BY <1>1, <2>3
<1>3. ~(q >= p + 1)
  <2>1. SUFFICES ASSUME q >= p + 1 PROVE FALSE
    OBVIOUS
  <2>2. PICK k \in Nat : q = p + 1 + k
    <3>1. q - (p + 1) \in Nat
      BY <2>1
    <3> QED
      BY <3>1
  <2>3. b * q = b * p + b + b * k /\ b * k \in Nat
    BY <2>2
  <2> QED
    BY <1>1, <2>3
<1>4. p = q
  BY <1>2, <1>3
<1>5. b * p \in Int /\ b * p = b * q
  BY <1>4
<1> QED
  BY <1>1, <1>4, <1>5

(* The two low digits of a number.                                         *)
LEMMA LowDigits ==
  ASSUME NEW n \in Int, NEW b \in Nat \ {0}
  PROVE  /\ n % (b * b) = b * ((n \div b) % b) + (n % b)
         /\ (n % (b * b)) \div b = (n \div b) % b
         /\ (n % (b * b)) % b = n % b
<1>1. PICK q \in Int, s \in 0..b-1 : q = n \div b /\ s = n % b /\ n = b * q + s
  <2>1. n \div b \in Int /\ n % b \in 0..b-1 /\ n = b * (n \div b) + (n % b)
    BY Division
  <2> QED
    BY <2>1
<1>2. PICK p \in Int, r \in 0..b-1 : p = q \div b /\ r = q % b /\ q = b * p + r
  <2>1. q \div b \in Int /\ q % b \in 0..b-1 /\ q = b * (q \div b) + (q % b)
    BY Division
  <2> QED
    BY <2>1
<1>3. r * b + s \in 0..b*b-1 /\ r * b = b * r
  BY TwoDigits
<1>4. n = (b * b) * p + (b * r + s)
  <2>1. b * q = b * (b * p) + b * r
    <3>1. b * p \in Int /\ r \in Int
      OBVIOUS
    <3> QED
      BY <1>2, <3>1, Distributes
  <2>2. b * (b * p) = (b * b) * p
    OBVIOUS
  <2> QED
    BY <1>1, <2>1, <2>2
<1>5. b * b \in Nat \ {0}
  BY Products
<1>6. n % (b * b) = b * r + s
  <2>1. b * r + s \in 0..b*b-1
    BY <1>3
  <2> QED
    BY <1>4, <1>5, <2>1, Unique
<1>7. (b * r + s) \div b = r /\ (b * r + s) % b = s
  <2>1. b * r + s \in Int
    OBVIOUS
  <2> QED
    BY <2>1, Unique
<1> QED
  BY <1>1, <1>2, <1>6, <1>7

-----------------------------------------------------------------------------
(* The clock: each half is a digit of the time at which it was copied.     *)
ClockInv ==
  /\ ClockTypeOK
  /\ clockticks = now % ClockBase
  /\ halves \in {1, 2} => H = (begun \div HalfBase) % HalfBase
  /\ halves = 2 => L = ended % HalfBase

LEMMA ClockDigits ==
  ASSUME NEW n \in Nat
  PROVE  /\ n % ClockBase \in 0..ClockBase-1
         /\ (n % ClockBase) \div HalfBase = (n \div HalfBase) % HalfBase
         /\ (n % ClockBase) % HalfBase = n % HalfBase
         /\ (n \div HalfBase) % HalfBase \in 0..HalfBase-1
         /\ n % HalfBase \in 0..HalfBase-1
         /\ ((n % ClockBase) + 1) % ClockBase = (n + 1) % ClockBase
<1>1. HalfBase \in Nat \ {0} /\ n \in Int /\ ClockBase \in Nat \ {0}
  BY ClockAssumption, Products DEF ClockBase
<1>2. n \div HalfBase \in Int /\ n % HalfBase \in 0..HalfBase-1
  BY <1>1, Division
<1>3. n % ClockBase \in 0..ClockBase-1 /\ (n \div HalfBase) % HalfBase \in 0..HalfBase-1
  BY <1>1, <1>2, Division
<1>4. ((n % ClockBase) + 1) % ClockBase = (n + 1) % ClockBase
  <2> DEFINE m == n % ClockBase
  <2>1. PICK p \in Int : n = ClockBase * p + m
    <3>1. n \div ClockBase \in Int /\ n = ClockBase * (n \div ClockBase) + m
      BY <1>1, Division
    <3> QED
      BY <3>1
  <2>2. CASE m + 1 < ClockBase
    <3>1. n + 1 = ClockBase * p + (m + 1) /\ m + 1 \in 0..ClockBase-1 /\ m + 1 \in Int /\ n + 1 \in Int
      BY <1>1, <1>3, <2>1, <2>2
    <3>2. (n + 1) % ClockBase = m + 1
      BY <1>1, <3>1, Unique
    <3>3. (m + 1) % ClockBase = m + 1
      BY <1>1, <3>1
    <3> QED
      BY <3>2, <3>3
  <2>3. CASE ~(m + 1 < ClockBase)
    <3>1. m + 1 = ClockBase
      BY <1>1, <1>3, <2>3
    <3>2. ClockBase * (p + 1) = ClockBase * p + ClockBase * 1 /\ ClockBase * 1 = ClockBase
      BY <1>1, Distributes
    <3>3. n + 1 = ClockBase * (p + 1) + 0 /\ p + 1 \in Int /\ n + 1 \in Int /\ 0 \in 0..ClockBase-1
      BY <1>1, <2>1, <3>1, <3>2
    <3>4. (n + 1) % ClockBase = 0
      BY <1>1, <3>3, Unique
    <3>5. (m + 1) % ClockBase = 0
      BY <1>1, <3>1
    <3> QED
      BY <3>4, <3>5
  <2> QED
    BY <2>2, <2>3
<1> QED
  BY <1>1, <1>2, <1>3, <1>4, LowDigits DEF ClockBase

LEMMA ClockInitInv == ClockInit => ClockInv
<1> SUFFICES ASSUME ClockInit PROVE ClockInv
  OBVIOUS
<1>1. now \in Nat /\ HalfBase \in Nat \ {0}
  BY ClockAssumption DEF ClockInit
<1> QED
  BY <1>1, ClockDigits DEF ClockInit, ClockInv, ClockTypeOK

LEMMA TickInv ==
  ASSUME ClockInv, Tick
  PROVE  ClockInv'
<1>1. now \in Nat /\ now + 1 \in Nat
  BY DEF ClockInv, ClockTypeOK
<1>2. ((now % ClockBase) + 1) % ClockBase = (now + 1) % ClockBase
  BY <1>1, ClockDigits
<1>3. (now + 1) % ClockBase \in 0..ClockBase-1
  BY <1>1, ClockDigits
<1> QED
  BY <1>1, <1>2, <1>3 DEF ClockInv, ClockTypeOK, Tick

LEMMA ReadingInv ==
  ASSUME ClockInv, Reading
  PROVE  ClockInv'
<1>1. /\ now \in Nat /\ clockticks = now % ClockBase
      /\ clockticks \div HalfBase = (now \div HalfBase) % HalfBase
      /\ clockticks % HalfBase = now % HalfBase
      /\ (now \div HalfBase) % HalfBase \in 0..HalfBase-1
      /\ now % HalfBase \in 0..HalfBase-1
  BY ClockDigits DEF ClockInv, ClockTypeOK
<1>2. HalfOrder[1] = "H" /\ HalfOrder[2] = "L"
  BY DEF HalfOrder
<1>3. CASE ReadFirstHalf
  BY <1>1, <1>2, <1>3 DEF ClockInv, ClockTypeOK, ReadFirstHalf, Copy
<1>4. CASE ReadSecondHalf
  BY <1>1, <1>2, <1>4 DEF ClockInv, ClockTypeOK, ReadSecondHalf, Copy
<1> QED
  BY <1>3, <1>4 DEF Reading

LEMMA ClockReads == ClockInv => ReadingNeverAhead
<1> SUFFICES ASSUME ClockInv, halves = 2
             PROVE  (HalfBase * H + L) = (ended - HalfBase * Carries(begun, ended)) % ClockBase
  BY DEF ReadingNeverAhead
<1>1. /\ HalfBase \in Nat \ {0} /\ begun \in Int /\ ended \in Int
      /\ H = (begun \div HalfBase) % HalfBase /\ L = ended % HalfBase
  BY ClockAssumption DEF ClockInv, ClockTypeOK
<1>2. PICK p \in Int, q \in Int, s \in 0..HalfBase-1 :
        /\ p = begun \div HalfBase /\ q = ended \div HalfBase /\ s = ended % HalfBase
        /\ ended = HalfBase * q + s
  <2>1. /\ begun \div HalfBase \in Int /\ ended \div HalfBase \in Int
        /\ ended % HalfBase \in 0..HalfBase-1
        /\ ended = HalfBase * (ended \div HalfBase) + (ended % HalfBase)
    BY <1>1, Division
  <2> QED
    BY <2>1
<1> DEFINE x == HalfBase * p + s
<1>3. ended - HalfBase * Carries(begun, ended) = x
  <2>1. Carries(begun, ended) = q - p
    BY <1>2 DEF Carries
  <2>2. HalfBase * (q - p) = HalfBase * q - HalfBase * p
    BY <1>1, Distributes
  <2>3. HalfBase * q \in Int /\ HalfBase * p \in Int
    BY <1>1
  <2> QED
    BY <1>2, <2>1, <2>2, <2>3
<1>4. x \in Int /\ x \div HalfBase = p /\ x % HalfBase = s
  <2>1. x \in Int
    BY <1>1
  <2> QED
    BY <1>1, <2>1, Unique
<1>5. x % ClockBase = HalfBase * (p % HalfBase) + s
  BY <1>1, <1>4, LowDigits DEF ClockBase
<1> QED
  BY <1>1, <1>2, <1>3, <1>5

-----------------------------------------------------------------------------
(* The types of what the network service and its peers change.             *)

NetOK ==
  /\ realfd \in [Net!Slot -> Descriptors \cup {Net!Free}]
  /\ mappedfd \in [Net!Slot -> Net!Slot \cup {Net!Free}]
  /\ sigpipe \in {"default", "ignored"}
  /\ open \subseteq Descriptors
  /\ link \in [Descriptors -> Net!LinkState]
  /\ unread \in [Descriptors -> 0..MaxUnread]
  /\ space \in [Descriptors -> 0..MaxSpace]
  /\ reply \in Net!Reply

HistoryOK ==
  /\ taken \in [Descriptors -> Nat]
  /\ \A f \in Descriptors : taken[f] + unread[f] <= Len(Stream[f])
  /\ delivered \in [Descriptors -> Seq(RegA)]
  /\ spoilt \subseteq Descriptors

(* TCP_Connect ignores SIGPIPE before any handle is in use.                *)
Piped == \A s \in Net!Slot : realfd[s] # Net!Free => sigpipe = "ignored"

(* As many bytes were found as were read, each in its place.               *)
InStep ==
  \A f \in Descriptors \ spoilt :
    Len(delivered[f]) = taken[f] /\ \A i \in 1..taken[f] : delivered[f][i] = Stream[f][i]

(* StreamInOrder and the types need each other; no SEND with a handle of   *)
(* the table is killed because of Piped.                                   *)
NetInv == TypeOK /\ NetOK /\ HistoryOK /\ Piped /\ InStep

LEMMA Numbers ==
  /\ ByteBase \in Nat \ {0} /\ ByteBase > 1 /\ RegA \subseteq Nat /\ Byte = RegA
  /\ \A n \in Int : n % ByteBase \in RegA
  /\ \A n \in RegA : n % ByteBase = n
  /\ Net!Slot \subseteq Nat /\ 0 \in Net!Slot /\ Net!Slot \subseteq RegA
  /\ \A s \in Net!Slot : s # Net!Minus1 /\ s # Net!Free
  /\ Net!Minus1 \in RegA /\ Net!Minus1 \in Int /\ Net!Minus1 # 0 /\ 0 \in RegA
<1>1. ByteBase \in Nat \ {0} /\ ByteBase > 1 /\ RegA = 0..ByteBase-1 /\ Byte = RegA
  BY SizesAssumption, BlocksAssumption DEF RegA
<1>2. \A n \in Int : n % ByteBase \in 0..ByteBase-1
  BY <1>1, Division
<1>3. \A n \in 0..ByteBase-1 : n % ByteBase = n
  BY <1>1
<1>4. MaxSockets \in Nat /\ MaxSockets < ByteBase /\ MaxSockets > 0
  BY SocketsAssumption DEF Net!Slot
<1>5. /\ Net!Slot \subseteq 0..ByteBase-1 /\ 0 \in Net!Slot /\ Net!Slot \subseteq Nat
      /\ \A s \in Net!Slot : s # ByteBase - 1 /\ s # -1
  BY <1>1, <1>4 DEF Net!Slot
<1>6. ByteBase - 1 \in 0..ByteBase-1 /\ ByteBase - 1 \in Int /\ ByteBase - 1 # 0 /\ 0 \in 0..ByteBase-1
  BY <1>1
<1>7. Net!Minus1 = ByteBase - 1 /\ Net!Free = -1
  BY DEF Net!Minus1, Net!Free
<1> QED
  BY <1>1, <1>2, <1>3, <1>5, <1>6, <1>7

LEMMA NetAnswers ==
  ASSUME NEW op \in {"none", "connect", "close", "send", "recv"}, NEW s \in Net!Slot,
         NEW n \in RegA, NEW f \in BOOLEAN, NEW r \in RegA,
         NEW e \in Net!Errors \cup {"0", "unwritten"}, Net!Answer(op, s, n, f, r, e)
  PROVE  /\ reply' \in Net!Reply
         /\ reply'.op = op /\ reply'.slot = s /\ reply'.len = n
         /\ reply'.failed = f /\ reply'.a = r /\ reply'.error = e
BY Numbers DEF Net!Answer, Net!Reply, RegA

(* The scan of TCP_Connect finds a slot when there is one. *)
LEMMA FirstFreeIsFree ==
  ASSUME Net!FreeSlots # {}
  PROVE  Net!FirstFree \in Net!Slot /\ realfd[Net!FirstFree] = Net!Free
<1> DEFINE R == {ss \in Nat \X Nat : ss[1] < ss[2]}
<1>1. Net!FreeSlots \subseteq Nat
  BY Numbers DEF Net!FreeSlots
<1>2. IsWellFoundedOn(R, Nat)
  BY NatLessThanWellFounded, Zenon DEF OpToRel
<1>3. \E s \in Net!FreeSlots : \A t \in Net!FreeSlots : ~ (<<t, s>> \in R)
  <2> HIDE DEF R
  <2> QED  BY <1>1, <1>2, WFMin, Zenon
<1>4. \A s, t \in Nat : ~ (<<t, s>> \in R) => s <= t
  OBVIOUS
<1>5. \E s \in Net!FreeSlots : \A t \in Net!FreeSlots : s <= t
  BY <1>1, <1>3, <1>4
<1>6. Net!FirstFree \in Net!FreeSlots
  BY <1>5 DEF Net!FirstFree
<1> QED
  BY <1>6 DEF Net!FreeSlots

(* The block lies in the cells that follow DMA.                            *)
LEMMA BlockFields ==
  ASSUME TypeOK
  PROVE  /\ DMA \in Nat /\ MemSize \in Nat \ {0} /\ Address \subseteq Cell
         /\ \A k \in 0..4 : DMA + k \in Cell /\ Field(k) \in RegA
         /\ Length \in RegA /\ Pointer \in Nat /\ Handle \in Int
<1>1. DMA \in Nat /\ MemSize \in Nat \ {0} /\ Address \subseteq Cell
  BY Sizes, SizesAssumption DEF TypeOK, Address, Cell
<1>2. ASSUME NEW k \in 0..4
      PROVE  DMA + k \in Cell /\ Field(k) \in RegA
  <2>1. DMA + k \in Cell
    BY <1>1, Sizes, SizesAssumption, BlocksAssumption DEF TypeOK, Address, Cell
  <2> QED
    BY <2>1, Numbers DEF TypeOK, Field
<1>3. Field(1) \in Nat /\ Field(2) \in Nat /\ Field(3) \in Nat /\ Field(4) \in RegA
  <2>1. 1 \in 0..4 /\ 2 \in 0..4 /\ 3 \in 0..4 /\ 4 \in 0..4
    OBVIOUS
  <2> HIDE DEF Field
  <2>2. Field(1) \in RegA /\ Field(2) \in RegA /\ Field(3) \in RegA /\ Field(4) \in RegA
    BY <1>2, <2>1
  <2> QED
    BY <2>2, Numbers
<1>4. Handle \in Int
  BY <1>3, Numbers DEF Handle
<1>5. Pointer \in Nat
  <2>1. ByteBase * Field(3) \in Nat
    BY <1>3, Numbers, Products
  <2> QED
    BY <1>3, <2>1 DEF Pointer
<1> QED
  BY <1>1, <1>2, <1>3, <1>4, <1>5 DEF Length

(* The results of a command are bytes.                                     *)
LEMMA ResultsType ==
  ASSUME TypeOK, NEW m \in [Cell -> RegA], reply' \in Net!Reply, memory' = WithResults(m)
  PROVE  memory' \in [Cell -> Byte]
<1>1. reply'.a \in RegA
  BY DEF Net!Reply, RegA
<1>2. reply'.error # "unwritten" => Errno[reply'.error] \in RegA
  BY BlocksAssumption DEF Net!Reply
<1> QED
  BY <1>1, <1>2, Numbers DEF TypeOK, WithResults

(* What a command leaves of the controller.                                *)
LEMMA DiskKept ==
  ASSUME TypeOK, UNCHANGED disk, status' \in {"running", "aborted", "killed"}, memory' \in [Cell -> Byte]
  PROVE  TypeOK'
BY DEF TypeOK, disk, controls

(* The bytes that read() takes for descriptor f are on its stream.         *)
LEMMA DataType ==
  ASSUME NetInv, NEW f \in Descriptors, NEW k \in Nat, k <= unread[f]
  PROVE  /\ WithData(f, k) \in [Cell -> RegA]
         /\ \A i \in 1..k : Stream[f][taken[f] + i] \in RegA
         /\ taken[f] \in Nat /\ unread[f] \in Nat /\ taken[f] + k + (unread[f] - k) <= Len(Stream[f])
<1>1. /\ taken[f] \in Nat /\ unread[f] \in Nat /\ taken[f] + unread[f] <= Len(Stream[f])
      /\ Stream[f] \in Seq(RegA) /\ memory \in [Cell -> RegA] /\ Pointer \in Nat
  <2>1. taken[f] \in Nat /\ taken[f] + unread[f] <= Len(Stream[f])
    BY DEF NetInv, HistoryOK
  <2>2. unread[f] \in Nat
    BY SocketsAssumption DEF NetInv, NetOK
  <2>3. Stream[f] \in Seq(RegA)
    BY BlocksAssumption
  <2>4. memory \in [Cell -> RegA] /\ Pointer \in Nat
    BY BlockFields, Numbers DEF NetInv, TypeOK
  <2> QED
    BY <2>1, <2>2, <2>3, <2>4
<1>2. ASSUME NEW i \in 1..k
      PROVE  Stream[f][taken[f] + i] \in RegA
  <2>1. taken[f] + i \in 1..Len(Stream[f])
    BY <1>1, LenProperties
  <2> QED
    BY <1>1, <2>1, ElementOfSeq
<1>3. ASSUME NEW c \in Cell, c \in Window(k)
      PROVE  Stream[f][taken[f] + c - Pointer + 1] \in RegA
  <2>1. c - Pointer + 1 \in 1..k /\ taken[f] + (c - Pointer + 1) = taken[f] + c - Pointer + 1
    BY <1>1, <1>3 DEF Window
  <2> QED
    BY <1>2, <2>1
<1> QED
  BY <1>1, <1>2, <1>3, LenProperties DEF WithData
-----------------------------------------------------------------------------
(* The steps of the network. *)

LEMMA NetKept ==
  ASSUME NetInv, TypeOK', UNCHANGED <<realfd, mappedfd, sigpipe, open, link, unread, space>>,
         reply' \in Net!Reply, UNCHANGED history
  PROVE  NetInv'
BY DEF NetInv, NetOK, HistoryOK, Piped, InStep, history

(* A command with an answer that changes neither the kernel nor the table. *)
LEMMA AnswerStep ==
  ASSUME NetInv, UNCHANGED <<disk, realfd, mappedfd, sigpipe, open, link, unread, space, history>>,
         status' \in {"running", "aborted", "killed"},
         reply' \in Net!Reply, memory' = WithResults(memory)
  PROVE  NetInv'
<1>1. TypeOK /\ memory \in [Cell -> RegA]
  BY Numbers DEF NetInv, TypeOK
<1>2. memory' \in [Cell -> Byte]
  BY <1>1, ResultsType
<1>3. TypeOK'
  BY <1>1, <1>2, DiskKept
<1> QED
  BY <1>3, NetKept

LEMMA ConnectStep ==
  ASSUME NetInv, Connect
  PROVE  NetInv'
<1>1. TypeOK /\ memory \in [Cell -> RegA] /\ reply \in Net!Reply /\ NetOK
  BY Numbers DEF NetInv, TypeOK, NetOK
<1>2. CASE Net!SocketFails
  <2>1. UNCHANGED <<realfd, mappedfd, sigpipe, open, link, unread, space, reply>>
        /\ status' = "aborted"
    BY <1>2 DEF Net!SocketFails, Net!table, Net!kernel
  <2>2. UNCHANGED history
    <3>1. open' \ open = {}
      BY <2>1
    <3> QED
      BY <3>1 DEF Connect, history, NetInv, HistoryOK
  <2> QED
    BY <1>1, <2>1, <2>2, AnswerStep DEF Connect, Command
<1>3. CASE Net!Connect
  <2>1. PICK f \in Descriptors :
          Net!ConnectFails(f) \/ Net!ConnectSucceeds(f) \/ Net!ConnectFindsTableFull(f)
    BY <1>3 DEF Net!Connect
  <2>2. /\ open' = open \cup {f} /\ f \notin open /\ status' = "running"
        /\ \A g \in Descriptors : unread'[g] <= unread[g]
        /\ link' \in [Descriptors -> Net!LinkState]
        /\ unread' \in [Descriptors -> 0..MaxUnread] /\ space' \in [Descriptors -> 0..MaxSpace]
    <3>1. MaxUnread \in Nat /\ MaxSpace \in Nat
      BY SocketsAssumption
    <3>2. CASE Net!ConnectFails(f)
      BY <1>1, <3>1, <3>2 DEF Net!ConnectFails, NetOK, Net!LinkState
    <3>3. Net!Establish(f) => /\ open' = open \cup {f} /\ f \notin open /\ status = "running"
                              /\ \A g \in Descriptors : unread'[g] <= unread[g]
                              /\ link' \in [Descriptors -> Net!LinkState]
                              /\ unread' \in [Descriptors -> 0..MaxUnread]
                              /\ space' \in [Descriptors -> 0..MaxSpace]
      BY <1>1, <3>1 DEF Net!Establish, NetOK, Net!LinkState
    <3> QED
      BY <2>1, <3>2, <3>3 DEF Net!ConnectSucceeds, Net!ConnectFindsTableFull
  <2>3. reply' \in Net!Reply
    <3>1. CASE Net!ConnectFails(f) \/ Net!ConnectFindsTableFull(f)
      <4>1. Net!Answer("connect", 0, 0, TRUE, Net!Minus1, "unwritten")
        BY <3>1 DEF Net!ConnectFails, Net!ConnectFindsTableFull
      <4> QED
        BY <4>1, Numbers, NetAnswers
    <3>2. CASE Net!ConnectSucceeds(f)
      <4>1. Net!FirstFree \in RegA
        BY <3>2, FirstFreeIsFree, Numbers DEF Net!ConnectSucceeds
      <4>2. Net!Answer("connect", 0, 0, FALSE, Net!FirstFree, "unwritten")
        BY <3>2 DEF Net!ConnectSucceeds
      <4> QED
        BY <4>1, <4>2, Numbers, NetAnswers
    <3> QED
      BY <2>1, <3>1, <3>2
  <2>4. /\ realfd' \in [Net!Slot -> Descriptors \cup {Net!Free}]
        /\ mappedfd' \in [Net!Slot -> Net!Slot \cup {Net!Free}]
        /\ sigpipe' \in {"default", "ignored"} /\ Piped'
    <3>1. CASE Net!ConnectFails(f) \/ Net!ConnectFindsTableFull(f)
      BY <1>1, <3>1
      DEF Net!ConnectFails, Net!ConnectFindsTableFull, Net!table, NetOK, NetInv, Piped
    <3>2. CASE Net!ConnectSucceeds(f)
      <4>1. Net!FirstFree \in Net!Slot
        BY <3>2, FirstFreeIsFree DEF Net!ConnectSucceeds
      <4> QED
        BY <1>1, <3>2, <4>1 DEF Net!ConnectSucceeds, NetOK, Piped
    <3> QED
      BY <2>1, <3>1, <3>2
  <2>5. NetOK'
    BY <1>1, <2>2, <2>3, <2>4 DEF NetOK
  <2>6. open' \ open = {f}
    BY <2>2
  <2>7. /\ taken' = [g \in Descriptors |-> IF g \in {f} THEN 0 ELSE taken[g]]
        /\ delivered' = [g \in Descriptors |-> IF g \in {f} THEN <<>> ELSE delivered[g]]
        /\ spoilt' = spoilt \ {f}
    BY <2>6 DEF Connect
  <2>8. HistoryOK'
    <3>1. ASSUME NEW g \in Descriptors
          PROVE  taken'[g] \in Nat /\ taken'[g] + unread'[g] <= Len(Stream[g])
      <4>1. /\ taken[g] \in Nat /\ unread[g] \in Nat /\ taken[g] + unread[g] <= Len(Stream[g])
            /\ unread'[g] \in Nat /\ unread'[g] <= unread[g] /\ Len(Stream[g]) \in Nat
        BY <2>2, <2>5, SocketsAssumption, BlocksAssumption, LenProperties DEF NetInv, NetOK, HistoryOK
      <4>2. taken'[g] \in {0, taken[g]}
        BY <2>7
      <4> QED
        BY <4>1, <4>2
    <3>2. delivered' \in [Descriptors -> Seq(RegA)]
      BY <2>7, EmptySeq DEF NetInv, HistoryOK
    <3> QED
      BY <2>7, <3>1, <3>2 DEF NetInv, HistoryOK
  <2>9. InStep'
    <3>1. ASSUME NEW g \in Descriptors \ spoilt'
          PROVE  Len(delivered'[g]) = taken'[g] /\ \A i \in 1..taken'[g] : delivered'[g][i] = Stream[g][i]
      <4>1. CASE g = f
        BY <2>7, <4>1, EmptySeq
      <4>2. CASE g # f
        <5>1. g \in Descriptors \ spoilt /\ taken'[g] = taken[g] /\ delivered'[g] = delivered[g]
          BY <2>7, <3>1, <4>2
        <5> QED
          BY <5>1 DEF NetInv, InStep
      <4> QED
        BY <4>1, <4>2
    <3> QED
      BY <3>1 DEF InStep
  <2>10. TypeOK'
    <3>1. memory' \in [Cell -> Byte]
      BY <1>1, <2>3, ResultsType DEF Connect
    <3> QED
      BY <1>1, <2>2, <3>1, DiskKept DEF Connect, Command
  <2> QED
    BY <2>4, <2>5, <2>8, <2>9, <2>10 DEF NetInv
<1> QED
  BY <1>2, <1>3 DEF Connect

LEMMA CloseStep ==
  ASSUME NetInv, Close
  PROVE  NetInv'
<1>1. TypeOK /\ memory \in [Cell -> RegA] /\ reply \in Net!Reply /\ NetOK
      /\ UNCHANGED <<disk, history>> /\ memory' = WithResults(memory)
  BY Numbers DEF NetInv, TypeOK, NetOK, Close, Command
<1>2. ASSUME NEW s \in Net!Slot, Net!CloseFree(s)
      PROVE  NetInv'
  <2>1. UNCHANGED <<realfd, mappedfd, sigpipe, open, link, unread, space>> /\ status' = "running"
    BY <1>2 DEF Net!CloseFree, Net!table, Net!kernel
  <2>2. reply' \in Net!Reply
    BY <1>2, Numbers, NetAnswers DEF Net!CloseFree
  <2> QED
    BY <1>1, <2>1, <2>2, AnswerStep
<1>3. CASE CloseOutside
  <2>1. UNCHANGED <<realfd, mappedfd, sigpipe, open, link, unread, space>> /\ status' = "running"
    BY <1>3 DEF CloseOutside
  <2>2. reply' \in Net!Reply
    BY <1>3, Numbers, NetAnswers DEF CloseOutside
  <2> QED
    BY <1>1, <2>1, <2>2, AnswerStep
<1>4. ASSUME NEW s \in Net!Slot, Net!Close(s)
      PROVE  NetInv'
  <2>1. /\ realfd[s] \in Descriptors /\ open' = open \ {realfd[s]} /\ status' = "running"
        /\ link' = [link EXCEPT ![realfd[s]] = "none"]
        /\ unread' = [unread EXCEPT ![realfd[s]] = 0]
        /\ space' = [space EXCEPT ![realfd[s]] = 0]
        /\ realfd' = [realfd EXCEPT ![s] = Net!Free]
        /\ mappedfd' = [mappedfd EXCEPT ![s] = Net!Free]
        /\ sigpipe' = sigpipe
    BY <1>1, <1>4 DEF Net!Close, Net!CloseKernel, NetOK
  <2>2. reply' \in Net!Reply
    BY <1>4, Numbers, NetAnswers DEF Net!Close
  <2>3. NetOK'
    BY <1>1, <2>1, <2>2, SocketsAssumption DEF NetOK, Net!LinkState
  <2>4. Piped'
    BY <1>1, <2>1 DEF NetInv, NetOK, Piped
  <2>5. HistoryOK' /\ InStep'
    <3>1. \A g \in Descriptors : unread'[g] \in {0, unread[g]}
      BY <1>1, <2>1 DEF NetOK
    <3>2. ASSUME NEW g \in Descriptors
          PROVE  taken'[g] + unread'[g] <= Len(Stream[g])
      <4>1. /\ taken[g] \in Nat /\ unread[g] \in Nat /\ taken[g] + unread[g] <= Len(Stream[g])
            /\ Len(Stream[g]) \in Nat /\ taken'[g] = taken[g]
        BY <1>1, SocketsAssumption, BlocksAssumption, LenProperties DEF NetInv, NetOK, HistoryOK, history
      <4> QED
        BY <3>1, <4>1
    <3> QED
      BY <1>1, <3>2 DEF NetInv, HistoryOK, InStep, history
  <2>6. TypeOK'
    <3>1. memory' \in [Cell -> Byte]
      BY <1>1, <2>2, ResultsType
    <3> QED
      BY <1>1, <2>1, <3>1, DiskKept
  <2> QED
    BY <2>3, <2>4, <2>5, <2>6 DEF NetInv
<1> QED
  BY <1>2, <1>3, <1>4 DEF Close
LEMMA SendStep ==
  ASSUME NetInv, Send
  PROVE  NetInv'
<1>1. PICK s \in Net!Slot :
        Net!BadHandle("send", s, Length) \/ Net!Send(s, Length) \/ Net!SendFails(s, Length)
  BY DEF Send
<1>2. /\ TypeOK /\ NetOK /\ reply \in Net!Reply /\ Length \in RegA
      /\ memory \in [Cell -> RegA] /\ memory' = WithResults(memory)
      /\ UNCHANGED <<disk, history>>
  BY BlockFields, Numbers DEF NetInv, NetOK, TypeOK, Send, Command
<1>3. CASE Net!BadHandle("send", s, Length)
  <2>1. reply' \in Net!Reply
    BY <1>2, <1>3, Numbers, NetAnswers DEF Net!BadHandle, Net!Errors
  <2> QED
    BY <1>2, <1>3, <2>1, AnswerStep DEF Net!BadHandle, Net!table, Net!kernel
<1>4. CASE Net!SendFails(s, Length)
  <2>1. PICK e \in Net!SendErrors(realfd[s], Length) :
         \/ /\ e = "EPIPE" /\ sigpipe = "ignored"
            /\ Net!Answer("send", s, Length, TRUE, Net!Minus1, "EPIPE")
            /\ UNCHANGED status
         \/ /\ e = "EPIPE" /\ sigpipe = "default"
            /\ status' = "killed"
            /\ UNCHANGED reply
         \/ /\ e # "EPIPE"
            /\ status' = "aborted"
            /\ UNCHANGED reply
    BY <1>4 DEF Net!SendFails
  <2>2. status = "running" /\ sigpipe = "ignored"
        /\ UNCHANGED <<realfd, mappedfd, sigpipe, open, link, unread, space>>
    BY <1>4 DEF Net!SendFails, Net!table, Net!kernel, NetInv, Piped
  <2>3. reply' \in Net!Reply /\ status' \in {"running", "aborted"}
    BY <1>2, <2>1, <2>2, Numbers, NetAnswers DEF Net!Errors
  <2> QED
    BY <1>2, <2>2, <2>3, AnswerStep
<1>5. CASE Net!Send(s, Length)
  <2>1. PICK k \in 0..Length : /\ k <= space[realfd[s]]
                               /\ space' = [space EXCEPT ![realfd[s]] = @ - k]
                               /\ Net!Answer("send", s, Length, FALSE, k, "0")
    BY <1>5 DEF Net!Send
  <2>2. k \in RegA /\ k \in Nat
    BY <1>2, SizesAssumption DEF RegA
  <2>3. reply' \in Net!Reply
    BY <1>2, <2>1, <2>2, NetAnswers
  <2>4. space' \in [Descriptors -> 0..MaxSpace]
    BY <1>2, <1>5, <2>1, <2>2, SocketsAssumption DEF Net!Send, NetOK
  <2>5. UNCHANGED <<realfd, mappedfd, sigpipe, open, link, unread>> /\ status' = "running"
    BY <1>5 DEF Net!Send, Net!table
  <2>6. TypeOK'
    <3>1. memory' \in [Cell -> Byte]
      BY <1>2, <2>3, ResultsType
    <3> QED
      BY <1>2, <2>5, <3>1, DiskKept
  <2> QED
    BY <1>2, <2>3, <2>4, <2>5, <2>6 DEF NetInv, NetOK, HistoryOK, Piped, InStep, history
<1> QED
  BY <1>1, <1>3, <1>4, <1>5

(* What taking k bytes of the stream of f into memory leaves.              *)
LEMMA TakenStep ==
  ASSUME NetInv, NEW f \in Descriptors, NEW k \in Nat, k <= unread[f],
         unread' = [unread EXCEPT ![f] = @ - k], taken' = [taken EXCEPT ![f] = @ + k],
         reply' \in Net!Reply, memory' = WithResults(WithData(f, k)),
         status' = "running", UNCHANGED <<disk, realfd, mappedfd, sigpipe, open, link, space>>
  PROVE  /\ TypeOK' /\ NetOK' /\ Piped' /\ taken' \in [Descriptors -> Nat]
         /\ \A g \in Descriptors : taken'[g] + unread'[g] <= Len(Stream[g])
<1>1. /\ TypeOK /\ NetOK /\ HistoryOK
  BY DEF NetInv
<1>2. /\ WithData(f, k) \in [Cell -> RegA] /\ taken[f] \in Nat /\ unread[f] \in Nat
      /\ taken[f] + k + (unread[f] - k) <= Len(Stream[f])
  BY DataType
<1>3. TypeOK'
  <2>1. memory' \in [Cell -> Byte]
    BY <1>1, <1>2, ResultsType
  <2> QED
    BY <1>1, <2>1, DiskKept
<1>4. unread' \in [Descriptors -> 0..MaxUnread]
  BY <1>1, SocketsAssumption DEF NetOK
<1>5. NetOK' /\ Piped'
  BY <1>1, <1>4 DEF NetInv, NetOK, Piped
<1>6. taken' \in [Descriptors -> Nat]
  BY <1>1 DEF HistoryOK
<1>7. ASSUME NEW g \in Descriptors
      PROVE  taken'[g] + unread'[g] <= Len(Stream[g])
  <2>1. CASE g = f
    <3>1. taken'[f] = taken[f] + k /\ unread'[f] = unread[f] - k
      BY <1>1 DEF HistoryOK, NetOK
    <3> QED
      BY <1>2, <2>1, <3>1
  <2>2. CASE g # f
    BY <1>1, <2>2 DEF HistoryOK, NetOK
  <2> QED
    BY <2>1, <2>2
<1> QED
  BY <1>3, <1>5, <1>6, <1>7

(* What the guest finds after RECV: as many bytes as were read, and the    *)
(* bytes themselves unless they fell on the results or past the memory.    *)
LEMMA FoundIsData ==
  ASSUME NetInv, NEW f \in Descriptors, NEW k \in RegA, k <= unread[f], TypeOK',
         reply'.a = k, reply'.error = "0", memory' = WithResults(WithData(f, k)),
         status' = "running"
  PROVE  /\ Found \in Seq(RegA) /\ Len(Found) = k
         /\ WindowClear(k) => \A i \in 1..k : Found[i] = Stream[f][taken[f] + i]
<1>1. /\ DMA \in Nat /\ MemSize \in Nat \ {0} /\ Address \subseteq Cell /\ Pointer \in Nat
      /\ DMA + 1 \in Cell /\ DMA + 2 \in Cell
      /\ k \in Nat /\ memory' \in [Cell -> RegA]
  <2>1. 1 \in 0..4 /\ 2 \in 0..4
    OBVIOUS
  <2> QED
    BY <2>1, BlockFields, Numbers DEF NetInv, TypeOK
<1>2. \A c \in Cell : memory'[c] = IF c = DMA + 1 THEN k
                               ELSE IF c = DMA + 2 THEN Errno["0"]
                               ELSE WithData(f, k)[c]
  BY DEF WithResults
<1>3. Counted = k
  <2>1. memory'[DMA + 1] = k /\ memory'[DMA + 2] = Errno["0"]
    BY <1>1, <1>2
  <2> QED
    BY <2>1 DEF Counted
<1>4. Found = [i \in 1..k |-> memory'[(Pointer + i - 1) % MemSize]]
  BY <1>3 DEF Found
<1>5. ASSUME NEW i \in 1..k
      PROVE  (Pointer + i - 1) % MemSize \in Address
  <2>1. Pointer + i - 1 \in Int
    BY <1>1
  <2> QED
    BY <1>1, <2>1, Division DEF Address
<1>6. Found \in [1..k -> RegA]
  BY <1>1, <1>4, <1>5
<1>7. Found \in Seq(RegA) /\ Len(Found) = k
  BY <1>1, <1>6
<1>8. ASSUME WindowClear(k), NEW i \in 1..k
      PROVE  Found[i] = Stream[f][taken[f] + i]
  <2> DEFINE c == Pointer + i - 1
  <2>1. c \in Window(k) /\ c \in Int
    BY <1>1 DEF Window
  <2>2. c \in Address /\ c # DMA + 1 /\ c # DMA + 2
    BY <1>8, <2>1 DEF WindowClear, ResultCells
  <2>3. c % MemSize = c
    BY <1>1, <2>2 DEF Address
  <2>4. Found[i] = WithData(f, k)[c]
    BY <1>1, <1>2, <1>4, <2>2, <2>3
  <2>5. WithData(f, k)[c] = Stream[f][taken[f] + c - Pointer + 1]
    BY <1>1, <2>1, <2>2 DEF WithData
  <2>6. taken[f] + c - Pointer + 1 = taken[f] + i
    BY <1>1, DataType
  <2> QED
    BY <2>4, <2>5, <2>6
<1> QED
  BY <1>7, <1>8

LEMMA ReceiveStep ==
  ASSUME NetInv, UNCHANGED disk, NEW s \in Net!Slot, Receive(s)
  PROVE  NetInv'
<1> DEFINE f == realfd[s]
<1>1. /\ TypeOK /\ NetOK /\ HistoryOK /\ InStep /\ Length \in RegA
  BY BlockFields DEF NetInv
<1>2. /\ f \in Descriptors /\ status' = "running"
      /\ UNCHANGED <<realfd, mappedfd, sigpipe, open, link, space>>
  BY <1>1 DEF Receive, Net!Receive, NetOK, Net!table
<1>3. PICK k \in 0..Length : /\ k <= unread[f] /\ unread' = [unread EXCEPT ![f] = @ - k]
                             /\ Net!Answer("recv", s, Length, FALSE, k, "0")
  BY DEF Receive, Net!Receive
<1>4. k \in RegA /\ k \in Nat
  BY <1>1, SizesAssumption DEF RegA
<1>5. reply' \in Net!Reply /\ reply'.a = k /\ reply'.error = "0"
  BY <1>1, <1>3, <1>4, NetAnswers
<1>6. /\ memory' = WithResults(WithData(f, k))
      /\ taken' = [taken EXCEPT ![f] = @ + k]
      /\ delivered' = [delivered EXCEPT ![f] = @ \o Found]
      /\ spoilt' = IF WindowClear(k) THEN spoilt ELSE spoilt \cup {f}
  BY <1>5 DEF Receive
<1> HIDE DEF f
<1>7. /\ TypeOK' /\ NetOK' /\ Piped' /\ taken' \in [Descriptors -> Nat]
      /\ \A g \in Descriptors : taken'[g] + unread'[g] <= Len(Stream[g])
  BY <1>2, <1>3, <1>4, <1>5, <1>6, TakenStep
<1>8. /\ Found \in Seq(RegA) /\ Len(Found) = k
      /\ WindowClear(k) => \A i \in 1..k : Found[i] = Stream[f][taken[f] + i]
  BY <1>2, <1>3, <1>4, <1>5, <1>6, <1>7, FoundIsData
<1>9. /\ delivered[f] \in Seq(RegA) /\ Len(delivered[f]) \in Nat /\ taken[f] \in Nat
      /\ delivered'[f] = delivered[f] \o Found /\ taken'[f] = taken[f] + k
      /\ \A g \in Descriptors \ {f} : delivered'[g] = delivered[g] /\ taken'[g] = taken[g]
  BY <1>1, <1>2, <1>6, LenProperties DEF HistoryOK
<1>10. /\ delivered'[f] \in Seq(RegA) /\ Len(delivered'[f]) = Len(delivered[f]) + k
       /\ \A i \in 1..Len(delivered[f])+k :
             delivered'[f][i] = IF i <= Len(delivered[f]) THEN delivered[f][i]
                                ELSE Found[i - Len(delivered[f])]
  <2>1. /\ delivered[f] \o Found \in Seq(RegA)
        /\ Len(delivered[f] \o Found) = Len(delivered[f]) + Len(Found)
        /\ \A i \in 1..Len(delivered[f])+Len(Found) :
              (delivered[f] \o Found)[i] = IF i <= Len(delivered[f]) THEN delivered[f][i]
                                           ELSE Found[i - Len(delivered[f])]
    BY <1>8, <1>9, ConcatProperties
  <2>2. Len(Found) = k /\ delivered'[f] = delivered[f] \o Found
    BY <1>8, <1>9
  <2> QED
    BY <2>1, <2>2
<1>11. HistoryOK'
  <2>1. delivered' \in [Descriptors -> Seq(RegA)]
    BY <1>1, <1>6, <1>9, <1>10 DEF HistoryOK
  <2>2. spoilt' \subseteq Descriptors
    BY <1>1, <1>2, <1>6 DEF HistoryOK
  <2> QED
    BY <1>7, <2>1, <2>2 DEF HistoryOK
<1>12. InStep'
  <2>1. SUFFICES ASSUME NEW g \in Descriptors \ spoilt'
                 PROVE  /\ Len(delivered'[g]) = taken'[g]
                        /\ \A i \in 1..taken'[g] : delivered'[g][i] = Stream[g][i]
    BY DEF InStep
  <2>2. g \in Descriptors \ spoilt
    BY <1>6, <2>1
  <2>3. Len(delivered[g]) = taken[g] /\ \A i \in 1..taken[g] : delivered[g][i] = Stream[g][i]
    BY <1>1, <2>2 DEF InStep
  <2>4. CASE g # f
    BY <1>9, <2>3, <2>4
  <2>5. CASE g = f
    <3>1. WindowClear(k)
      BY <1>6, <2>1, <2>5
    <3>2. Len(delivered'[f]) = taken'[f]
      BY <1>9, <1>10, <2>3, <2>5
    <3>3. ASSUME NEW i \in 1..taken[f]+k
          PROVE  delivered'[f][i] = Stream[f][i]
      <4>1. CASE i <= taken[f]
        BY <1>4, <1>9, <1>10, <2>3, <2>5, <4>1
      <4>2. CASE ~(i <= taken[f])
        <5>1. i - taken[f] \in 1..k /\ taken[f] + (i - taken[f]) = i
          BY <1>4, <1>9, <4>2
        <5>2. Found[i - taken[f]] = Stream[f][taken[f] + (i - taken[f])]
          BY <1>8, <3>1, <5>1
        <5>3. delivered'[f][i] = Found[i - taken[f]]
          BY <1>4, <1>9, <1>10, <2>3, <2>5, <4>2
        <5> QED
          BY <5>1, <5>2, <5>3
      <4> QED
        BY <4>1, <4>2
    <3> QED
      BY <1>9, <2>5, <3>2, <3>3
  <2> QED
    BY <2>4, <2>5
<1> QED
  BY <1>7, <1>11, <1>12 DEF NetInv

LEMMA RecvStep ==
  ASSUME NetInv, Recv
  PROVE  NetInv'
<1>1. UNCHANGED disk
  BY DEF Recv, Command
<1>2. PICK s \in Net!Slot : Receive(s) \/ ReceiveNothing(s)
  BY DEF Recv
<1>3. CASE Receive(s)
  BY <1>1, <1>3, ReceiveStep
<1>4. CASE ReceiveNothing(s)
  <2>1. Length \in RegA /\ memory' = WithResults(memory) /\ UNCHANGED history
    BY <1>4, BlockFields DEF NetInv, ReceiveNothing
  <2>2. CASE Net!BadHandle("recv", s, Length)
    <3>1. reply' \in Net!Reply
      BY <2>1, <2>2, Numbers, NetAnswers DEF Net!BadHandle, Net!Errors
    <3> QED
      BY <1>1, <2>1, <2>2, <3>1, AnswerStep DEF Net!BadHandle, Net!table, Net!kernel
  <2>3. CASE Net!ReceiveFails(s, Length)
    <3>1. PICK e \in Net!ReceiveErrors(realfd[s], Length) :
            Net!Answer("recv", s, Length, TRUE, Net!Minus1, e)
      BY <2>3 DEF Net!ReceiveFails
    <3>2. e \in Net!Errors
      BY <3>1 DEF Net!ReceiveErrors, Net!Errors
    <3>3. reply' \in Net!Reply
      BY <2>1, <3>1, <3>2, Numbers, NetAnswers
    <3> QED
      BY <1>1, <2>1, <2>3, <3>3, AnswerStep DEF Net!ReceiveFails, Net!table, Net!kernel
  <2> QED
    BY <1>4, <2>2, <2>3 DEF ReceiveNothing
<1> QED
  BY <1>2, <1>3, <1>4
LEMMA StrayRefusedStep ==
  ASSUME NetInv, NEW op \in {"send", "recv"}, NEW i, Stray(i), StrayRefused(op)
  PROVE  NetInv'
<1>1. /\ UNCHANGED <<disk, realfd, mappedfd, sigpipe, open, link, unread, space, history>>
      /\ status = "running" /\ memory' = WithResults(memory)
  BY DEF Stray, StrayRefused, Command, history
<1>2. reply' \in Net!Reply /\ status' \in {"running", "aborted", "killed"}
  <2>1. Length \in RegA /\ reply \in Net!Reply
    BY BlockFields DEF NetInv, NetOK
  <2>2. ASSUME NEW e \in StrayErrors(op), Net!Answer(op, 0, Length, TRUE, Net!Minus1, e),
               UNCHANGED status
        PROVE  reply' \in Net!Reply /\ status' \in {"running", "aborted", "killed"}
    <3>1. /\ op \in {"none", "connect", "close", "send", "recv"} /\ 0 \in Net!Slot
          /\ Net!Minus1 \in RegA /\ e \in Net!Errors \cup {"0", "unwritten"}
      BY <2>2, Numbers DEF Net!Errors, StrayErrors
    <3>2. reply' \in Net!Reply
      BY <2>1, <2>2, <3>1, NetAnswers
    <3> QED
      BY <1>1, <2>2, <3>2
  <2>3. CASE status' \in {"aborted", "killed"} /\ UNCHANGED reply
    BY <2>1, <2>3
  <2> QED
    BY <2>2, <2>3 DEF StrayRefused
<1> QED
  BY <1>1, <1>2, AnswerStep

LEMMA StraySendStep ==
  ASSUME NetInv, StraySend
  PROVE  NetInv'
<1>1. Stray(TCP_SEND) /\ UNCHANGED <<disk, realfd, mappedfd, sigpipe, open, link, delivered>>
  BY DEF StraySend, Stray, Command
<1>2. CASE StrayRefused("send")
  BY <1>1, <1>2, StrayRefusedStep
<1>3. ASSUME NEW k \in 0..Length, StrayBytes("send", k), memory' = WithResults(memory),
             \/ UNCHANGED space
             \/ \E f \in open : k <= space[f] /\ space' = [space EXCEPT ![f] = @ - k],
             UNCHANGED <<unread, taken, spoilt>>
      PROVE  NetInv'
  <2>1. /\ TypeOK /\ NetOK /\ Length \in RegA /\ memory \in [Cell -> RegA] /\ status' = "running"
    BY <1>1, <1>3, BlockFields, Numbers DEF NetInv, TypeOK, Stray, StrayBytes
  <2>2. k \in RegA /\ k \in Nat
    BY <2>1, SizesAssumption DEF RegA
  <2>3. reply' \in Net!Reply
    BY <1>3, <2>1, <2>2, Numbers, NetAnswers DEF StrayBytes
  <2>4. TypeOK'
    <3>1. memory' \in [Cell -> Byte]
      BY <1>3, <2>1, <2>3, ResultsType
    <3> QED
      BY <1>1, <2>1, <3>1, DiskKept
  <2>5. space' \in [Descriptors -> 0..MaxSpace]
    <3>1. CASE UNCHANGED space
      BY <2>1, <3>1 DEF NetOK
    <3>2. ASSUME NEW f \in open, k <= space[f], space' = [space EXCEPT ![f] = @ - k]
          PROVE  space' \in [Descriptors -> 0..MaxSpace]
      BY <2>1, <2>2, <3>2, SocketsAssumption DEF NetOK
    <3> QED
      BY <1>3, <3>1, <3>2
  <2> QED
    BY <1>1, <1>3, <2>3, <2>4, <2>5 DEF NetInv, NetOK, HistoryOK, Piped, InStep
<1> QED
  BY <1>2, <1>3 DEF StraySend

LEMMA StrayRecvStep ==
  ASSUME NetInv, StrayRecv
  PROVE  NetInv'
<1>1. Stray(TCP_RECV) /\ UNCHANGED <<disk, realfd, mappedfd, sigpipe, open, link, delivered>>
  BY DEF StrayRecv, Stray, Command
<1>2. TypeOK /\ NetOK /\ HistoryOK /\ Length \in RegA /\ memory \in [Cell -> RegA]
  BY BlockFields, Numbers DEF NetInv, TypeOK
<1>3. CASE StrayRefused("recv")
  BY <1>1, <1>3, StrayRefusedStep
<1>4. ASSUME NEW k \in 0..Length, StrayBytes("recv", k)
      PROVE  k \in RegA /\ k \in Nat /\ reply' \in Net!Reply /\ status' = "running"
  <2>1. k \in RegA /\ k \in Nat
    BY <1>2, SizesAssumption DEF RegA
  <2> QED
    BY <1>1, <1>2, <1>4, <2>1, Numbers, NetAnswers DEF StrayBytes, Stray
<1>5. ASSUME NEW k \in 0..Length, StrayBytes("recv", k), NEW b \in StrayData,
             memory' = WithResults([c \in Cell |-> IF c \in Window(k) THEN b ELSE memory[c]]),
             UNCHANGED <<space, unread, taken, spoilt>>
      PROVE  NetInv'
  <2>1. [c \in Cell |-> IF c \in Window(k) THEN b ELSE memory[c]] \in [Cell -> RegA]
    BY <1>2, BlocksAssumption
  <2>2. TypeOK'
    <3>1. memory' \in [Cell -> Byte]
      BY <1>2, <1>4, <1>5, <2>1, ResultsType
    <3> QED
      BY <1>1, <1>2, <1>4, <1>5, <3>1, DiskKept
  <2> QED
    BY <1>1, <1>4, <1>5, <2>2, NetKept DEF history
<1>6. ASSUME NEW k \in 0..Length, StrayBytes("recv", k), UNCHANGED space,
             NEW f \in open, k <= unread[f], memory' = WithResults(WithData(f, k)),
             unread' = [unread EXCEPT ![f] = @ - k],
             taken' = [taken EXCEPT ![f] = @ + k],
             spoilt' = spoilt \cup {f}
      PROVE  NetInv'
  <2>1. f \in Descriptors /\ k \in Nat /\ reply' \in Net!Reply /\ status' = "running"
    BY <1>2, <1>4, <1>6 DEF NetOK
  <2>2. /\ TypeOK' /\ NetOK' /\ Piped' /\ taken' \in [Descriptors -> Nat]
        /\ \A g \in Descriptors : taken'[g] + unread'[g] <= Len(Stream[g])
    BY <1>1, <1>6, <2>1, TakenStep
  <2>3. HistoryOK'
    BY <1>1, <1>2, <1>6, <2>1, <2>2 DEF HistoryOK
  <2>4. InStep'
    <3>1. ASSUME NEW g \in Descriptors \ spoilt'
          PROVE  g \in Descriptors \ spoilt /\ taken'[g] = taken[g] /\ delivered'[g] = delivered[g]
      BY <1>1, <1>2, <1>6, <3>1 DEF HistoryOK
    <3> QED
      BY <3>1 DEF InStep, NetInv
  <2> QED
    BY <2>2, <2>3, <2>4 DEF NetInv
<1> QED
  BY <1>3, <1>5, <1>6 DEF StrayRecv

LEMMA UnknownStep ==
  ASSUME NetInv, UnknownInstruction
  PROVE  NetInv'
<1>1. /\ UNCHANGED <<realfd, mappedfd, sigpipe, open, link, unread, space, reply, memory, history, disk>>
      /\ status' = "aborted"
  BY DEF UnknownInstruction, Net!UnknownInstruction, Net!table, Net!kernel, Command
<1>2. TypeOK'
  BY <1>1, DiskKept DEF NetInv, TypeOK
<1> QED
  BY <1>1, <1>2, NetKept DEF NetInv, NetOK

LEMMA UnhandledPortStep ==
  ASSUME NetInv, UnhandledPort
  PROVE  NetInv'
<1>1. /\ UNCHANGED <<calls, history, memory, disk>> /\ status' = "aborted"
  BY DEF UnhandledPort, network
<1>2. TypeOK'
  BY <1>1, DiskKept DEF NetInv, TypeOK
<1> QED
  BY <1>1, <1>2, NetKept DEF NetInv, NetOK, calls

LEMMA PeerStep ==
  ASSUME NetInv, Peer
  PROVE  NetInv'
<1>1. PICK f \in Descriptors :
        /\ \/ Net!PeerSends(f) /\ taken[f] + unread[f] < Len(Stream[f])
           \/ Net!PeerShuts(f) \/ Net!PeerResets(f) \/ Net!PeerTakes(f)
        /\ UNCHANGED <<disk, memory, history, prepared, commands>>
  BY DEF Peer
<1>2. NetOK /\ HistoryOK /\ TypeOK /\ MaxUnread \in Nat /\ MaxSpace \in Nat
  BY SocketsAssumption DEF NetInv
<1>3. UNCHANGED <<status, realfd, mappedfd, sigpipe, open, reply>>
  BY <1>1 DEF Net!PeerSends, Net!PeerShuts, Net!PeerResets, Net!PeerTakes, Net!table
<1>4. TypeOK'
  BY <1>1, <1>2, <1>3 DEF TypeOK, disk, controls
<1>5. /\ link' \in [Descriptors -> Net!LinkState]
      /\ unread' \in [Descriptors -> 0..MaxUnread] /\ space' \in [Descriptors -> 0..MaxSpace]
  <2>1. CASE Net!PeerSends(f)
    BY <1>2, <2>1 DEF Net!PeerSends, NetOK
  <2>2. CASE Net!PeerShuts(f)
    BY <1>2, <2>2 DEF Net!PeerShuts, Net!LinkState, NetOK
  <2>3. CASE Net!PeerResets(f)
    BY <1>2, <2>3 DEF Net!PeerResets, Net!LinkState, NetOK
  <2>4. CASE Net!PeerTakes(f)
    BY <1>2, <2>4 DEF Net!PeerTakes, NetOK
  <2> QED
    BY <1>1, <2>1, <2>2, <2>3, <2>4
<1>6. ASSUME NEW g \in Descriptors
      PROVE  taken'[g] + unread'[g] <= Len(Stream[g])
  <2>1. /\ taken'[g] = taken[g] /\ taken[g] \in Nat /\ unread[g] \in Nat /\ unread'[g] \in Nat
        /\ taken[g] + unread[g] <= Len(Stream[g]) /\ Len(Stream[g]) \in Nat
    BY <1>1, <1>2, <1>5, BlocksAssumption, LenProperties DEF history, HistoryOK, NetOK
  <2>2. CASE Net!PeerSends(f) /\ taken[f] + unread[f] < Len(Stream[f])
    <3>1. unread'[g] = IF g = f THEN unread[g] + 1 ELSE unread[g]
      BY <1>2, <2>2 DEF Net!PeerSends, NetOK
    <3> QED
      BY <2>1, <2>2, <3>1
  <2>3. CASE Net!PeerShuts(f) \/ Net!PeerResets(f) \/ Net!PeerTakes(f)
    <3>1. unread'[g] \in {0, unread[g]}
      BY <1>2, <2>3 DEF Net!PeerShuts, Net!PeerResets, Net!PeerTakes, NetOK
    <3> QED
      BY <2>1, <3>1
  <2> QED
    BY <1>1, <2>2, <2>3
<1>7. NetOK' /\ HistoryOK'
  BY <1>1, <1>2, <1>3, <1>5, <1>6 DEF NetOK, HistoryOK, history
<1> QED
  BY <1>1, <1>3, <1>4, <1>7 DEF NetInv, Piped, InStep, history

(* Stores of the guest, and the disk controller, leave the network alone.  *)
LEMMA StoreStep ==
  ASSUME NetInv, Store
  PROVE  NetInv'
<1>1. PICK b \in Blocks : GuestStores(b)
  BY DEF Store
<1>2. /\ UNCHANGED <<disk, calls, history, status>> /\ status = "running"
      /\ memory' = [c \in Cell |->
           IF \E i \in 1..Len(b) : c = (DMA + i - 1) % MemSize
           THEN b[CHOOSE i \in 1..Len(b) : c = (DMA + i - 1) % MemSize]
           ELSE memory[c]]
  BY <1>1 DEF GuestStores
<1>3. memory' \in [Cell -> Byte]
  <2>1. ASSUME NEW c \in Cell, \E i \in 1..Len(b) : c = (DMA + i - 1) % MemSize
        PROVE  b[CHOOSE i \in 1..Len(b) : c = (DMA + i - 1) % MemSize] \in Byte
    <3>1. (CHOOSE i \in 1..Len(b) : c = (DMA + i - 1) % MemSize) \in 1..Len(b)
      BY <2>1, Zenon
    <3>2. b \in Seq(Byte)
      BY BlocksAssumption
    <3> QED
      BY <3>1, <3>2, ElementOfSeq
  <2> QED
    BY <1>2, <2>1 DEF NetInv, TypeOK
<1>4. TypeOK'
  BY <1>2, <1>3, DiskKept DEF NetInv
<1> QED
  BY <1>2, <1>4, NetKept DEF NetInv, NetOK, calls

LEMMA DiskStep ==
  ASSUME NetInv, Disk
  PROVE  NetInv'
<1>1. TypeOK'
  BY NextType DEF NetInv, Disk
<1> QED
  BY <1>1, NetKept DEF NetInv, NetOK, Disk, network, calls

LEMMA NextNetInv ==
  ASSUME NetInv, [BusNext]_busvars
  PROVE  NetInv'
<1>1. CASE Network
  BY <1>1, ConnectStep, CloseStep, SendStep, RecvStep, StraySendStep, StrayRecvStep, UnknownStep
  DEF Network
<1>2. CASE UNCHANGED <<vars, network>>
  <2>1. TypeOK'
    BY <1>2 DEF NetInv, TypeOK, vars
  <2> QED
    BY <1>2, <2>1, NetKept DEF NetInv, NetOK, network, calls
<1>3. CASE UNCHANGED busvars
  BY <1>2, <1>3 DEF busvars
<1> QED
  BY <1>1, <1>2, <1>3, DiskStep, StoreStep, UnhandledPortStep, PeerStep DEF BusNext, ReadClock

LEMMA InitNetInv == BusInit => NetInv
<1> SUFFICES ASSUME BusInit PROVE NetInv
  OBVIOUS
<1>1. TypeOK
  BY InitType DEF BusInit
<1>2. MaxUnread \in Nat /\ MaxSpace \in Nat /\ 0 \in Net!Slot /\ 0 \in RegA
  BY SocketsAssumption, Numbers
<1>3. reply \in Net!Reply
  BY <1>2 DEF BusInit, Net!Reply, RegA
<1>4. NetOK
  BY <1>2, <1>3 DEF BusInit, NetOK, Net!LinkState
<1>5. HistoryOK
  <2>1. \A f \in Descriptors : Len(Stream[f]) \in Nat
    BY BlocksAssumption, LenProperties
  <2> QED
    BY <2>1, EmptySeq DEF BusInit, HistoryOK
<1>6. Piped /\ InStep
  BY EmptySeq DEF BusInit, Piped, InStep
<1> QED
  BY <1>1, <1>4, <1>5, <1>6 DEF NetInv
-----------------------------------------------------------------------------
(* What a command does to memory. *)

LEMMA ResultsConfined ==
  ASSUME NEW m, memory' = WithResults(m), NEW c \in Cell, memory'[c] # memory[c]
  PROVE  \/ c = DMA + 1
         \/ c = DMA + 2 /\ status' = "running" /\ reply'.error # "unwritten"
         \/ m[c] # memory[c]
BY DEF WithResults

LEMMA ResultsRead ==
  ASSUME TypeOK, status' = "running", NEW m, memory' = WithResults(m)
  PROVE  /\ memory'[DMA + 1] = reply'.a
         /\ reply'.error # "unwritten" => memory'[DMA + 2] = Errno[reply'.error]
<1>1. 1 \in 0..4 /\ 2 \in 0..4
  OBVIOUS
<1>2. DMA + 1 \in Cell /\ DMA + 2 \in Cell /\ DMA + 1 # DMA + 2
  BY <1>1, BlockFields
<1> QED
  BY <1>2 DEF WithResults

(* CONNECT and CLOSE store no error number.                                *)
LEMMA NoErrorStored ==
  ASSUME NetInv, Connect \/ Close, status' = "running"
  PROVE  reply'.error = "unwritten"
BY DEF Connect, Net!Connect, Net!ConnectFails, Net!ConnectSucceeds, Net!ConnectFindsTableFull,
       Net!SocketFails, Close, Net!Close, Net!CloseFree, CloseOutside, Net!Answer

Confined(c) ==
  \/ c = DMA + 1
  \/ c = DMA + 2 /\ Field(0) \in {TCP_SEND, TCP_RECV}
  \/ c \in Window(Length) /\ Field(0) = TCP_RECV

LEMMA NetworkConfined ==
  ASSUME NetInv, Network, NEW c \in Cell, memory'[c] # memory[c]
  PROVE  Confined(c)
<1>1. Length \in RegA /\ Pointer \in Nat /\ NetOK /\ ByteBase \in Nat
  BY BlockFields, SizesAssumption DEF NetInv
<1>2. CASE Connect \/ Close
  BY <1>2, ResultsConfined, NoErrorStored DEF Connect, Close, Confined
<1>3. CASE Send \/ StraySend
  <2>1. Field(0) = TCP_SEND /\ memory' = WithResults(memory)
    BY <1>3 DEF Send, StraySend, Stray, StrayRefused, Command
  <2> QED
    BY <2>1, ResultsConfined DEF Confined
<1>4. CASE Recv \/ StrayRecv
  <2>1. Field(0) = TCP_RECV
    BY <1>4 DEF Recv, StrayRecv, Stray, Command
  <2>2. PICK k \in 0..Length : \E m :
             /\ memory' = WithResults(m)
             /\ \A d \in Cell \ Window(k) : m[d] = memory[d]
    <3>1. ASSUME NEW s \in Net!Slot, Receive(s)
          PROVE  \E k \in 0..Length : \E m :
                   /\ memory' = WithResults(m)
                   /\ \A d \in Cell \ Window(k) : m[d] = memory[d]
      <4>1. PICK k \in 0..Length : Net!Answer("recv", s, Length, FALSE, k, "0")
        BY <3>1 DEF Receive, Net!Receive
      <4>2. k \in RegA
        BY <1>1, <4>1 DEF RegA
      <4>3. reply'.a = k
        BY <1>1, <4>1, <4>2, NetAnswers
      <4> QED
        BY <3>1, <4>3 DEF Receive, WithData
    <3>2. ASSUME memory' = WithResults(memory)
          PROVE  \E k \in 0..Length : \E m :
                   /\ memory' = WithResults(m)
                   /\ \A d \in Cell \ Window(k) : m[d] = memory[d]
      <4>1. 0 \in 0..Length
        BY <1>1 DEF RegA
      <4> QED
        BY <3>2, <4>1
    <3>3. CASE Recv
      BY <3>1, <3>2, <3>3 DEF Recv, ReceiveNothing
    <3>4. CASE StrayRecv
      <4>1. CASE StrayRefused("recv")
        BY <3>2, <4>1 DEF StrayRefused
      <4>2. ASSUME NEW k \in 0..Length, NEW b,
                   memory' = WithResults([d \in Cell |-> IF d \in Window(k) THEN b ELSE memory[d]])
            PROVE  \E i \in 0..Length : \E m :
                     /\ memory' = WithResults(m)
                     /\ \A d \in Cell \ Window(i) : m[d] = memory[d]
        BY <4>2
      <4>3. ASSUME NEW k \in 0..Length, NEW f, memory' = WithResults(WithData(f, k))
            PROVE  \E i \in 0..Length : \E m :
                     /\ memory' = WithResults(m)
                     /\ \A d \in Cell \ Window(i) : m[d] = memory[d]
        <5>1. \A d \in Cell \ Window(k) : WithData(f, k)[d] = memory[d]
          BY DEF WithData
        <5> QED
          BY <4>3, <5>1
      <4> QED
        BY <3>4, <4>1, <4>2, <4>3, Zenon DEF StrayRecv
    <3> QED
      BY <1>4, <3>3, <3>4
  <2>3. PICK m : /\ memory' = WithResults(m)
                 /\ \A d \in Cell \ Window(k) : m[d] = memory[d]
    BY <2>2
  <2>4. Window(k) \subseteq Window(Length)
    BY <1>1 DEF Window, RegA
  <2>5. c = DMA + 1 \/ c = DMA + 2 \/ c \in Window(k)
    BY <2>3, ResultsConfined
  <2> QED
    BY <2>1, <2>4, <2>5 DEF Confined
<1>5. CASE UnknownInstruction
  BY <1>5 DEF UnknownInstruction
<1> QED
  BY <1>2, <1>3, <1>4, <1>5 DEF Network

-----------------------------------------------------------------------------
(* What a command tells. *)

Result == memory'[DMA + 1]
Error == memory'[DMA + 2]
TransferTold ==
  IF Error = Errno["0"]
  THEN realfd[Handle] # Net!Free /\ Moved[realfd[Handle]] = Result
  ELSE Result = Net!Minus1 /\ \A f \in Descriptors : Moved[f] = 0
ConnectTold ==
  IF Result = Net!Minus1 THEN realfd' = realfd
  ELSE realfd[Result] = Net!Free /\ link'[realfd'[Result]] = "up"
CloseTold == Result = 0 <=> \E s \in Net!Slot : s = Handle /\ realfd[s] # Net!Free

LEMMA Refused ==
  ASSUME NetInv, status' = "running", memory' = WithResults(memory), UNCHANGED <<unread, space>>,
         NEW op \in {"send", "recv"}, NEW s \in Net!Slot, NEW n \in RegA, NEW e \in Net!Errors,
         Net!Answer(op, s, n, TRUE, Net!Minus1, e)
  PROVE  TransferTold
<1>1. reply'.a = Net!Minus1 /\ reply'.error = e /\ e # "unwritten"
  <2>1. /\ op \in {"none", "connect", "close", "send", "recv"} /\ Net!Minus1 \in RegA
        /\ e \in Net!Errors \cup {"0", "unwritten"}
    BY Numbers
  <2>2. e # "unwritten"
    BY DEF Net!Errors
  <2> QED
    BY <2>1, <2>2, NetAnswers
<1>2. Result = Net!Minus1 /\ Error = Errno[e] /\ Errno[e] # Errno["0"]
  BY <1>1, ResultsRead, BlocksAssumption DEF NetInv, Result, Error
<1>3. ASSUME NEW f \in Descriptors
      PROVE  Moved[f] = 0
  <2>1. unread[f] \in Nat /\ space[f] \in Nat
    BY SocketsAssumption DEF NetInv, NetOK
  <2> QED
    BY <2>1 DEF Moved
<1> QED
  BY <1>2, <1>3 DEF TransferTold

LEMMA Transferred ==
  ASSUME NetInv, status' = "running", NEW m, memory' = WithResults(m),
         NEW op \in {"send", "recv"}, Handle \in Net!Slot, NEW n \in RegA, NEW k \in RegA,
         Net!Answer(op, Handle, n, FALSE, k, "0"), realfd[Handle] # Net!Free,
         \/ UNCHANGED unread /\ space' = [space EXCEPT ![realfd[Handle]] = @ - k]
         \/ UNCHANGED space /\ unread' = [unread EXCEPT ![realfd[Handle]] = @ - k]
  PROVE  TransferTold
<1> DEFINE f == realfd[Handle]
<1>1. reply'.a = k /\ reply'.error = "0"
  <2>1. /\ op \in {"none", "connect", "close", "send", "recv"}
        /\ "0" \in Net!Errors \cup {"0", "unwritten"}
    OBVIOUS
  <2> QED
    BY <2>1, NetAnswers
<1>2. Result = k /\ Error = Errno["0"]
  BY <1>1, ResultsRead DEF NetInv, Result, Error
<1>3. f \in Descriptors
  BY DEF NetInv, NetOK
<1>4. /\ unread[f] \in Nat /\ space[f] \in Nat /\ k \in Nat
      /\ \/ unread'[f] = unread[f] /\ space'[f] = space[f] - k
         \/ space'[f] = space[f] /\ unread'[f] = unread[f] - k
  BY <1>3, SocketsAssumption, Numbers DEF NetInv, NetOK
<1>5. Moved[f] = k
  BY <1>3, <1>4 DEF Moved
<1> QED
  BY <1>2, <1>5 DEF TransferTold

LEMMA SendTells ==
  ASSUME NetInv, Send, status' = "running"
  PROVE  TransferTold
<1>1. PICK s \in Net!Slot :
        /\ s = Handle
        /\ Net!BadHandle("send", s, Length) \/ Net!Send(s, Length) \/ Net!SendFails(s, Length)
  BY DEF Send
<1>2. Length \in RegA /\ memory' = WithResults(memory) /\ ByteBase \in Nat
  BY BlockFields, SizesAssumption DEF NetInv, Send
<1>3. CASE Net!BadHandle("send", s, Length)
  BY <1>2, <1>3, Refused DEF Net!BadHandle, Net!kernel, Net!Errors
<1>4. CASE Net!SendFails(s, Length)
  <2>1. Net!Answer("send", s, Length, TRUE, Net!Minus1, "EPIPE") /\ UNCHANGED <<unread, space>>
    BY <1>4 DEF Net!SendFails, Net!kernel
  <2> QED
    BY <1>2, <2>1, Refused DEF Net!Errors
<1>5. CASE Net!Send(s, Length)
  <2>1. PICK k \in 0..Length : /\ space' = [space EXCEPT ![realfd[s]] = @ - k]
                               /\ Net!Answer("send", s, Length, FALSE, k, "0")
    BY <1>5 DEF Net!Send
  <2>2. k \in RegA
    BY <1>2, <2>1 DEF RegA
  <2>3. realfd[s] # Net!Free /\ UNCHANGED unread
    BY <1>5 DEF Net!Send
  <2> QED
    BY <1>1, <1>2, <2>1, <2>2, <2>3, Transferred
<1> QED
  BY <1>1, <1>3, <1>4, <1>5

LEMMA RecvTells ==
  ASSUME NetInv, Recv, status' = "running"
  PROVE  TransferTold
<1>1. PICK s \in Net!Slot : s = Handle /\ (Receive(s) \/ ReceiveNothing(s))
  BY DEF Recv
<1>2. Length \in RegA /\ ByteBase \in Nat
  BY BlockFields, SizesAssumption DEF NetInv
<1>3. CASE ReceiveNothing(s)
  <2>1. memory' = WithResults(memory)
    BY <1>3 DEF ReceiveNothing
  <2>2. CASE Net!BadHandle("recv", s, Length)
    BY <1>2, <2>1, <2>2, Refused DEF Net!BadHandle, Net!kernel, Net!Errors
  <2>3. CASE Net!ReceiveFails(s, Length)
    <3>1. PICK e \in Net!ReceiveErrors(realfd[s], Length) :
            Net!Answer("recv", s, Length, TRUE, Net!Minus1, e)
      BY <2>3 DEF Net!ReceiveFails
    <3>2. e \in Net!Errors
      BY <3>1 DEF Net!ReceiveErrors, Net!Errors
    <3>3. UNCHANGED <<unread, space>>
      BY <2>3 DEF Net!ReceiveFails, Net!kernel
    <3> QED
      BY <1>2, <2>1, <3>1, <3>2, <3>3, Refused
  <2> QED
    BY <1>3, <2>2, <2>3 DEF ReceiveNothing
<1>4. CASE Receive(s)
  <2>1. PICK k \in 0..Length : /\ unread' = [unread EXCEPT ![realfd[s]] = @ - k]
                               /\ Net!Answer("recv", s, Length, FALSE, k, "0")
    BY <1>4 DEF Receive, Net!Receive
  <2>2. k \in RegA
    BY <1>2, <2>1 DEF RegA
  <2>3. realfd[s] # Net!Free /\ UNCHANGED space
    BY <1>4 DEF Receive, Net!Receive
  <2>4. memory' = WithResults(WithData(realfd[s], reply'.a))
    BY <1>4 DEF Receive
  <2> QED
    BY <1>1, <1>2, <2>1, <2>2, <2>3, <2>4, Transferred
<1> QED
  BY <1>1, <1>3, <1>4

LEMMA ConnectTells ==
  ASSUME NetInv, Connect, status' = "running"
  PROVE  ConnectTold
<1>1. Result = reply'.a
  BY ResultsRead DEF NetInv, Connect, Result
<1>2. PICK f \in Descriptors :
        Net!ConnectFails(f) \/ Net!ConnectSucceeds(f) \/ Net!ConnectFindsTableFull(f)
  BY DEF Connect, Net!Connect, Net!SocketFails
<1>3. CASE Net!ConnectFails(f) \/ Net!ConnectFindsTableFull(f)
  <2>1. Net!Answer("connect", 0, 0, TRUE, Net!Minus1, "unwritten") /\ realfd' = realfd
    BY <1>3 DEF Net!ConnectFails, Net!ConnectFindsTableFull, Net!table
  <2>2. reply'.a = Net!Minus1
    BY <2>1, Numbers, NetAnswers
  <2> QED
    BY <1>1, <2>1, <2>2 DEF ConnectTold
<1>4. CASE Net!ConnectSucceeds(f)
  <2> DEFINE s == Net!FirstFree
  <2>1. s \in Net!Slot /\ realfd[s] = Net!Free
    BY <1>4, FirstFreeIsFree DEF Net!ConnectSucceeds
  <2>2. Net!Answer("connect", 0, 0, FALSE, s, "unwritten") /\ s \in RegA
    BY <1>4, <2>1, Numbers DEF Net!ConnectSucceeds
  <2>3. realfd' = [realfd EXCEPT ![s] = f] /\ link' = [link EXCEPT ![f] = "up"]
    BY <1>4 DEF Net!ConnectSucceeds, Net!Establish
  <2> HIDE DEF s
  <2>4. reply'.a = s
    BY <2>2, Numbers, NetAnswers
  <2>5. realfd'[s] = f /\ link'[f] = "up" /\ s # Net!Minus1
    BY <2>1, <2>3, Numbers DEF NetInv, NetOK
  <2> QED
    BY <1>1, <2>1, <2>4, <2>5 DEF ConnectTold
<1> QED
  BY <1>2, <1>3, <1>4

LEMMA CloseTells ==
  ASSUME NetInv, Close, status' = "running"
  PROVE  CloseTold
<1>1. Result = reply'.a
  BY ResultsRead DEF NetInv, Close, Result
<1>2. Net!Minus1 # 0 /\ Net!Minus1 \in RegA /\ 0 \in RegA /\ 0 \in Net!Slot
  BY Numbers
<1>3. ASSUME NEW s \in Net!Slot, s = Handle, Net!Close(s)
      PROVE  CloseTold
  BY <1>1, <1>2, <1>3, NetAnswers DEF Net!Close, CloseTold
<1>4. ASSUME NEW s \in Net!Slot, s = Handle, Net!CloseFree(s)
      PROVE  CloseTold
  BY <1>1, <1>2, <1>4, NetAnswers DEF Net!CloseFree, CloseTold
<1>5. CASE CloseOutside
  BY <1>1, <1>2, <1>5, NetAnswers DEF CloseOutside, CloseTold
<1> QED
  BY <1>3, <1>4, <1>5 DEF Close

(* SEND and RECV with a handle of the table are not stray ones.            *)
LEMMA BlockTold ==
  ASSUME NetInv, Network, status' = "running"
  PROVE  /\ Field(0) \in {TCP_SEND, TCP_RECV} /\ Handle \in Net!Slot => TransferTold
         /\ Field(0) = TCP_CONNECT => ConnectTold
         /\ Field(0) = TCP_CLOSE => CloseTold
<1>1. CASE Connect
  BY <1>1, ConnectTells, SocketsAssumption DEF Connect, Command
<1>2. CASE Close
  BY <1>2, CloseTells, SocketsAssumption DEF Close, Command
<1>3. CASE Send
  BY <1>3, SendTells, SocketsAssumption DEF Send, Command
<1>4. CASE Recv
  BY <1>4, RecvTells, SocketsAssumption DEF Recv, Command
<1>5. CASE StraySend \/ StrayRecv
  <2>1. Handle \notin Net!Slot /\ Field(0) \in {TCP_SEND, TCP_RECV}
    BY <1>5 DEF StraySend, StrayRecv, Stray, Command
  <2> QED
    BY <2>1, SocketsAssumption
<1>6. CASE UnknownInstruction
  BY <1>6 DEF UnknownInstruction, Net!UnknownInstruction
<1> QED
  BY <1>1, <1>2, <1>3, <1>4, <1>5, <1>6 DEF Network

-----------------------------------------------------------------------------
(* What a signal needs. *)

(* The controller, the clock, the guest and the peers raise none.          *)
LEMMA OnlyNetworkKills ==
  ASSUME [BusNext]_busvars, status' = "killed", status # "killed"
  PROVE  Network
<1>1. ~(Disk /\ status' = "killed")
  BY DEF Disk, Next, Start, Bootloader, LoadTestProgram, Assert, SelectDrive, SelectTrack, SelectSector,
         SetDmaLow, SetDmaHigh, ReadSector, WriteSector, StartTransfer, FailedTransfer,
         UnsupportedOperation, Acknowledge, CpuStore
<1>2. ~UNCHANGED status
  OBVIOUS
<1> QED
  BY <1>1, <1>2 DEF BusNext, Store, GuestStores, UnhandledPort, ReadClock, Peer, Net!PeerSends,
                    Net!PeerShuts, Net!PeerResets, Net!PeerTakes, vars, busvars

LEMMA NetworkKills ==
  ASSUME NetInv, Network, status' = "killed", status # "killed"
  PROVE  Field(0) = TCP_SEND /\ Handle \notin Net!Slot /\ sigpipe = "default"
<1>1. ~Connect
  BY DEF Connect, Net!Connect, Net!ConnectFails, Net!ConnectSucceeds, Net!ConnectFindsTableFull,
         Net!SocketFails
<1>2. ~Close
  BY DEF Close, Net!Close, Net!CloseFree, CloseOutside
<1>3. ~Send
  <2>1. ASSUME NEW s \in Net!Slot, Net!SendFails(s, Length)
        PROVE  FALSE
    <3>1. sigpipe = "ignored"
      BY <2>1 DEF Net!SendFails, NetInv, Piped
    <3> QED
      BY <2>1, <3>1 DEF Net!SendFails
  <2> QED
    BY <2>1 DEF Send, Net!BadHandle, Net!Send
<1>4. ~Recv
  BY DEF Recv, Receive, ReceiveNothing, Net!BadHandle, Net!Receive, Net!ReceiveFails
<1>5. ~StrayRecv
  BY DEF StrayRecv, Stray, StrayRefused, StrayBytes
<1>6. ~UnknownInstruction
  BY DEF UnknownInstruction, Net!UnknownInstruction
<1>7. StraySend
  BY <1>1, <1>2, <1>3, <1>4, <1>5, <1>6 DEF Network
<1>8. Field(0) = TCP_SEND /\ Handle \notin Net!Slot
  BY <1>7 DEF StraySend, Stray, Command
<1>9. sigpipe = "default"
  BY <1>7 DEF StraySend, Stray, StrayRefused, StrayBytes
<1> QED
  BY <1>8, <1>9

-----------------------------------------------------------------------------
(* The theorems. *)

(* The devices, the clock and the guest's use of the bus together. *)
BusInv ==
  /\ NetInv
  /\ ClockInv
  /\ prepared \in BOOLEAN
  /\ commands \in 0..MaxCommands

(* Only the network service counts commands.                               *)
LEMMA OnlyNetworkCommands ==
  ASSUME [BusNext]_busvars, commands' # commands
  PROVE  Network
<1>1. CASE UNCHANGED network
  BY <1>1 DEF network
<1>2. CASE Store
  BY <1>2 DEF Store, GuestStores
<1>3. CASE Peer
  BY <1>3 DEF Peer
<1> QED
  BY <1>1, <1>2, <1>3 DEF BusNext, Disk, UnhandledPort, ReadClock, busvars

LEMMA InitBusInv == BusInit => BusInv
<1> SUFFICES ASSUME BusInit PROVE BusInv
  OBVIOUS
<1>1. NetInv
  BY InitNetInv
<1>2. ClockInv
  BY ClockInitInv DEF BusInit
<1>3. commands \in 0..MaxCommands
  BY SocketsAssumption DEF BusInit
<1>4. prepared \in BOOLEAN
  BY Zenon DEF BusInit
<1> QED
  BY <1>1, <1>2, <1>3, <1>4, Zenon DEF BusInv

LEMMA NextBusInv ==
  ASSUME BusInv, [BusNext]_busvars
  PROVE  BusInv'
<1>1. NetInv'
  BY NextNetInv DEF BusInv
<1>2. ClockInv'
  <2>1. CASE UNCHANGED clock
    BY <2>1 DEF BusInv, ClockInv, ClockTypeOK, clock
  <2>2. CASE ReadClock
    BY <2>2, ReadingInv DEF BusInv, ReadClock
  <2>3. CASE Tick
    BY <2>3, TickInv DEF BusInv
  <2> QED
    BY <2>1, <2>2, <2>3 DEF BusNext, busvars
<1>3. prepared' \in BOOLEAN /\ commands' \in 0..MaxCommands
  <2>1. commands \in 0..MaxCommands /\ MaxCommands \in Nat
    BY SocketsAssumption DEF BusInv
  <2>2. CASE Network
    <3>1. \E i : Command(i)
      BY <2>2, Zenon DEF Network, Connect, Close, Send, Recv, StraySend, StrayRecv, Stray, UnknownInstruction
    <3>2. commands < MaxCommands /\ commands' = commands + 1 /\ prepared' = FALSE
      BY <3>1 DEF Command
    <3>3. commands' \in 0..MaxCommands
      BY <2>1, <3>2
    <3> QED
      BY <3>2, <3>3, Zenon
  <2>3. CASE Store
    BY <2>1, <2>3 DEF Store, GuestStores
  <2>4. CASE Peer
    BY <2>1, <2>4 DEF Peer, BusInv
  <2>5. CASE UNCHANGED network
    BY <2>1, <2>5 DEF network, BusInv
  <2> QED
    BY <2>2, <2>3, <2>4, <2>5 DEF BusNext, Disk, UnhandledPort, ReadClock, busvars
<1> QED
  BY <1>1, <1>2, <1>3 DEF BusInv

(* In every state the bus reaches, the network service, the controller and *)
(* the clock keep their types, SIGPIPE is ignored while a handle is in     *)
(* use, the halves of a reading are digits of the time they were copied    *)
(* at, and the guest has found, of each connection that it did not spoil,  *)
(* as many bytes as RECV took, each in its place.                          *)
THEOREM BusInvariant == BusSpec => []BusInv
<1>1. BusInit => BusInv
  BY InitBusInv
<1>2. BusInv /\ [BusNext]_busvars => BusInv'
  BY NextBusInv
<1> QED
  BY <1>1, <1>2, PTL DEF BusSpec

(* Whatever command blocks the guest stores, at any DMA address, every     *)
(* variable of the bus keeps its type, and no more is read from a          *)
(* connection than its peer sent.                                          *)
THEOREM BusTypeCorrect == BusSpec => []BusTypeOK
<1>1. BusInv => BusTypeOK
  <2> SUFFICES ASSUME BusInv PROVE BusTypeOK
    OBVIOUS
  <2>1. TypeOK /\ NetOK /\ HistoryOK /\ ClockTypeOK
    BY DEF BusInv, NetInv, ClockInv
  <2>2. status # "reset" => Net!TypeOK
    BY <2>1 DEF TypeOK, NetOK, Net!TypeOK
  <2> QED
    BY <2>1, <2>2 DEF BusInv, HistoryOK, BusTypeOK
<1> QED
  BY <1>1, BusInvariant, PTL

(* A sequence that agrees with the start of another is its prefix.         *)
LEMMA Prefix ==
  ASSUME NEW S, NEW s \in Seq(S), NEW t \in Seq(S), Len(s) <= Len(t),
         \A i \in 1..Len(s) : s[i] = t[i]
  PROVE  s = SubSeq(t, 1, Len(s))
<1>1. Len(s) \in Nat /\ Len(t) \in Nat
  BY LenProperties
<1>2. 1 \in 1..Len(t)+1 /\ Len(s) \in 0..Len(t)
  BY <1>1
<1>3. /\ SubSeq(t, 1, Len(s)) \in Seq(S)
      /\ Len(SubSeq(t, 1, Len(s))) = Len(s)
      /\ \A i \in 1..Len(s) : SubSeq(t, 1, Len(s))[i] = t[i]
  BY <1>1, <1>2, SubSeqProperties
<1> QED
  BY <1>1, <1>3, SeqEqual

(* Whatever the guest asks for, however the peers send, and whichever      *)
(* descriptors are opened, closed and used again: what the guest finds in  *)
(* its buffers is the start of what the peer sent, in order.               *)
THEOREM StreamOrdered == BusSpec => []StreamInOrder
<1>1. BusInv => StreamInOrder
  <2> SUFFICES ASSUME BusInv, NEW f \in Descriptors \ spoilt
               PROVE  /\ Len(delivered[f]) <= Len(Stream[f])
                      /\ delivered[f] = SubSeq(Stream[f], 1, Len(delivered[f]))
    BY DEF StreamInOrder
  <2>1. /\ delivered[f] \in Seq(RegA) /\ Stream[f] \in Seq(RegA)
        /\ taken[f] \in Nat /\ unread[f] \in Nat /\ taken[f] + unread[f] <= Len(Stream[f])
        /\ Len(delivered[f]) = taken[f] /\ \A i \in 1..taken[f] : delivered[f][i] = Stream[f][i]
    BY BlocksAssumption, SocketsAssumption DEF BusInv, NetInv, NetOK, HistoryOK, InStep
  <2>2. Len(Stream[f]) \in Nat
    BY <2>1, LenProperties
  <2>3. Len(delivered[f]) <= Len(Stream[f])
    BY <2>1, <2>2
  <2> QED
    BY <2>1, <2>3, Prefix
<1> QED
  BY <1>1, BusInvariant, PTL

(* Whatever the size of the halves, and whenever the thread ticks between  *)
(* them, the reading of the guest is never ahead of the clock.             *)
THEOREM ReadingsRight == BusSpec => []ReadingNeverAhead
<1>1. BusInv => ReadingNeverAhead
  BY ClockReads DEF BusInv
<1> QED
  BY <1>1, BusInvariant, PTL

(* Whatever the handle, the length and the pointer of its block, a network *)
(* command changes its results and the buffer of RECV, and nothing else.   *)
THEOREM CommandsConfined == BusSpec => CommandConfined
<1>1. BusInv /\ [BusNext]_busvars =>
        [commands' # commands => \A c \in Cell : memory'[c] # memory[c] =>
           \/ c = DMA + 1
           \/ c = DMA + 2 /\ Field(0) \in {TCP_SEND, TCP_RECV}
           \/ c \in Window(Length) /\ Field(0) = TCP_RECV]_busvars
  BY OnlyNetworkCommands, NetworkConfined DEF BusInv, Confined
<1> QED
  BY <1>1, BusInvariant, PTL DEF BusSpec, CommandConfined

(* However the peers reset their connections, and whatever descriptors the *)
(* guest's blocks make the service use: the process is killed by a signal  *)
(* only in a SEND with a handle outside the table, before any connection.  *)
THEOREM KillsNeedStrayHandle == BusSpec => KilledByStrayOnly
<1>1. BusInv /\ [BusNext]_busvars =>
        [status' = "killed" /\ status # "killed" =>
           Field(0) = TCP_SEND /\ Handle \notin Net!Slot /\ sigpipe = "default"]_busvars
  BY OnlyNetworkKills, NetworkKills DEF BusInv
<1> QED
  BY <1>1, BusInvariant, PTL DEF BusSpec, KilledByStrayOnly

(* Whatever the state of the table and of the peers, the block tells the   *)
(* guest what its command did, even when data of RECV fell on the block.   *)
THEOREM OutcomesTold == BusSpec => BlockTellsOutcome
<1>1. BusInv /\ [BusNext]_busvars =>
        [commands' # commands /\ status' = "running" =>
           LET result == memory'[DMA + 1]
               error == memory'[DMA + 2]
           IN  /\ Field(0) \in {TCP_SEND, TCP_RECV} /\ Handle \in Net!Slot =>
                    IF error = Errno["0"]
                    THEN realfd[Handle] # Net!Free /\ Moved[realfd[Handle]] = result
                    ELSE result = Net!Minus1 /\ \A f \in Descriptors : Moved[f] = 0
               /\ Field(0) = TCP_CONNECT =>
                    IF result = Net!Minus1 THEN realfd' = realfd
                    ELSE realfd[result] = Net!Free /\ link'[realfd'[result]] = "up"
               /\ Field(0) = TCP_CLOSE =>
                    (result = 0 <=> \E s \in Net!Slot : s = Handle /\ realfd[s] # Net!Free)]_busvars
  BY OnlyNetworkCommands, BlockTold
  DEF BusInv, TransferTold, ConnectTold, CloseTold, Result, Error
<1> QED
  BY <1>1, BusInvariant, PTL DEF BusSpec, BlockTellsOutcome

(* On the bus, with the network service writing to the same memory, a      *)
(* write of the controller still changes one aligned sector of its drive.  *)
THEOREM BusWritesConfined == BusSpec => StoreConfined
<1>1. BusInv /\ [BusNext]_busvars =>
        [\A d \in Present : backingstore'[d] # backingstore[d] =>
           /\ d = current_drive_id
           /\ memory' = memory
           /\ \E k \in 0..Tracks[d]*Spt[d]-1 :
                \A o \in StoreOffset(d) \ SectorBytesOf(k) :
                  backingstore'[d][o] = backingstore[d][o]]_vars
  <2> SUFFICES ASSUME BusInv, [BusNext]_busvars, NEW d \in Present, backingstore'[d] # backingstore[d]
               PROVE  /\ d = current_drive_id
                      /\ memory' = memory
                      /\ \E k \in 0..Tracks[d]*Spt[d]-1 :
                           \A o \in StoreOffset(d) \ SectorBytesOf(k) :
                             backingstore'[d][o] = backingstore[d][o]
    OBVIOUS
  <2>1. CASE Disk
    BY <2>1, OnlyWriteSectorWrites, WriteConfined DEF Disk, BusInv, NetInv
  <2>2. CASE UNCHANGED disk
    BY <2>2 DEF disk
  <2>3. CASE UNCHANGED vars
    BY <2>3 DEF vars
  <2>4. CASE Network
    <3>1. UNCHANGED disk
      BY <2>4, Zenon DEF Network, Connect, Close, Send, Recv, StraySend, StrayRecv, Stray, UnknownInstruction, Command
    <3> QED
      BY <2>2, <3>1
  <2> QED
    BY <2>1, <2>2, <2>3, <2>4 DEF BusNext, Store, GuestStores, UnhandledPort, Peer, ReadClock, busvars
<1> QED
  BY <1>1, BusInvariant, PTL DEF BusSpec, StoreConfined
==============================================================================
