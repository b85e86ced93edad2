---------------------------- MODULE DiskController ----------------------------
(***************************************************************************)
(* The disk controller: the drive table of disk.c and the ports of         *)
(* sysbus.c that drive it (0A select, 0B track, 0C sector, 0D operation,   *)
(* 0E acknowledge, 0F and 10 DMA address).  The guest program is           *)
(* arbitrary: it may put any byte in register A before any port.           *)
(***************************************************************************)
EXTENDS Integers

CONSTANTS
  ByteBase,       \* 256: values of register A; memory has ByteBase^2 bytes
  PosBase,        \* 2^32: values of the uint32_t pos
  SectorSize,     \* 128
  Slots,          \* 0..MAX_DRIVES-1, entries of the drive table
  Present,        \* entries disk_init found an image for
  Tracks,         \* num_tracks of each present drive
  Spt,            \* num_spt of each present drive
  Byte,           \* the contents of one byte
  InitialMemory,  \* memory, and what follows it, when the guest starts
  InitialStore,   \* the images
  DriveBytes,     \* what the guest may put in A for port 0A,
  TrackBytes,     \* ... for port 0B,
  SectorBytes,    \* ... for port 0C,
  DmaLowBytes,    \* ... for port 0F,
  DmaHighBytes,   \* ... for port 10
  Stores,         \* stores <<address, byte>> the guest may execute
  MaxTransfers    \* bound on the transfers of a behaviour

MemSize == ByteBase * ByteBase
Address == 0..MemSize-1

(* A transfer is a memcpy from a 16-bit address with no check on its end: *)
(* it also reaches the SectorSize-1 bytes that follow memory[].           *)
Cell == 0..MemSize+SectorSize-2

Size(d) == Tracks[d] * Spt[d] * SectorSize
StoreOffset(d) == 0..Size(d)-1
RegA == 0..ByteBase-1

ASSUME SizesAssumption ==
  /\ ByteBase \in Nat /\ ByteBase > 1
  /\ SectorSize \in Nat \ {0}
  /\ PosBase \in Nat \ {0} /\ PosBase % SectorSize = 0
  /\ 2 * SectorSize <= MemSize
  /\ MaxTransfers \in Nat

ASSUME DrivesAssumption ==
  /\ Slots \subseteq RegA /\ 0 \in Slots
  /\ Present \subseteq Slots
  /\ Tracks \in [Present -> Nat \ {0}]
  /\ Spt \in [Present -> Nat]
  /\ \A d \in Present : Spt[d] > 1

(* No image reaches the end of the range of pos, where a transfer one     *)
(* sector before the first would be found.                                *)
ASSUME GeometryAssumption == \A d \in Present : Size(d) + SectorSize <= PosBase

ASSUME DataAssumption ==
  /\ InitialMemory \in [Cell -> Byte]
  /\ DOMAIN InitialStore = Present
  /\ \A d \in Present : InitialStore[d] \in [StoreOffset(d) -> Byte]
  /\ Stores \subseteq Address \X Byte

(* A drive number above the table indexes past drives[]: what it finds    *)
(* there is undefined, and the guest is assumed not to select it.         *)
ASSUME GuestAssumption ==
  /\ DriveBytes \subseteq Slots
  /\ TrackBytes \subseteq RegA
  /\ SectorBytes \subseteq RegA
  /\ DmaLowBytes \subseteq RegA
  /\ DmaHighBytes \subseteq RegA

VARIABLES
  status,            \* "reset", "running", or "aborted" by a failed assert; on
                     \* the bus also "killed", by a signal of the network
  current_drive_id,
  selected_track,    \* of each drive
  selected_sector,   \* of each drive
  io_in_progress,    \* of each drive
  backingstore,      \* of each present drive
  memory,
  DMA,
  transfers          \* transfers so far, bounded by MaxTransfers

controls == <<selected_track, selected_sector>>
data == <<backingstore, memory, transfers>>
vars == <<status, current_drive_id, selected_track, selected_sector,
          io_in_progress, backingstore, memory, DMA, transfers>>

TypeOK ==
  /\ status \in {"reset", "running", "aborted", "killed"}
  /\ current_drive_id \in Slots
  /\ selected_track \in [Slots -> RegA]
  /\ selected_sector \in [Slots -> RegA]
  /\ io_in_progress \in [Slots -> BOOLEAN]
  /\ DOMAIN backingstore = Present
  /\ \A d \in Present : backingstore[d] \in [StoreOffset(d) -> Byte]
  /\ memory \in [Cell -> Byte]
  /\ DMA \in Address
  /\ transfers \in 0..MaxTransfers

-----------------------------------------------------------------------------
(* disk_init fills the table; selected_track, selected_sector and          *)
(* io_in_progress are cleared by its memset.                               *)
Init ==
  /\ status = "reset"
  /\ current_drive_id = 0
  /\ selected_track = [d \in Slots |-> 0]
  /\ selected_sector = [d \in Slots |-> 0]
  /\ io_in_progress = [d \in Slots |-> FALSE]
  /\ backingstore = InitialStore
  /\ memory = InitialMemory
  /\ DMA = 0
  /\ transfers = 0

(* Faulty: the bytes arrive one address too high. *)
LoadMemoryShifted(d, a, p, n) ==
  memory' = [c \in Cell |-> IF c \in a+1..a+n THEN backingstore[d][p + c - a - 1]
                                             ELSE memory[c]]

(* memcpy(memory + a, backingstore + p, n) and its mirror image. *)
LoadMemory(d, a, p, n) ==
  memory' = [c \in Cell |-> IF c \in a..a+n-1 THEN backingstore[d][p + c - a]
                                             ELSE memory[c]]
LoadStore(d, a, p, n) ==
  backingstore' =
    [backingstore EXCEPT ![d] =
       [o \in StoreOffset(d) |-> IF o \in p..p+n-1 THEN memory[a + o - p]
                                                   ELSE backingstore[d][o]]]

(* The asserts that both transfer routines start with. *)
InLimits(d, p, n) == d \in Present /\ p < Size(d) /\ p + n <= Size(d)

(* The asserted part of a handler: it aborts the process unless c holds. *)
Assert(c) == status' = IF c THEN "running" ELSE "aborted"

(* sysbus_bootloader: two sectors of drive 0 go to address 0. *)
Bootloader ==
  /\ status = "reset"
  /\ Assert(InLimits(0, 0, 2 * SectorSize))
  /\ IF InLimits(0, 0, 2 * SectorSize)
     THEN LoadMemory(0, 0, 0, 2 * SectorSize)
     ELSE UNCHANGED memory
  /\ UNCHANGED <<current_drive_id, controls, io_in_progress, backingstore,
                 DMA, transfers>>

(* A test program named on the command line runs without the boot loader. *)
LoadTestProgram ==
  /\ status = "reset"
  /\ status' = "running"
  /\ UNCHANGED <<current_drive_id, controls, io_in_progress, data, DMA>>

-----------------------------------------------------------------------------
(* SELDSK, port 0A: the id is stored before it is found to be absent. *)
SelectDrive(a) ==
  /\ status = "running"
  /\ current_drive_id' = a
  /\ Assert(a \in Present)
  /\ UNCHANGED <<controls, io_in_progress, data, DMA>>

(* SETTRK, port 0B, and SETSEC, port 0C: the value is kept in the drive    *)
(* that is current now, and is not compared with its geometry.             *)
SelectTrack(a) ==
  /\ status = "running"
  /\ Assert(current_drive_id \in Present)
  /\ selected_track' = IF current_drive_id \in Present
                       THEN [selected_track EXCEPT ![current_drive_id] = a]
                       ELSE selected_track
  /\ UNCHANGED <<current_drive_id, selected_sector, io_in_progress, data, DMA>>

SelectSector(a) ==
  /\ status = "running"
  /\ Assert(current_drive_id \in Present)
  /\ selected_sector' = IF current_drive_id \in Present
                        THEN [selected_sector EXCEPT ![current_drive_id] = a]
                        ELSE selected_sector
  /\ UNCHANGED <<current_drive_id, selected_track, io_in_progress, data, DMA>>

(* SETDMA, low byte on port 0F and high byte on port 10. *)
SetDmaLow(a) ==
  /\ status = "running"
  /\ DMA' = (DMA \div ByteBase) * ByteBase + a
  /\ UNCHANGED <<status, current_drive_id, controls, io_in_progress, data>>

SetDmaHigh(a) ==
  /\ status = "running"
  /\ DMA' = (DMA % ByteBase) + a * ByteBase
  /\ UNCHANGED <<status, current_drive_id, controls, io_in_progress, data>>

(* Faulty: sectors numbered from 0; positions in sectors, not in bytes. *)
SectorIndexFromZero(d) == selected_track[d] * Spt[d] + selected_sector[d]
PosInSectors(d) == (selected_track[d] * Spt[d] + selected_sector[d] - 1) % PosBase

(* Byte position of the selected sector: sectors are numbered from 1, and  *)
(* the sector before the first one wraps around in the unsigned pos.       *)
SectorIndex(d) == selected_track[d] * Spt[d] + selected_sector[d] - 1
Pos(d) == (SectorIndex(d) * SectorSize) % PosBase

(* Faulty: no operation is put in progress. *)
StartTransferUnflagged ==
  /\ status = "running"
  /\ transfers < MaxTransfers
  /\ UNCHANGED <<current_drive_id, controls, DMA, io_in_progress>>

(* Port 0D with A = 0 or A = 1.  io_in_progress is set before the transfer *)
(* is found to be out of limits, and is not tested.                        *)
StartTransfer ==
  /\ status = "running"
  /\ transfers < MaxTransfers
  /\ io_in_progress' = IF current_drive_id \in Present
                       THEN [io_in_progress EXCEPT ![current_drive_id] = TRUE]
                       ELSE io_in_progress
  /\ UNCHANGED <<current_drive_id, controls, DMA>>

Transferable ==
  /\ current_drive_id \in Present
  /\ InLimits(current_drive_id, Pos(current_drive_id), SectorSize)

ReadSector ==
  /\ StartTransfer
  /\ Transferable
  /\ LoadMemory(current_drive_id, DMA, Pos(current_drive_id), SectorSize)
  /\ transfers' = transfers + 1
  /\ UNCHANGED <<status, backingstore>>

WriteSector ==
  /\ StartTransfer
  /\ Transferable
  /\ LoadStore(current_drive_id, DMA, Pos(current_drive_id), SectorSize)
  /\ transfers' = transfers + 1
  /\ UNCHANGED <<status, memory>>

FailedTransfer ==
  /\ StartTransfer
  /\ ~Transferable
  /\ status' = "aborted"
  /\ UNCHANGED data

(* Port 0D with any other A. *)
UnsupportedOperation ==
  /\ status = "running"
  /\ status' = "aborted"
  /\ UNCHANGED <<current_drive_id, controls, io_in_progress, data, DMA>>

(* Port 0E: acknowledges the transfer of the drive that is current now. *)
Acknowledgeable ==
  current_drive_id \in Present /\ io_in_progress[current_drive_id]

(* Faulty: the operation stays in progress. *)
AcknowledgeKeeping ==
  /\ status = "running"
  /\ Assert(Acknowledgeable)
  /\ UNCHANGED <<current_drive_id, controls, io_in_progress, data, DMA>>

Acknowledge ==
  /\ status = "running"
  /\ Assert(Acknowledgeable)
  /\ io_in_progress' = IF Acknowledgeable
                       THEN [io_in_progress EXCEPT ![current_drive_id] = FALSE]
                       ELSE io_in_progress
  /\ UNCHANGED <<current_drive_id, controls, data, DMA>>

(* Z80_WRITE_BYTE: the address is masked, so it never leaves memory[]. *)
CpuStore(a, v) ==
  /\ status = "running"
  /\ memory' = [memory EXCEPT ![a] = v]
  /\ UNCHANGED <<status, current_drive_id, controls, io_in_progress,
                 backingstore, DMA, transfers>>

Start == Bootloader \/ LoadTestProgram

Next ==
  \/ Start
  \/ \E a \in DriveBytes : SelectDrive(a)
  \/ \E a \in TrackBytes : SelectTrack(a)
  \/ \E a \in SectorBytes : SelectSector(a)
  \/ \E a \in DmaLowBytes : SetDmaLow(a)
  \/ \E a \in DmaHighBytes : SetDmaHigh(a)
  \/ ReadSector
  \/ WriteSector
  \/ FailedTransfer
  \/ UnsupportedOperation
  \/ Acknowledge
  \/ \E st \in Stores : CpuStore(st[1], st[2])

Spec == Init /\ [][Next]_vars

-----------------------------------------------------------------------------
SectorBytesOf(k) == k*SectorSize..k*SectorSize+SectorSize-1

(* A step that changes a drive changes the drive that is current, leaves   *)
(* memory alone, and stays inside one aligned sector: a selection of track *)
(* and sector that is not of the drive's geometry can name a sector of     *)
(* another track, but never tears two sectors or reaches another drive     *)
(* (disk_writefrommemorytodrive and case 0x0D of _Z80_OUTPUT_BYTE).        *)
StoreConfined ==
  [][\A d \in Present : backingstore'[d] # backingstore[d] =>
       /\ d = current_drive_id
       /\ memory' = memory
       /\ \E k \in 0..Tracks[d]*Spt[d]-1 : \A o \in StoreOffset(d) \ SectorBytesOf(k) :
            backingstore'[d][o] = backingstore[d][o]]_vars

(* Nothing outside the "linear 64k RAM" (z80user.h) is ever written: the   *)
(* bytes after memory[] keep the values they started with.                 *)
OutsideMemoryUntouched ==
  \A c \in Cell \ Address : memory[c] = InitialMemory[c]
=============================================================================
