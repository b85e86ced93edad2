------------------------------- MODULE DiskBios -------------------------------
(***************************************************************************)
(* The disk controller driven by the CP/M BIOS of the system disk: each    *)
(* entry point is one port write, except that SETDMA writes the low and    *)
(* then the high byte, and that READ and WRITE start the operation and     *)
(* then acknowledge it.  CP/M asks only for a drive that exists and for a  *)
(* sector of its geometry, and gives a buffer inside memory.  Run like     *)
(* this, the controller implements SectorStore.                            *)
(***************************************************************************)
EXTENDS DiskController

VARIABLE bios   \* what the BIOS has to do next: "idle", "dma" or "ack"

biosVars == <<vars, bios>>

(* The types of the controller, and where the BIOS is in a call.           *)
BiosTypeOK == TypeOK /\ bios \in {"idle", "dma", "ack"}

BiosInit == Init /\ bios = "idle"

(* The drive, track, sector and buffer CP/M has set describe a request.    *)
LegalRequest ==
  /\ current_drive_id \in Present
  /\ selected_track[current_drive_id] < Tracks[current_drive_id]
  /\ selected_sector[current_drive_id] \in 1..Spt[current_drive_id]
  /\ DMA + SectorSize <= MemSize

At(step) == bios = step

Seldsk == \E a \in DriveBytes \cap Present : SelectDrive(a)
Settrk == \E a \in TrackBytes : SelectTrack(a)
Setsec == \E a \in SectorBytes : SelectSector(a)
SetdmaLow == \E a \in DmaLowBytes : SetDmaLow(a)
SetdmaHigh == \E a \in DmaHighBytes : SetDmaHigh(a)
BiosTransfer == LegalRequest /\ (ReadSector \/ WriteSector \/ FailedTransfer)
CpuStores == \E st \in Stores : CpuStore(st[1], st[2])

BiosNext ==
  \/ At("idle") /\ Bootloader /\ UNCHANGED bios
  \/ At("idle") /\ (Seldsk \/ Settrk \/ Setsec) /\ UNCHANGED bios
  \/ At("idle") /\ SetdmaLow /\ bios' = "dma"
  \/ At("dma") /\ SetdmaHigh /\ bios' = "idle"
  \/ At("idle") /\ BiosTransfer /\ bios' = "ack"
  \/ At("ack") /\ Acknowledge /\ bios' = "idle"
  \/ At("idle") /\ CpuStores /\ UNCHANGED bios

BiosSpec == BiosInit /\ [][BiosNext]_biosVars

-----------------------------------------------------------------------------
(* CP/M never brings the emulator down: no sequence of BIOS calls reaches  *)
(* a failed assert of disk.c or of the disk ports of sysbus.c, given the   *)
(* image of drive 0 the boot loader needs.                                 *)
BiosNeverAborts == 0 \in Present => status # "aborted"

(* Between two BIOS calls no drive has an operation in progress, and       *)
(* during one only the drive it was started on has: an acknowledgement     *)
(* (port 0E) never finds the flag of another drive.                        *)
OnlyCurrentDriveBusy ==
  \A d \in Slots : io_in_progress[d] <=> bios = "ack" /\ d = current_drive_id

(* The sector store that CP/M sees. *)
Slice(store, n) ==
  [i \in 0..SectorSize-1 |-> store[n[1]][(n[2] * Spt[n[1]] + n[3] - 1) * SectorSize + i]]

SectorNames == UNION {{d} \X (0..Tracks[d]-1) \X (1..Spt[d]) : d \in Present}
SectorsOf(store) == [n \in SectorNames |-> Slice(store, n)]

Abstract == INSTANCE SectorStore WITH
  drive <- current_drive_id,
  track <- selected_track,
  sector <- selected_sector,
  low <- DMA % ByteBase,
  high <- DMA \div ByteBase,
  sectors <- SectorsOf(backingstore),
  memory <- [a \in Address |-> memory[a]],
  InitialMemory <- [a \in Address |-> InitialMemory[a]],
  InitialSectors <- SectorsOf(InitialStore)

(* Every BIOS request copies exactly the sector that was selected, whole,  *)
(* to or from exactly the buffer that was set, and no other byte of any    *)
(* drive or of memory; each selection keeps all the others (the disk ports *)
(* of sysbus.c and both transfer routines of disk.c).                      *)
ImplementsSectorStore == Abstract!Spec
=============================================================================
