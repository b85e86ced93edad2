----------------------------- MODULE SectorStore -----------------------------
(***************************************************************************)
(* What the disk controller promises to CP/M: every present drive is an    *)
(* array of independent sectors named (drive, track, sector), sectors      *)
(* being numbered from 1.  CP/M selects a drive, a track and sector on it  *)
(* and a buffer in the 64k address space, and one request then copies      *)
(* exactly the selected sector to or from exactly the buffer.              *)
(***************************************************************************)
EXTENDS Integers

CONSTANTS
  Slots,          \* the drives that may be
  Present,        \* the drives that have an image
  Tracks,         \* tracks of each present drive
  Spt,            \* sectors per track of each present drive
  SectorSize,     \* bytes of a sector
  ByteBase,       \* values of a byte: an address is two of them
  Byte,           \* the contents of one byte
  InitialMemory,  \* memory before the first request
  InitialSectors  \* the sectors of the images

VARIABLES
  drive,     \* the drive that is selected
  track,     \* the track that is selected on each drive
  sector,    \* the sector that is selected on each drive
  low, high, \* the address of the buffer
  sectors,   \* contents of every sector
  memory     \* guest memory

selection == <<drive, track, sector, low, high>>
vars == <<selection, sectors, memory>>

SectorName == UNION {{d} \X (0..Tracks[d]-1) \X (1..Spt[d]) : d \in Present}

MemSize == ByteBase * ByteBase
Offset == 0..SectorSize-1
Address == 0..MemSize-1
Window(a) == a..a+SectorSize-1

Selected == <<drive, track[drive], sector[drive]>>
Buffer == high * ByteBase + low
Legal == Selected \in SectorName /\ Buffer + SectorSize <= MemSize

Init ==
  /\ drive = 0 /\ low = 0 /\ high = 0
  /\ track = [d \in Slots |-> 0] /\ sector = [d \in Slots |-> 0]
  /\ sectors = InitialSectors /\ memory = InitialMemory

(* One part of the selection changes, and the others stay. *)
SelectDrive(d) ==
  drive' = d /\ UNCHANGED <<track, sector, low, high, sectors, memory>>
SelectTrack(t) ==
  /\ track' = [track EXCEPT ![drive] = t]
  /\ UNCHANGED <<drive, sector, low, high, sectors, memory>>
SelectSector(s) ==
  /\ sector' = [sector EXCEPT ![drive] = s]
  /\ UNCHANGED <<drive, track, low, high, sectors, memory>>
SetLow(b) == low' = b /\ UNCHANGED <<drive, track, sector, high, sectors, memory>>
SetHigh(b) == high' = b /\ UNCHANGED <<drive, track, sector, low, sectors, memory>>

(* The selected sector is copied to the buffer. *)
Read ==
  /\ Legal
  /\ memory' = [i \in Address |-> IF i \in Window(Buffer) THEN sectors[Selected][i - Buffer]
                                                         ELSE memory[i]]
  /\ UNCHANGED <<selection, sectors>>

(* The buffer is copied to the selected sector. *)
Write ==
  /\ Legal
  /\ sectors' = [sectors EXCEPT ![Selected] = [i \in Offset |-> memory[Buffer + i]]]
  /\ UNCHANGED <<selection, memory>>

(* The boot loader: the first two sectors of drive 0 go to address 0. *)
Boot ==
  /\ memory' = [i \in Address |->
                  IF i < SectorSize THEN sectors[<<0, 0, 1>>][i]
                  ELSE IF i < 2 * SectorSize
                       THEN sectors[<<0, 0, 2>>][i - SectorSize]
                       ELSE memory[i]]
  /\ UNCHANGED <<selection, sectors>>

(* The processor stores a byte. *)
Store(a, v) ==
  /\ memory' = [memory EXCEPT ![a] = v]
  /\ UNCHANGED <<selection, sectors>>

Next ==
  \/ \E d \in Present : SelectDrive(d)
  \/ \E b \in 0..ByteBase-1 : SelectTrack(b) \/ SelectSector(b) \/ SetLow(b) \/ SetHigh(b)
  \/ Read \/ Write \/ Boot
  \/ \E a \in Address, v \in Byte : Store(a, v)

Spec == Init /\ [][Next]_vars
=============================================================================
