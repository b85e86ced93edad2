------------------------------ MODULE MCDiskBios ------------------------------
(***************************************************************************)
(* The instance of MCDiskController, with requests of the BIOS only.       *)
(***************************************************************************)
EXTENDS DiskBios

MCTracks == [d \in Present |-> IF d = 0 THEN 2 ELSE 1]
MCSpt == [d \in Present |-> 2]
MCMemory == [c \in Cell |-> <<10, c>>]
MCStore == [d \in Present |-> [o \in StoreOffset(d) |-> <<d, o>>]]
MCByte == {<<10, c>> : c \in Cell} \cup (Present \X (0..7)) \cup {<<11, 0>>}
MCStores == {<<3, <<11, 0>> >>}
=============================================================================
