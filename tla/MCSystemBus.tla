----------------------------- MODULE MCSystemBus -----------------------------
(***************************************************************************)
(* Bytes of three bits, so 64 bytes of memory and sectors of eight bytes;  *)
(* drives of two tracks and of one, of two sectors, whose bytes differ     *)
(* from each other, so that sectors also read as command blocks.  Sector 0 *)
(* is selected at first, and 3 is beyond the track: both name sectors of   *)
(* neighbouring tracks.  Two slots to hand out and two descriptors, the    *)
(* second of which a connection can find when the first leaks.  The blocks *)
(* name clear buffers, one that covers the block itself, one at the end of *)
(* memory, and handles that are not of the table.                          *)
(***************************************************************************)
EXTENDS SystemBus

MCTracks == [d \in Present |-> 2 - d]
MCSpt == [d \in Present |-> 2]
MCMemory == [c \in Cell |-> 0]
MCStore == [d \in Present |-> [o \in StoreOffset(d) |-> (o + 1 + 3 * d) % 8]]
MCStores == {<<8, 5>>}
MCErrno == [e \in {"0", "EBADF", "EPIPE", "EAGAIN", "ECONNRESET"} |->
  CASE e = "0" -> 0 [] e = "EBADF" -> 2 [] e = "EPIPE" -> 3 [] e = "EAGAIN" -> 4 [] OTHER -> 5]
MCStream == [f \in Descriptors |-> IF f = 3 THEN <<1, 2, 3>> ELSE <<4, 5, 6>>]

ToBuffer == <<4, 1, 0, 4, 3>>    \* RECV by handle 1: three bytes to 32
OverBlock == <<4, 1, 0, 0, 3>>   \* ... over a block at 0
PastMemory == <<4, 1, 7, 7, 2>>  \* ... to the last byte of memory and the next
StrayRead == <<4, 6, 0, 4, 1>>
StrayWrite == <<3, 7, 0, 4, 1>>
MCBlocks == {<<1>>, <<2, 1>>, <<2, 5>>, <<3, 1, 0, 4, 2>>, ToBuffer, OverBlock,
             PastMemory, StrayRead, StrayWrite, <<5>>}

(* The devices together: the network with a first transfer on sector 3 of  *)
(* drive 0 and no other, unless the DMA address has moved to the end of    *)
(* memory; and the clock, which shares nothing with them, before any of    *)
(* them is used.                                                           *)
Together ==
  /\ prepared \/ commands > 0 =>
       /\ current_drive_id = 0 /\ DMA \in {0, 62}
       /\ \A d \in Present : selected_track[d] = 0 /\ selected_sector[d] = IF d < transfers THEN 3 ELSE 0
       /\ transfers + commands <= MaxCommands
       /\ DMA # 0 => transfers = 0
  /\ now > 15 \/ halves > 0 =>
       /\ ~prepared /\ commands = 0 /\ transfers = 0 /\ DMA = 0
       /\ current_drive_id = 0 /\ selected_sector[0] = 0
=============================================================================
