------------------------------ MODULE SystemBus ------------------------------
(***************************************************************************)
(* The system bus of sysbus.c with the devices behind it: the disk         *)
(* controller and the TCP service use the same DMA address and the same    *)
(* guest memory.  Port F0 hands TCP_dispatch a command block at DMA:       *)
(* instruction, handle, pointer to the data (two bytes), length; the       *)
(* service leaves its result in byte 1, and SEND and RECV leave an error   *)
(* number in byte 2.  The guest is arbitrary, and the clock ticks.         *)
(***************************************************************************)
EXTENDS DiskController, Clock, Sequences

CONSTANTS
  TCP_CONNECT, TCP_CLOSE, TCP_SEND, TCP_RECV,  \* instructions of the block
  MaxSockets, FirstSlot, Descriptors, MaxUnread, MaxSpace,  \* of SocketTable
  Errno,        \* the number of each error
  Stream,       \* what the peer of each descriptor sends
  Blocks,       \* command blocks the guest stores
  StrayData,    \* bytes that a descriptor of another file may give
  MaxCommands   \* bound on the network commands of a behaviour

VARIABLES
  realfd, mappedfd, sigpipe, open, link, unread, space, reply,  \* of SocketTable
  taken,      \* of each descriptor, bytes of its stream read so far
  delivered,  \* history: of each descriptor, what the guest found in its buffer
  spoilt,     \* history: descriptors whose data the guest let be overwritten
  prepared,   \* the guest has stored a block, and calls the service next
  commands    \* network commands so far, bounded by MaxCommands

Net == INSTANCE SocketTable WITH Lengths <- RegA

history == <<taken, delivered, spoilt>>
calls == <<realfd, mappedfd, sigpipe, open, link, unread, space, reply>>
network == <<calls, history, prepared, commands>>
disk == <<current_drive_id, controls, io_in_progress, backingstore, DMA, transfers>>
busvars == <<vars, network, clock>>

(* The command block and its fields; the handle is an int8_t.              *)
Field(k) == memory[DMA + k]
Handle == IF 2 * Field(1) < ByteBase THEN Field(1) ELSE Field(1) - ByteBase
Pointer == Field(2) + ByteBase * Field(3)
Length == Field(4)
ResultCells == {DMA + 1, DMA + 2}
Window(n) == Pointer..Pointer+n-1

ASSUME BlocksAssumption ==
  /\ Byte = RegA /\ SectorSize > 4
  /\ Blocks \subseteq Seq(RegA) /\ StrayData \subseteq RegA
  /\ Stream \in [Descriptors -> Seq(RegA)]
  /\ Errno \in [Net!Errors \cup {"0"} -> RegA] /\ \A e \in Net!Errors : Errno[e] # Errno["0"]

ASSUME SocketsAssumption ==
  /\ MaxSockets \in Nat /\ FirstSlot \in Net!Slot /\ MaxSockets < ByteBase
  /\ MaxUnread \in Nat /\ MaxSpace \in Nat /\ MaxCommands \in Nat
  /\ Net!Free \notin Descriptors
  /\ TCP_CONNECT \notin {TCP_CLOSE, TCP_SEND, TCP_RECV}
  /\ TCP_CLOSE \notin {TCP_SEND, TCP_RECV} /\ TCP_SEND # TCP_RECV

BusTypeOK ==
  /\ TypeOK
  /\ status # "reset" => Net!TypeOK
  /\ ClockTypeOK
  /\ taken \in [Descriptors -> Nat]
  /\ \A f \in Descriptors : taken[f] + unread[f] <= Len(Stream[f])
  /\ delivered \in [Descriptors -> Seq(RegA)]
  /\ spoilt \subseteq Descriptors
  /\ prepared \in BOOLEAN
  /\ commands \in 0..MaxCommands

BusInit ==
  /\ Init /\ ClockInit
  /\ realfd = [s \in Net!Slot |-> Net!Free] /\ mappedfd = realfd
  /\ sigpipe = "default" /\ open = {}
  /\ link = [f \in Descriptors |-> "none"]
  /\ unread = [f \in Descriptors |-> 0] /\ space = unread /\ taken = unread
  /\ reply = [op |-> "none", slot |-> 0, len |-> 0, failed |-> FALSE, a |-> 0,
              error |-> "unwritten"]
  /\ delivered = [f \in Descriptors |-> <<>>]
  /\ spoilt = {} /\ prepared = FALSE /\ commands = 0

-----------------------------------------------------------------------------
(* The guest prepares a command block at DMA with stores of its own.       *)
GuestStores(b) ==
  /\ status = "running" /\ commands < MaxCommands
  /\ prepared' = TRUE
  /\ memory' = [c \in Cell |->
       IF \E i \in 1..Len(b) : c = (DMA + i - 1) % MemSize
       THEN b[CHOOSE i \in 1..Len(b) : c = (DMA + i - 1) % MemSize]
       ELSE memory[c]]
  /\ UNCHANGED <<status, disk, calls, history, commands>>

(* Port F0 with x = 36: a command, by the instruction byte of the block,   *)
(* new or left by an earlier command.                                      *)
Command(instruction) ==
  /\ commands < MaxCommands /\ commands' = commands + 1
  /\ prepared' = FALSE
  /\ Field(0) = instruction
  /\ UNCHANGED disk

(* Faulty: the results are stored before the data, which may replace them. *)
WithResultsFirst(m) ==
  [c \in Cell |-> IF c \in DOMAIN m /\ m[c] # memory[c] THEN m[c]
             ELSE IF c = DMA + 1 THEN reply'.a
             ELSE IF c = DMA + 2 /\ reply'.error # "unwritten" THEN Errno[reply'.error]
             ELSE m[c]]

(* Faulty: every command stores an error number. *)
WithErrorAlways(m) ==
  [m EXCEPT ![DMA + 1] = reply'.a,
            ![DMA + 2] = IF reply'.error = "unwritten" THEN 0 ELSE Errno[reply'.error]]

(* The results in the block, stored over the memory m; nothing is stored   *)
(* if the process ends.                                                    *)
WithResults(m) ==
  IF status' # "running" THEN memory
  ELSE [c \in Cell |-> IF c = DMA + 1 THEN reply'.a
                  ELSE IF c = DMA + 2 /\ reply'.error # "unwritten" THEN Errno[reply'.error]
                  ELSE m[c]]

Connect ==
  /\ Command(TCP_CONNECT)
  /\ Net!Connect \/ Net!SocketFails
  /\ memory' = WithResults(memory)
  /\ LET new == open' \ open IN
     /\ taken' = [f \in Descriptors |-> IF f \in new THEN 0 ELSE taken[f]]
     /\ delivered' = [f \in Descriptors |-> IF f \in new THEN <<>> ELSE delivered[f]]
     /\ spoilt' = spoilt \ new

(* A handle outside the table gets -1 from CLOSE.                          *)
CloseOutside ==
  /\ status = "running" /\ Handle \notin Net!Slot
  /\ Net!Answer("close", 0, 0, TRUE, Net!Minus1, "unwritten")
  /\ UNCHANGED <<status, realfd, mappedfd, sigpipe, open, link, unread, space>>

Close ==
  /\ Command(TCP_CLOSE)
  /\ \/ \E s \in Net!Slot : s = Handle /\ (Net!Close(s) \/ Net!CloseFree(s))
     \/ CloseOutside
  /\ memory' = WithResults(memory)
  /\ UNCHANGED history

Send ==
  /\ Command(TCP_SEND)
  /\ \E s \in Net!Slot :
       s = Handle /\ (Net!BadHandle("send", s, Length) \/ Net!Send(s, Length) \/ Net!SendFails(s, Length))
  /\ memory' = WithResults(memory)
  /\ UNCHANGED history

(* Faulty: the data goes to the block. *)
DataAtBlock(f, k) ==
  [c \in Cell |-> IF c \in DMA..DMA+k-1 THEN Stream[f][taken[f] + c - DMA + 1] ELSE memory[c]]

(* read() puts the next k bytes of the stream at Pointer, past the end of  *)
(* memory[] too.                                                           *)
WithData(f, k) ==
  [c \in Cell |-> IF c \in Window(k) THEN Stream[f][taken[f] + c - Pointer + 1] ELSE memory[c]]

(* The guest takes from its buffer as many bytes as the block says.        *)
Counted == IF memory'[DMA + 2] = Errno["0"] THEN memory'[DMA + 1] ELSE 0
Found == [i \in 1..Counted |-> memory'[(Pointer + i - 1) % MemSize]]
WindowClear(k) == Window(k) \cap ResultCells = {} /\ Window(k) \subseteq Address

Receive(s) ==
  LET f == realfd[s]
      k == reply'.a
  IN  /\ Net!Receive(s, Length)
      /\ memory' = WithResults(WithData(f, k))
      /\ taken' = [taken EXCEPT ![f] = @ + k]
      /\ delivered' = [delivered EXCEPT ![f] = @ \o Found]
      /\ spoilt' = IF WindowClear(k) THEN spoilt ELSE spoilt \cup {f}

ReceiveNothing(s) ==
  /\ Net!BadHandle("recv", s, Length) \/ Net!ReceiveFails(s, Length)
  /\ memory' = WithResults(memory)
  /\ UNCHANGED history

Recv ==
  /\ Command(TCP_RECV)
  /\ \E s \in Net!Slot : s = Handle /\ (Receive(s) \/ ReceiveNothing(s))

(* A handle outside the table makes SEND and RECV use whatever lies beside *)
(* TCP_Sockets as a descriptor: -1, one that is no good, one of another    *)
(* file, or that of some socket.                                           *)
Stray(instruction) ==
  /\ Command(instruction)
  /\ status = "running" /\ Handle \notin Net!Slot
  /\ UNCHANGED <<realfd, mappedfd, sigpipe, open, link, delivered>>

(* What is reported of it: every error of read(), of write() only EPIPE,    *)
(* which comes with a signal; EBADF is also reported of a -1.              *)
StrayErrors(op) ==
  IF op = "recv" THEN Net!Errors
  ELSE {"EBADF"} \cup (IF sigpipe = "ignored" THEN {"EPIPE"} ELSE {})

(* With any other error of write(), and where nothing is mapped, the       *)
(* process aborts.                                                         *)
StrayRefused(op) ==
  /\ \/ /\ \E e \in StrayErrors(op) : Net!Answer(op, 0, Length, TRUE, Net!Minus1, e)
        /\ UNCHANGED status
     \/ /\ op = "send" /\ sigpipe = "default"
        /\ status' = "killed" /\ UNCHANGED reply
     \/ status' = "aborted" /\ UNCHANGED reply
  /\ memory' = WithResults(memory)
  /\ UNCHANGED <<unread, space, taken, spoilt>>

StrayBytes(op, k) ==
  /\ Net!Answer(op, 0, Length, FALSE, k, "0")
  /\ UNCHANGED status

StraySend ==
  /\ Stray(TCP_SEND)
  /\ \/ StrayRefused("send")
     \/ \E k \in 0..Length :
          /\ StrayBytes("send", k)
          /\ memory' = WithResults(memory)
          /\ \/ UNCHANGED space
             \/ \E f \in open : k <= space[f] /\ space' = [space EXCEPT ![f] = @ - k]
          /\ UNCHANGED <<unread, taken, spoilt>>

StrayRecv ==
  /\ Stray(TCP_RECV)
  /\ \/ StrayRefused("recv")
     \/ \E k \in 0..Length :
          /\ StrayBytes("recv", k)
          /\ UNCHANGED space
          /\ \/ /\ \E b \in StrayData : memory' = WithResults(
                     [c \in Cell |-> IF c \in Window(k) THEN b ELSE memory[c]])
                /\ UNCHANGED <<unread, taken, spoilt>>
             \/ \E f \in open :
                  /\ k <= unread[f]
                  /\ memory' = WithResults(WithData(f, k))
                  /\ unread' = [unread EXCEPT ![f] = @ - k]
                  /\ taken' = [taken EXCEPT ![f] = @ + k]
                  /\ spoilt' = spoilt \cup {f}

UnknownInstruction ==
  /\ \E i \in RegA \ {TCP_CONNECT, TCP_CLOSE, TCP_SEND, TCP_RECV} : Command(i)
  /\ Net!UnknownInstruction
  /\ UNCHANGED <<memory, history>>

(* Port F0 with another x, and a port that is not on the bus: the process  *)
(* ends, by an assert or by exit.                                          *)
UnhandledPort ==
  /\ status = "running" /\ status' = "aborted"
  /\ UNCHANGED <<disk, memory, network>>

(* The peers send no more than their streams hold.                         *)
Peer == \E f \in Descriptors :
  /\ \/ Net!PeerSends(f) /\ taken[f] + unread[f] < Len(Stream[f])
     \/ Net!PeerShuts(f) \/ Net!PeerResets(f) \/ Net!PeerTakes(f)
  /\ UNCHANGED <<disk, memory, history, prepared, commands>>

Network == Connect \/ Close \/ Send \/ Recv \/ StraySend \/ StrayRecv \/ UnknownInstruction
Store == \E b \in Blocks : GuestStores(b)
Disk == Next /\ UNCHANGED network

(* Port F1. *)
ReadClock == status = "running" /\ ~prepared /\ Reading /\ UNCHANGED <<vars, network>>

(* One guest thread uses the ports: between the halves of its reading of   *)
(* the clock, only the clock and the peers go on.                          *)
BusNext ==
  \/ /\ halves # 1
     /\ \/ ~prepared /\ (Disk \/ Store \/ UnhandledPort)
        \/ Network
     /\ UNCHANGED clock
  \/ Peer /\ UNCHANGED clock
  \/ ReadClock
  \/ Tick /\ UNCHANGED <<vars, network>>

BusSpec == BusInit /\ [][BusNext]_busvars

-----------------------------------------------------------------------------
(* A network command changes no byte of memory but the result in byte 1 of *)
(* its block, the error number of SEND and RECV in byte 2, and for RECV    *)
(* the buffer that the block names: whatever handle the guest gives, one   *)
(* that is not of the table too (TCP_dispatch).                            *)
CommandConfined ==
  [][commands' # commands => \A c \in Cell : memory'[c] # memory[c] =>
       \/ c = DMA + 1
       \/ c = DMA + 2 /\ Field(0) \in {TCP_SEND, TCP_RECV}
       \/ c \in Window(Length) /\ Field(0) = TCP_RECV]_busvars

(* What entered or left the kernel's buffer of descriptor f in a step.     *)
Moved == [f \in Descriptors |-> unread[f] - unread'[f] + space[f] - space'[f]]

(* The guest learns what its command did from the block, even when the     *)
(* data of RECV falls on the block: byte 1 is the number of bytes that     *)
(* were moved if byte 2 is 0, and nothing was moved otherwise; after       *)
(* CONNECT byte 1 is a handle of the new connection, or -1 and the handles *)
(* are as before; after CLOSE it is 0 exactly if the handle was in use     *)
(* (TCP_dispatch).                                                         *)
BlockTellsOutcome ==
  [][commands' # commands /\ status' = "running" =>
       LET result == memory'[DMA + 1]
           error == memory'[DMA + 2]
       IN  /\ Field(0) \in {TCP_SEND, TCP_RECV} /\ Handle \in Net!Slot =>
                IF error = Errno["0"]
                THEN realfd[Handle] # Net!Free /\ Moved[realfd[Handle]] = result
                ELSE result = Net!Minus1 /\ \A f \in Descriptors : Moved[f] = 0
           /\ Field(0) = TCP_CONNECT =>
                IF result = Net!Minus1 THEN realfd' = realfd
                ELSE realfd[result] = Net!Free /\ link'[realfd'[result]] = "up"
           /\ Field(0) = TCP_CLOSE =>
                (result = 0 <=> \E s \in Net!Slot : s = Handle /\ realfd[s] # Net!Free)]_busvars

(* A signal ends the process only in a SEND whose handle is not of the     *)
(* table, and only before the first connection: the guest that uses the    *)
(* handles it was given never loses the machine to a peer that resets,     *)
(* and TCP_Connect ignores SIGPIPE for all descriptors from then on.       *)
KilledByStrayOnly ==
  [][status' = "killed" /\ status # "killed" =>
       Field(0) = TCP_SEND /\ Handle \notin Net!Slot /\ sigpipe = "default"]_busvars

(* What the guest finds in its buffers, RECV after RECV, is the stream of  *)
(* the peer from its start, with nothing lost, repeated or out of order;   *)
(* a connection is excepted once its data fell on the results or past the  *)
(* end of memory, or a RECV with a stray handle read from it               *)
(* (TCP_RECV of TCP_dispatch).                                             *)
StreamInOrder ==
  \A f \in Descriptors \ spoilt :
    /\ Len(delivered[f]) <= Len(Stream[f])
    /\ delivered[f] = SubSeq(Stream[f], 1, Len(delivered[f]))
=============================================================================
