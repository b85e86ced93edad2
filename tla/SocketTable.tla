----------------------------- MODULE SocketTable -----------------------------
(***************************************************************************)
(* The TCP service of network.c, which the guest calls through port F0:    *)
(* a table of slots that maps the small handles of the guest to the        *)
(* descriptors of the host, and the kernel's side of each descriptor as    *)
(* far as the service can see it.                                          *)
(***************************************************************************)
EXTENDS Integers

CONSTANTS
  MaxSockets,   \* MAX_SOCKETS
  FirstSlot,    \* 3: the first slot TCP_Connect hands out
  Descriptors,  \* descriptors the kernel may give to sockets
  ByteBase,     \* 256
  Lengths,      \* transfer lengths the guest asks for
  MaxUnread,    \* bound on the bytes a peer sends ahead
  MaxSpace      \* bytes a send buffer holds

Slot == 0..MaxSockets-1
Minus1 == ByteBase - 1     \* -1 in one byte
Free == -1                 \* no descriptor

ASSUME DescriptorsAssumption == Free \notin Descriptors

ASSUME TableAssumption ==
  /\ MaxSockets \in Nat /\ FirstSlot \in Slot
  /\ ByteBase \in Nat /\ MaxSockets < ByteBase
  /\ Lengths \subseteq 0..ByteBase-1
  /\ MaxUnread \in Nat /\ MaxSpace \in Nat

VARIABLES
  status,    \* "running", "aborted" by an assert, or "killed" by SIGPIPE
  realfd,    \* of each slot
  mappedfd,  \* of each slot
  sigpipe,   \* disposition of SIGPIPE: "default" or "ignored"
  open,      \* kernel: descriptors of sockets that are open
  link,      \* kernel: state of the connection of each descriptor
  unread,    \* kernel: bytes received and not yet read
  space,     \* kernel: bytes the send buffer still takes
  reply      \* what the last command left in A and in the command block

table == <<realfd, mappedfd>>
kernel == <<open, link, unread, space>>
vars == <<status, table, sigpipe, kernel, reply>>

(* "none": never connected. "shut": the peer will send no more.            *)
LinkState == {"none", "up", "shut", "reset"}
Errors == {"EBADF", "EPIPE", "EAGAIN", "ECONNRESET"}

(* The error byte of the block is written by SEND and RECV only.           *)
Reply == [op : {"none", "connect", "close", "send", "recv"}, slot : Slot, len : 0..ByteBase-1,
          failed : BOOLEAN, a : 0..ByteBase-1, error : Errors \cup {"0", "unwritten"}]

TypeOK ==
  /\ status \in {"running", "aborted", "killed"}
  /\ realfd \in [Slot -> Descriptors \cup {Free}]
  /\ mappedfd \in [Slot -> Slot \cup {Free}]
  /\ sigpipe \in {"default", "ignored"}
  /\ open \subseteq Descriptors
  /\ link \in [Descriptors -> LinkState]
  /\ unread \in [Descriptors -> 0..MaxUnread]
  /\ space \in [Descriptors -> 0..MaxSpace]
  /\ reply \in Reply

Init ==
  /\ status = "running"
  /\ realfd = [s \in Slot |-> Free]
  /\ mappedfd = [s \in Slot |-> Free]
  /\ sigpipe = "default"
  /\ open = {}
  /\ link = [f \in Descriptors |-> "none"]
  /\ unread = [f \in Descriptors |-> 0]
  /\ space = [f \in Descriptors |-> 0]
  /\ reply = [op |-> "none", slot |-> 0, len |-> 0, failed |-> FALSE, a |-> 0, error |-> "unwritten"]

-----------------------------------------------------------------------------
(* A command ends by storing its result in A and in byte 1 of the block,   *)
(* and SEND and RECV store an error number in byte 2.                      *)
Answer(op, s, n, f, r, e) ==
  reply' = [op |-> op, slot |-> s, len |-> n, failed |-> f, a |-> r % ByteBase, error |-> e]

(* Faulty: slots in use are handed out again. *)
AllSlots == {s \in Slot : s >= FirstSlot}

FreeSlots == {s \in Slot : s >= FirstSlot /\ realfd[s] = Free}
FirstFree == CHOOSE s \in FreeSlots : \A t \in FreeSlots : s <= t

(* socket() finds no descriptor left, which is asserted not to happen.     *)
SocketFails ==
  /\ status = "running"
  /\ open = Descriptors
  /\ status' = "aborted"
  /\ UNCHANGED <<table, sigpipe, kernel, reply>>

(* socket() returned f and connect() failed: f stays open, in no slot.     *)
ConnectFails(f) ==
  /\ status = "running"
  /\ f \in Descriptors \ open
  /\ open' = open \cup {f}
  /\ link' = [link EXCEPT ![f] = "none"]
  /\ Answer("connect", 0, 0, TRUE, Minus1, "unwritten")
  /\ UNCHANGED <<status, table, sigpipe, unread, space>>

Establish(f) ==
  /\ status = "running"
  /\ f \in Descriptors \ open
  /\ open' = open \cup {f}
  /\ link' = [link EXCEPT ![f] = "up"]
  /\ unread' = [unread EXCEPT ![f] = 0]
  /\ space' = [space EXCEPT ![f] = MaxSpace]

(* Faulty: SIGPIPE keeps its disposition. *)
ConnectKeepingSigpipe(f) ==
  /\ Establish(f)
  /\ FreeSlots # {}
  /\ realfd' = [realfd EXCEPT ![FirstFree] = f]
  /\ mappedfd' = [mappedfd EXCEPT ![FirstFree] = FirstFree]
  /\ Answer("connect", 0, 0, FALSE, FirstFree, "unwritten")
  /\ UNCHANGED <<status, sigpipe>>

ConnectSucceeds(f) ==
  /\ Establish(f)
  /\ FreeSlots # {}
  /\ realfd' = [realfd EXCEPT ![FirstFree] = f]
  /\ mappedfd' = [mappedfd EXCEPT ![FirstFree] = FirstFree]
  /\ sigpipe' = "ignored"
  /\ Answer("connect", 0, 0, FALSE, FirstFree, "unwritten")
  /\ UNCHANGED status

(* Connected, but every slot is taken: f stays open, in no slot.           *)
ConnectFindsTableFull(f) ==
  /\ Establish(f)
  /\ FreeSlots = {}
  /\ Answer("connect", 0, 0, TRUE, Minus1, "unwritten")
  /\ UNCHANGED <<status, table, sigpipe>>

CloseKernel(s) ==
  /\ open' = open \ {realfd[s]}
  /\ link' = [link EXCEPT ![realfd[s]] = "none"]
  /\ unread' = [unread EXCEPT ![realfd[s]] = 0]
  /\ space' = [space EXCEPT ![realfd[s]] = 0]

(* Faulty: the slot is set to 0, or keeps its descriptor. *)
CloseToZero(s) ==
  /\ status = "running" /\ realfd[s] # Free
  /\ CloseKernel(s)
  /\ realfd' = [realfd EXCEPT ![s] = 0]
  /\ Answer("close", s, 0, FALSE, 0, "unwritten")
  /\ UNCHANGED <<status, sigpipe, mappedfd>>

CloseKeeping(s) ==
  /\ status = "running" /\ realfd[s] # Free
  /\ CloseKernel(s)
  /\ Answer("close", s, 0, FALSE, 0, "unwritten")
  /\ UNCHANGED <<status, sigpipe, table>>

Close(s) ==
  /\ status = "running"
  /\ realfd[s] # Free
  /\ CloseKernel(s)
  /\ realfd' = [realfd EXCEPT ![s] = Free]
  /\ mappedfd' = [mappedfd EXCEPT ![s] = Free]
  /\ Answer("close", s, 0, FALSE, 0, "unwritten")
  /\ UNCHANGED <<status, sigpipe>>

CloseFree(s) ==
  /\ status = "running"
  /\ realfd[s] = Free
  /\ Answer("close", s, 0, TRUE, Minus1, "unwritten")
  /\ UNCHANGED <<status, table, sigpipe, kernel>>

-----------------------------------------------------------------------------
(* Faulty: no error number is stored. *)
BadHandleUnnumbered(op, s, n) ==
  /\ status = "running"
  /\ realfd[s] = Free
  /\ Answer(op, s, n, TRUE, Minus1, "0")
  /\ UNCHANGED <<status, table, sigpipe, kernel>>

(* SEND and RECV on a slot that is free. *)
BadHandle(op, s, n) ==
  /\ status = "running"
  /\ realfd[s] = Free
  /\ Answer(op, s, n, TRUE, Minus1, "EBADF")
  /\ UNCHANGED <<status, table, sigpipe, kernel>>

(* write() takes some of the bytes, or none if none are asked for.         *)
Send(s, n) ==
  LET f == realfd[s] IN
  /\ status = "running"
  /\ f # Free
  /\ link[f] \in {"up", "shut"}
  /\ \E k \in 0..n :
       /\ k <= space[f] /\ (k = 0 => n = 0)
       /\ space' = [space EXCEPT ![f] = @ - k]
       /\ Answer("send", s, n, FALSE, k, "0")
  /\ UNCHANGED <<status, table, sigpipe, open, link, unread>>

(* What write() fails with: the descriptor was made non-blocking, and a    *)
(* reset shows as ECONNRESET once and as EPIPE, with the signal, later.    *)
SendErrors(f, n) ==
  IF link[f] = "reset" THEN {"EPIPE", "ECONNRESET"}
  ELSE IF link[f] \in {"up", "shut"} /\ space[f] = 0 /\ n > 0 THEN {"EAGAIN"}
  ELSE {}

(* Only EPIPE is reported; any other error is asserted not to happen.      *)
SendFails(s, n) ==
  LET f == realfd[s] IN
  /\ status = "running"
  /\ f # Free
  /\ \E e \in SendErrors(f, n) :
       \/ /\ e = "EPIPE" /\ sigpipe = "ignored"
          /\ Answer("send", s, n, TRUE, Minus1, "EPIPE")
          /\ UNCHANGED status
       \/ /\ e = "EPIPE" /\ sigpipe = "default"
          /\ status' = "killed"
          /\ UNCHANGED reply
       \/ /\ e # "EPIPE"
          /\ status' = "aborted"
          /\ UNCHANGED reply
  /\ UNCHANGED <<table, sigpipe, kernel>>

(* read() gives some of the unread bytes, or 0 at the end of the stream.   *)
Receive(s, n) ==
  LET f == realfd[s] IN
  /\ status = "running"
  /\ f # Free
  /\ \E k \in 0..n :
       /\ k <= unread[f]
       /\ k = 0 => \/ n = 0
                   \/ unread[f] = 0 /\ link[f] \in {"shut", "reset"}
       /\ unread' = [unread EXCEPT ![f] = @ - k]
       /\ Answer("recv", s, n, FALSE, k, "0")
  /\ UNCHANGED <<status, table, sigpipe, open, link, space>>

ReceiveErrors(f, n) ==
  IF link[f] = "reset" THEN {"ECONNRESET"}
  ELSE IF link[f] = "up" /\ unread[f] = 0 /\ n > 0 THEN {"EAGAIN"}
  ELSE {}

(* Every error is reported, and the slot stays in use. *)
ReceiveFails(s, n) ==
  LET f == realfd[s] IN
  /\ status = "running"
  /\ f # Free
  /\ \E e \in ReceiveErrors(f, n) : Answer("recv", s, n, TRUE, Minus1, e)
  /\ UNCHANGED <<status, table, sigpipe, kernel>>

(* An instruction TCP_dispatch does not know. *)
UnknownInstruction ==
  /\ status = "running"
  /\ status' = "aborted"
  /\ UNCHANGED <<table, sigpipe, kernel, reply>>

-----------------------------------------------------------------------------
(* The network: the peer of an open connection sends, stops sending,       *)
(* resets, or takes bytes out of the send buffer.                          *)
Connected(f) == status = "running" /\ f \in open /\ link[f] = "up"

PeerSends(f) ==
  /\ Connected(f) /\ unread[f] < MaxUnread
  /\ unread' = [unread EXCEPT ![f] = @ + 1]
  /\ UNCHANGED <<status, table, sigpipe, open, link, space, reply>>

PeerShuts(f) ==
  /\ Connected(f)
  /\ link' = [link EXCEPT ![f] = "shut"]
  /\ UNCHANGED <<status, table, sigpipe, open, unread, space, reply>>

PeerResets(f) ==
  /\ status = "running" /\ f \in open /\ link[f] \in {"up", "shut"}
  /\ link' = [link EXCEPT ![f] = "reset"]
  /\ unread' = [unread EXCEPT ![f] = 0]
  /\ space' = [space EXCEPT ![f] = 0]
  /\ UNCHANGED <<status, table, sigpipe, open, reply>>

PeerTakes(f) ==
  /\ status = "running" /\ f \in open /\ link[f] \in {"up", "shut"}
  /\ space[f] < MaxSpace
  /\ space' = [space EXCEPT ![f] = @ + 1]
  /\ UNCHANGED <<status, table, sigpipe, open, link, unread, reply>>

Connect == \E f \in Descriptors :
  ConnectFails(f) \/ ConnectSucceeds(f) \/ ConnectFindsTableFull(f)
Peer == \E f \in Descriptors :
  PeerSends(f) \/ PeerShuts(f) \/ PeerResets(f) \/ PeerTakes(f)
Transfer == \E s \in Slot, n \in Lengths :
  \/ BadHandle("send", s, n) \/ BadHandle("recv", s, n)
  \/ Send(s, n) \/ SendFails(s, n)
  \/ Receive(s, n) \/ ReceiveFails(s, n)

Next ==
  \/ SocketFails
  \/ Connect
  \/ \E s \in Slot : Close(s) \/ CloseFree(s)
  \/ Transfer
  \/ UnknownInstruction
  \/ Peer

Spec == Init /\ [][Next]_vars

-----------------------------------------------------------------------------
(* The table and the kernel agree: a slot in use is one the guest may be   *)
(* given, holds the descriptor of a connected socket that is open, and     *)
(* shares it with no other slot; so no descriptor is closed twice, and a   *)
(* descriptor number the kernel hands out again never stays in an old slot *)
(* (TCP_Connect and TCP_CLOSE of TCP_dispatch).                            *)
TableMatchesKernel ==
  \A s \in Slot : realfd[s] # Free =>
    /\ s >= FirstSlot /\ mappedfd[s] = s
    /\ realfd[s] \in open /\ link[realfd[s]] # "none"
    /\ \A t \in Slot \ {s} : realfd[t] # realfd[s]

(* A handle names one connection until the guest closes it: whatever fails *)
(* or is connected meanwhile, the slot keeps its descriptor, the kernel    *)
(* keeps it open, and unread bytes of a live connection are never dropped  *)
(* except by the RECV that returns them.                                   *)
HandleKeepsConnection ==
  [][\A s \in Slot : realfd[s] # Free =>
       \/ reply'.op = "close" /\ reply'.slot = s /\ realfd'[s] = Free
       \/ /\ realfd'[s] = realfd[s] /\ realfd[s] \in open'
          /\ \/ unread'[realfd[s]] >= unread[realfd[s]]
             \/ link'[realfd[s]] = "reset"
             \/ /\ reply'.slot = s /\ ~reply'.failed
                /\ unread[realfd[s]] - unread'[realfd[s]] = reply'.a]_vars

(* The guest can tell what SEND or RECV did: byte 2 of the block is an     *)
(* error number exactly when the call failed, although a count of 255 and  *)
(* a failure leave the same A; and a count of 0 for bytes it asked for     *)
(* means that the peer has finished.                                       *)
ReplyTellsOutcome ==
  reply.op \in {"send", "recv"} =>
    /\ reply.failed <=> reply.error # "0"
    /\ reply.failed => reply.a = Minus1
    /\ reply.op = "recv" /\ ~reply.failed /\ reply.a = 0 /\ reply.len > 0 =>
         link[realfd[reply.slot]] \in {"shut", "reset"}

(* A write to a connection the peer has reset never kills the emulator:    *)
(* SIGPIPE is ignored before the first SEND that can raise it.             *)
NeverKilled == status # "killed"

(* socket() has a descriptor left unless the guest holds them all in the   *)
(* table: the assert that follows "couldn't open socket" never fails for a *)
(* guest that closes what it connects.                                     *)
DescriptorsAvailable ==
  open = Descriptors => \A f \in Descriptors : \E s \in Slot : realfd[s] = f
=============================================================================
