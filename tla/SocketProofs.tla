----------------------------- MODULE SocketProofs -----------------------------
(***************************************************************************)
(* The table of sockets, for every size of the table, set of descriptors   *)
(* and behaviour of the peers: type correctness, agreement of the table    *)
(* with the kernel, and the emulator never killed by SIGPIPE.              *)
(***************************************************************************)
EXTENDS SocketTable, WellFoundedInduction, TLAPS

(* Numbers that answers are made of. *)
LEMMA Bytes ==
  /\ \A n \in Int : n % ByteBase \in 0..ByteBase-1
  /\ \A n \in 0..ByteBase-1 : n % ByteBase = n
  /\ Slot \subseteq Nat /\ 0 \in Slot
  /\ Minus1 \in 0..ByteBase-1 /\ Minus1 \in Int /\ 0 \in 0..ByteBase-1
BY TableAssumption DEF Slot, Minus1

(* The scan of TCP_Connect finds a slot when there is one. *)
LEMMA FirstFreeIsFree ==
  ASSUME FreeSlots # {}
  PROVE  FirstFree \in Slot /\ FirstFree >= FirstSlot /\ realfd[FirstFree] = Free
<1> DEFINE R == {ss \in Nat \X Nat : ss[1] < ss[2]}
<1>1. FreeSlots \subseteq Nat
  BY Bytes DEF FreeSlots
<1>0. IsWellFoundedOn(R, Nat)
  BY NatLessThanWellFounded, Zenon DEF OpToRel
<1>2. \E s \in FreeSlots : \A t \in FreeSlots : ~ (<<t, s>> \in R)
  <2> HIDE DEF R
  <2> QED  BY <1>1, <1>0, WFMin, Zenon
<1>3. \A s, t \in Nat : ~ (<<t, s>> \in R) => s <= t
  OBVIOUS
<1>4. \E s \in FreeSlots : \A t \in FreeSlots : s <= t
  BY <1>1, <1>2, <1>3
<1>5. FirstFree \in FreeSlots
  BY <1>4 DEF FirstFree
<1> QED
  BY <1>5 DEF FreeSlots

-----------------------------------------------------------------------------
(* The Reply a command leaves is one of those TypeOK names. *)
LEMMA Answers ==
  ASSUME NEW op \in {"none", "connect", "close", "send", "recv"}, NEW s \in Slot,
         NEW n \in 0..ByteBase-1, NEW f \in BOOLEAN, NEW r \in Int,
         NEW e \in Errors \cup {"0", "unwritten"}, Answer(op, s, n, f, r, e)
  PROVE  reply' \in Reply
BY Bytes DEF Answer, Reply

(* What the closing of a descriptor of the table leaves. *)
LEMMA CloseKernelType ==
  ASSUME TypeOK, NEW s \in Slot, realfd[s] # Free, CloseKernel(s)
  PROVE  /\ open' \subseteq Descriptors /\ link' \in [Descriptors -> LinkState]
         /\ unread' \in [Descriptors -> 0..MaxUnread]
         /\ space' \in [Descriptors -> 0..MaxSpace]
BY TableAssumption DEF TypeOK, CloseKernel, LinkState

LEMMA InitType == Init => TypeOK
BY TableAssumption, Bytes DEF Init, TypeOK, Reply, LinkState, Slot

LEMMA ConnectType ==
  ASSUME TypeOK, Connect
  PROVE  TypeOK'
<1>1. PICK f \in Descriptors : ConnectFails(f) \/ ConnectSucceeds(f) \/ ConnectFindsTableFull(f)
  BY DEF Connect
<1>2. CASE ConnectFails(f)
  <2>1. reply' \in Reply
    BY <1>2, Bytes, Answers DEF ConnectFails
  <2> QED
    BY <1>2, <2>1 DEF ConnectFails, TypeOK, table, LinkState
<1>3. Establish(f) => /\ open' \subseteq Descriptors /\ link' \in [Descriptors -> LinkState]
                      /\ unread' \in [Descriptors -> 0..MaxUnread]
                      /\ space' \in [Descriptors -> 0..MaxSpace]
  BY TableAssumption DEF Establish, TypeOK, LinkState
<1>4. CASE ConnectSucceeds(f)
  <2>1. FirstFree \in Slot
    BY <1>4, FirstFreeIsFree DEF ConnectSucceeds
  <2>2. FirstFree \in Int
    BY <2>1, Bytes
  <2>3. Answer("connect", 0, 0, FALSE, FirstFree, "unwritten")
    BY <1>4 DEF ConnectSucceeds
  <2>4. reply' \in Reply
    BY <2>2, <2>3, Bytes, Answers
  <2> QED
    BY <1>3, <1>4, <2>1, <2>4 DEF ConnectSucceeds, TypeOK
<1>5. CASE ConnectFindsTableFull(f)
  <2>1. reply' \in Reply
    BY <1>5, Bytes, Answers DEF ConnectFindsTableFull
  <2> QED
    BY <1>3, <1>5, <2>1 DEF ConnectFindsTableFull, TypeOK, table
<1> QED
  BY <1>1, <1>2, <1>4, <1>5

LEMMA CloseType ==
  ASSUME TypeOK, NEW s \in Slot, Close(s) \/ CloseFree(s)
  PROVE  TypeOK'
<1>1. reply' \in Reply
  <2>1. CASE Close(s)
    <3>1. Answer("close", s, 0, FALSE, 0, "unwritten")
      BY <2>1 DEF Close
    <3> QED
      BY <3>1, Bytes, Answers DEF Answer, Reply
  <2>2. CASE CloseFree(s)
    <3>1. Answer("close", s, 0, TRUE, Minus1, "unwritten")
      BY <2>2 DEF CloseFree
    <3> QED
      BY <3>1, Bytes, Answers
  <2> QED
    BY <2>1, <2>2
<1>2. CASE Close(s)
  <2>1. /\ open' \subseteq Descriptors /\ link' \in [Descriptors -> LinkState]
        /\ unread' \in [Descriptors -> 0..MaxUnread]
        /\ space' \in [Descriptors -> 0..MaxSpace]
    BY <1>2, CloseKernelType DEF Close
  <2> QED
    BY <1>1, <1>2, <2>1 DEF Close, TypeOK
<1>3. CASE CloseFree(s)
  BY <1>1, <1>3 DEF CloseFree, TypeOK, table, kernel
<1> QED
  BY <1>2, <1>3

LEMMA TransferType ==
  ASSUME TypeOK, Transfer
  PROVE  TypeOK'
<1>1. PICK s \in Slot, n \in Lengths :
        \/ BadHandle("send", s, n) \/ BadHandle("recv", s, n)
        \/ Send(s, n) \/ SendFails(s, n)
        \/ Receive(s, n) \/ ReceiveFails(s, n)
  BY DEF Transfer
<1>2. n \in 0..ByteBase-1 /\ n \in Nat /\ Minus1 \in Int
  BY TableAssumption, Bytes
<1>3. CASE BadHandle("send", s, n) \/ BadHandle("recv", s, n)
  <2>1. reply' \in Reply
    BY <1>2, <1>3, Answers DEF BadHandle, Errors
  <2> QED
    BY <1>3, <2>1 DEF BadHandle, TypeOK, table, kernel
<1>4. CASE Send(s, n)
  <2>1. PICK k \in 0..n : /\ k <= space[realfd[s]]
                          /\ space' = [space EXCEPT ![realfd[s]] = @ - k]
                          /\ Answer("send", s, n, FALSE, k, "0")
    BY <1>4 DEF Send
  <2>2. reply' \in Reply
    <3>1. k \in Int
      BY <1>2
    <3> QED
      BY <1>2, <2>1, <3>1, Answers
  <2>3. space' \in [Descriptors -> 0..MaxSpace]
    BY <1>2, <1>4, <2>1, TableAssumption DEF Send, TypeOK
  <2> QED
    BY <1>4, <2>2, <2>3 DEF Send, TypeOK, table
<1>5. CASE SendFails(s, n)
  <2>1. reply' \in Reply
    BY <1>2, <1>5, Answers DEF SendFails, Errors, TypeOK
  <2> QED
    BY <1>5, <2>1 DEF SendFails, TypeOK, table, kernel
<1>6. CASE Receive(s, n)
  <2>1. PICK k \in 0..n : /\ k <= unread[realfd[s]]
                          /\ unread' = [unread EXCEPT ![realfd[s]] = @ - k]
                          /\ Answer("recv", s, n, FALSE, k, "0")
    BY <1>6 DEF Receive
  <2>2. reply' \in Reply
    <3>1. k \in Int
      BY <1>2
    <3> QED
      BY <1>2, <2>1, <3>1, Answers
  <2>3. unread' \in [Descriptors -> 0..MaxUnread]
    BY <1>2, <1>6, <2>1, TableAssumption DEF Receive, TypeOK
  <2> QED
    BY <1>6, <2>2, <2>3 DEF Receive, TypeOK, table
<1>7. CASE ReceiveFails(s, n)
  <2>1. PICK e \in ReceiveErrors(realfd[s], n) : Answer("recv", s, n, TRUE, Minus1, e)
    BY <1>7 DEF ReceiveFails
  <2>2. e \in Errors
    BY <2>1 DEF ReceiveErrors, Errors
  <2>3. reply' \in Reply
    BY <1>2, <2>1, <2>2, Answers
  <2> QED
    BY <1>7, <2>3 DEF ReceiveFails, TypeOK, table, kernel
<1> QED
  BY <1>1, <1>3, <1>4, <1>5, <1>6, <1>7

LEMMA PeerType ==
  ASSUME TypeOK, Peer
  PROVE  TypeOK'
BY TableAssumption
DEF Peer, PeerSends, PeerShuts, PeerResets, PeerTakes, Connected, TypeOK, table, LinkState

LEMMA NextType ==
  ASSUME TypeOK, [Next]_vars
  PROVE  TypeOK'
<1>1. CASE SocketFails \/ UnknownInstruction
  BY <1>1 DEF SocketFails, UnknownInstruction, TypeOK, table, kernel
<1>2. CASE UNCHANGED vars
  BY <1>2 DEF vars, TypeOK, table, kernel
<1> QED
  BY <1>1, <1>2, ConnectType, CloseType, TransferType, PeerType DEF Next

(* Every variable keeps its type. *)
THEOREM TypeCorrect == Spec => []TypeOK
BY InitType, NextType, PTL DEF Spec

-----------------------------------------------------------------------------
(* The slots agree with the kernel only together with the types, and no    *)
(* signal kills only because a slot in use means that a TCP_Connect has    *)
(* ignored SIGPIPE.                                                        *)
SocketInv ==
  /\ TypeOK
  /\ TableMatchesKernel
  /\ NeverKilled
  /\ \A s \in Slot : realfd[s] # Free => sigpipe = "ignored"

LEMMA InitInv == Init => SocketInv
BY InitType DEF Init, SocketInv, TableMatchesKernel, NeverKilled

LEMMA ConnectInv ==
  ASSUME SocketInv, Connect
  PROVE  SocketInv'
<1>1. PICK f \in Descriptors : ConnectFails(f) \/ ConnectSucceeds(f) \/ ConnectFindsTableFull(f)
  BY DEF Connect
<1>2. TypeOK /\ TypeOK' /\ f \notin open
  BY <1>1, ConnectType DEF SocketInv, ConnectFails, ConnectSucceeds, ConnectFindsTableFull, Establish
<1>3. CASE ConnectFails(f) \/ ConnectFindsTableFull(f)
  <2>1. /\ UNCHANGED <<status, table, sigpipe>> /\ open' = open \cup {f}
        /\ \A g \in open : link'[g] = link[g]
    BY <1>2, <1>3 DEF ConnectFails, ConnectFindsTableFull, Establish, TypeOK
  <2>2. TableMatchesKernel'
    BY <2>1 DEF SocketInv, TableMatchesKernel, table
  <2> QED
    BY <1>2, <2>1, <2>2 DEF SocketInv, NeverKilled, table
<1>4. CASE ConnectSucceeds(f)
  <2>1. FirstFree \in Slot /\ FirstFree >= FirstSlot /\ realfd[FirstFree] = Free
    BY <1>4, FirstFreeIsFree DEF ConnectSucceeds
  <2>2. /\ realfd' = [realfd EXCEPT ![FirstFree] = f]
        /\ mappedfd' = [mappedfd EXCEPT ![FirstFree] = FirstFree]
        /\ open' = open \cup {f} /\ link' = [link EXCEPT ![f] = "up"]
        /\ sigpipe' = "ignored" /\ status' = status
    BY <1>4 DEF ConnectSucceeds, Establish
  <2>3. TableMatchesKernel'
    BY <1>2, <2>1, <2>2 DEF SocketInv, TypeOK, TableMatchesKernel
  <2> QED
    BY <1>2, <2>2, <2>3 DEF SocketInv, NeverKilled
<1> QED
  BY <1>1, <1>3, <1>4

LEMMA CloseInv ==
  ASSUME SocketInv, NEW s \in Slot, Close(s) \/ CloseFree(s)
  PROVE  SocketInv'
<1>1. TypeOK /\ TypeOK'
  BY CloseType DEF SocketInv
<1>2. CASE Close(s)
  <2>1. /\ realfd[s] # Free /\ realfd' = [realfd EXCEPT ![s] = Free]
        /\ mappedfd' = [mappedfd EXCEPT ![s] = Free]
        /\ open' = open \ {realfd[s]} /\ link' = [link EXCEPT ![realfd[s]] = "none"]
        /\ sigpipe' = sigpipe /\ status' = status
    BY <1>2 DEF Close, CloseKernel
  <2>2. TableMatchesKernel'
    BY <1>1, <2>1 DEF SocketInv, TypeOK, TableMatchesKernel
  <2> QED
    BY <1>1, <2>1, <2>2 DEF SocketInv, TypeOK, NeverKilled
<1>3. CASE CloseFree(s)
  BY <1>1, <1>3 DEF CloseFree, SocketInv, TableMatchesKernel, NeverKilled, table, kernel
<1> QED
  BY <1>2, <1>3

LEMMA TransferInv ==
  ASSUME SocketInv, Transfer
  PROVE  SocketInv'
<1>1. TypeOK'
  BY TransferType DEF SocketInv
<1>2. UNCHANGED <<table, sigpipe, open, link>>
  BY DEF Transfer, BadHandle, Send, SendFails, Receive, ReceiveFails, kernel
<1>3. status' # "killed"
  <2>1. PICK s \in Slot, n \in Lengths :
          \/ BadHandle("send", s, n) \/ BadHandle("recv", s, n)
          \/ Send(s, n) \/ SendFails(s, n)
          \/ Receive(s, n) \/ ReceiveFails(s, n)
    BY DEF Transfer
  <2>2. status # "killed"
    BY DEF SocketInv, NeverKilled
  <2>3. CASE SendFails(s, n)
    <3>1. sigpipe = "ignored"
      BY <2>3 DEF SendFails, SocketInv
    <3> QED
      BY <2>2, <2>3, <3>1 DEF SendFails
  <2> QED
    BY <2>1, <2>2, <2>3 DEF BadHandle, Send, Receive, ReceiveFails
<1> QED
  BY <1>1, <1>2, <1>3 DEF SocketInv, TableMatchesKernel, NeverKilled, table

LEMMA PeerInv ==
  ASSUME SocketInv, Peer
  PROVE  SocketInv'
<1>1. TypeOK /\ TypeOK'
  BY PeerType DEF SocketInv
<1>2. UNCHANGED <<table, sigpipe, open, status>>
  BY DEF Peer, PeerSends, PeerShuts, PeerResets, PeerTakes
<1>3. \A f \in Descriptors : link[f] # "none" => link'[f] # "none"
  BY <1>1 DEF Peer, PeerSends, PeerShuts, PeerResets, PeerTakes, TypeOK
<1> QED
  BY <1>1, <1>2, <1>3 DEF SocketInv, TypeOK, TableMatchesKernel, NeverKilled, table

LEMMA NextInv ==
  ASSUME SocketInv, [Next]_vars
  PROVE  SocketInv'
<1>1. CASE SocketFails \/ UnknownInstruction
  BY <1>1, NextType
  DEF SocketFails, UnknownInstruction, SocketInv, TableMatchesKernel, NeverKilled, Next, table, kernel
<1>2. CASE UNCHANGED vars
  BY <1>2, NextType DEF vars, SocketInv, TableMatchesKernel, NeverKilled, table, kernel
<1> QED
  BY <1>1, <1>2, ConnectInv, CloseInv, TransferInv, PeerInv DEF Next

THEOREM SocketInvariant == Spec => []SocketInv
BY InitInv, NextInv, PTL DEF Spec

(* Slots, handles and open descriptors agree, and no two slots share a     *)
(* descriptor, whatever is connected, closed, refused or reset.            *)
THEOREM TableAgrees == Spec => []TableMatchesKernel
<1>1. SocketInv => TableMatchesKernel
  BY DEF SocketInv
<1> QED
  BY <1>1, SocketInvariant, PTL

(* The emulator is never killed by SIGPIPE. *)
THEOREM NoSignalKills == Spec => []NeverKilled
<1>1. SocketInv => NeverKilled
  BY DEF SocketInv
<1> QED
  BY <1>1, SocketInvariant, PTL
-----------------------------------------------------------------------------
(* What the guest learns from an answer stays true while it reads it: a    *)
(* count of 0 from RECV is about a slot that is still in use, and the peer *)
(* of a connection that has finished never begins again.                   *)
AnswerStands ==
  reply.op = "recv" /\ ~reply.failed => realfd[reply.slot] # Free

ReplyInv == TypeOK /\ ReplyTellsOutcome /\ AnswerStands

(* The fields of an answer, the result of which is no larger than a byte.  *)
LEMMA AnswerFields ==
  ASSUME NEW op, NEW s, NEW n, NEW f, NEW r \in 0..ByteBase-1, NEW e, Answer(op, s, n, f, r, e)
  PROVE  /\ reply'.op = op /\ reply'.slot = s /\ reply'.len = n
         /\ reply'.failed = f /\ reply'.a = r /\ reply'.error = e
BY Bytes DEF Answer

LEMMA OtherAnswer ==
  ASSUME reply'.op \notin {"send", "recv"}
  PROVE  ReplyTellsOutcome' /\ AnswerStands'
BY DEF ReplyTellsOutcome, AnswerStands

(* A failure that is answered with its number, and nothing else changed.   *)
LEMMA FailureAnswer ==
  ASSUME NEW op, NEW s, NEW n, NEW e \in Errors, Answer(op, s, n, TRUE, Minus1, e)
  PROVE  ReplyTellsOutcome' /\ AnswerStands'
<1>1. reply'.failed = TRUE /\ reply'.a = Minus1 /\ reply'.error = e
  BY Bytes, AnswerFields
<1>2. e # "0"
  BY DEF Errors
<1> QED
  BY <1>1, <1>2 DEF ReplyTellsOutcome, AnswerStands

LEMMA TransferReply ==
  ASSUME ReplyInv, Transfer
  PROVE  ReplyTellsOutcome' /\ AnswerStands'
<1>1. PICK s \in Slot, n \in Lengths :
        \/ BadHandle("send", s, n) \/ BadHandle("recv", s, n)
        \/ Send(s, n) \/ SendFails(s, n)
        \/ Receive(s, n) \/ ReceiveFails(s, n)
  BY DEF Transfer
<1>2. n \in 0..ByteBase-1
  BY TableAssumption
<1>3. CASE BadHandle("send", s, n) \/ BadHandle("recv", s, n)
  BY <1>3, FailureAnswer DEF BadHandle, Errors
<1>4. CASE Send(s, n)
  <2>1. PICK k \in 0..n : Answer("send", s, n, FALSE, k, "0")
    BY <1>4 DEF Send
  <2>2. k \in 0..ByteBase-1
    BY <1>2, TableAssumption
  <2>3. reply'.op = "send" /\ reply'.failed = FALSE /\ reply'.error = "0"
    BY <2>1, <2>2, AnswerFields
  <2> QED
    BY <2>3 DEF ReplyTellsOutcome, AnswerStands
<1>5. CASE SendFails(s, n)
  <2>1. UNCHANGED <<realfd, link>>
    BY <1>5 DEF SendFails, table, kernel
  <2>2. CASE UNCHANGED reply
    BY <2>1, <2>2 DEF ReplyInv, ReplyTellsOutcome, AnswerStands
  <2>3. CASE Answer("send", s, n, TRUE, Minus1, "EPIPE")
    BY <2>3, FailureAnswer DEF Errors
  <2> QED
    BY <1>5, <2>2, <2>3 DEF SendFails
<1>6. CASE Receive(s, n)
  <2>1. PICK k \in 0..n :
          /\ k = 0 => \/ n = 0
                      \/ unread[realfd[s]] = 0 /\ link[realfd[s]] \in {"shut", "reset"}
          /\ Answer("recv", s, n, FALSE, k, "0")
    BY <1>6 DEF Receive
  <2>2. k \in 0..ByteBase-1
    BY <1>2, TableAssumption
  <2>3. /\ reply'.op = "recv" /\ reply'.slot = s /\ reply'.len = n
        /\ reply'.failed = FALSE /\ reply'.a = k /\ reply'.error = "0"
    BY <2>1, <2>2, AnswerFields
  <2>4. /\ link' = link /\ realfd' = realfd /\ realfd[s] # Free
    BY <1>6 DEF Receive, table
  <2>5. k = 0 /\ n > 0 => link[realfd[s]] \in {"shut", "reset"}
    BY <1>2, <2>1
  <2> QED
    BY <2>3, <2>4, <2>5 DEF ReplyTellsOutcome, AnswerStands
<1>7. CASE ReceiveFails(s, n)
  <2>1. PICK e \in ReceiveErrors(realfd[s], n) : Answer("recv", s, n, TRUE, Minus1, e)
    BY <1>7 DEF ReceiveFails
  <2>2. e \in Errors
    BY <2>1 DEF ReceiveErrors, Errors
  <2> QED
    BY <2>1, <2>2, FailureAnswer
<1> QED
  BY <1>1, <1>3, <1>4, <1>5, <1>6, <1>7

LEMMA NextReply ==
  ASSUME ReplyInv, [Next]_vars
  PROVE  ReplyInv'
<1>1. TypeOK'
  BY NextType DEF ReplyInv
<1>2. CASE UNCHANGED <<realfd, link, reply>>
  BY <1>1, <1>2 DEF ReplyInv, ReplyTellsOutcome, AnswerStands
<1>3. CASE SocketFails \/ UnknownInstruction \/ UNCHANGED vars
  BY <1>2, <1>3 DEF SocketFails, UnknownInstruction, vars, table, kernel
<1>4. CASE Connect
  <2>1. reply'.op = "connect"
    BY <1>4 DEF Connect, ConnectFails, ConnectSucceeds, ConnectFindsTableFull, Answer
  <2> QED
    BY <1>1, <2>1, OtherAnswer DEF ReplyInv
<1>5. CASE \E s \in Slot : Close(s) \/ CloseFree(s)
  <2>1. reply'.op = "close"
    BY <1>5 DEF Close, CloseFree, Answer
  <2> QED
    BY <1>1, <2>1, OtherAnswer DEF ReplyInv
<1>6. CASE Transfer
  BY <1>1, <1>6, TransferReply DEF ReplyInv
<1>7. CASE Peer
  <2>1. UNCHANGED <<realfd, reply>>
    BY <1>7 DEF Peer, PeerSends, PeerShuts, PeerResets, PeerTakes, table
  <2>2. \A f \in Descriptors : link[f] \in {"shut", "reset"} => link'[f] \in {"shut", "reset"}
    BY <1>7
    DEF Peer, PeerSends, PeerShuts, PeerResets, PeerTakes, Connected, ReplyInv, TypeOK
  <2>3. realfd[reply.slot] # Free => realfd[reply.slot] \in Descriptors
    BY DEF ReplyInv, TypeOK, Reply
  <2> QED
    BY <1>1, <2>1, <2>2, <2>3 DEF ReplyInv, ReplyTellsOutcome, AnswerStands
<1> QED
  BY <1>3, <1>4, <1>5, <1>6, <1>7 DEF Next

(* The error byte of SEND and RECV tells failures from counts, and a count *)
(* of 0 for bytes asked for means that the peer has finished, at every     *)
(* moment until the next command.                                          *)
THEOREM OutcomeTold == Spec => []ReplyTellsOutcome
<1>1. Init => ReplyInv
  BY InitType DEF Init, ReplyInv, ReplyTellsOutcome, AnswerStands
<1>2. ReplyInv /\ [Next]_vars => ReplyInv'
  BY NextReply
<1>3. ReplyInv => ReplyTellsOutcome
  BY DEF ReplyInv
<1> QED
  BY <1>1, <1>2, <1>3, PTL DEF Spec

-----------------------------------------------------------------------------
(* What a step does to the connection of the slot s.                       *)
Keeps(s) ==
  \/ reply'.op = "close" /\ reply'.slot = s /\ realfd'[s] = Free
  \/ /\ realfd'[s] = realfd[s] /\ realfd[s] \in open'
     /\ \/ unread'[realfd[s]] >= unread[realfd[s]]
        \/ link'[realfd[s]] = "reset"
        \/ /\ reply'.slot = s /\ ~reply'.failed
           /\ unread[realfd[s]] - unread'[realfd[s]] = reply'.a

LEMMA StepKeeps ==
  ASSUME SocketInv, [Next]_vars, NEW s \in Slot, realfd[s] # Free
  PROVE  Keeps(s)
<1>1. /\ TypeOK /\ TableMatchesKernel /\ realfd[s] \in Descriptors /\ realfd[s] \in open
      /\ unread[realfd[s]] \in Nat
  BY TableAssumption DEF SocketInv, TypeOK, TableMatchesKernel
<1>2. ASSUME realfd'[s] = realfd[s], realfd[s] \in open', unread'[realfd[s]] = unread[realfd[s]]
      PROVE  Keeps(s)
  BY <1>1, <1>2 DEF Keeps
<1>3. CASE SocketFails \/ UnknownInstruction \/ UNCHANGED vars
  BY <1>1, <1>2, <1>3 DEF SocketFails, UnknownInstruction, vars, table, kernel
<1>4. CASE Connect
  <2>1. PICK f \in Descriptors : ConnectFails(f) \/ ConnectSucceeds(f) \/ ConnectFindsTableFull(f)
    BY <1>4 DEF Connect
  <2>2. f # realfd[s]
    BY <1>1, <2>1 DEF ConnectFails, ConnectSucceeds, ConnectFindsTableFull, Establish
  <2>3. realfd[s] \in open' /\ unread'[realfd[s]] = unread[realfd[s]]
    BY <1>1, <2>1, <2>2
    DEF ConnectFails, ConnectSucceeds, ConnectFindsTableFull, Establish, TypeOK
  <2>4. realfd'[s] = realfd[s]
    <3>1. CASE ConnectSucceeds(f)
      BY <1>1, <3>1, FirstFreeIsFree DEF ConnectSucceeds, TypeOK
    <3> QED
      BY <2>1, <3>1 DEF ConnectFails, ConnectFindsTableFull, table
  <2> QED
    BY <1>2, <2>3, <2>4
<1>5. CASE \E t \in Slot : Close(t) \/ CloseFree(t)
  <2>1. PICK t \in Slot : Close(t) \/ CloseFree(t)
    BY <1>5
  <2>2. CASE CloseFree(t)
    BY <1>1, <1>2, <2>2 DEF CloseFree, table, kernel
  <2>3. CASE Close(t) /\ t = s
    BY <1>1, <2>3, Bytes, AnswerFields DEF Close, Keeps, TypeOK
  <2>4. CASE Close(t) /\ t # s
    <3>1. realfd[t] # realfd[s]
      BY <1>1, <2>4 DEF TableMatchesKernel
    <3>2. /\ realfd'[s] = realfd[s] /\ realfd[s] \in open'
          /\ unread'[realfd[s]] = unread[realfd[s]]
      BY <1>1, <2>4, <3>1 DEF Close, CloseKernel, TypeOK
    <3> QED
      BY <1>2, <3>2
  <2> QED
    BY <2>1, <2>2, <2>3, <2>4
<1>6. CASE Transfer
  <2>1. UNCHANGED <<realfd, open>>
    BY <1>6 DEF Transfer, BadHandle, Send, SendFails, Receive, ReceiveFails, table, kernel
  <2>2. CASE UNCHANGED unread
    BY <1>1, <1>2, <2>1, <2>2
  <2>3. ASSUME NEW t \in Slot, NEW n \in Lengths, Receive(t, n)
        PROVE  Keeps(s)
    <3>1. PICK k \in 0..n : /\ unread' = [unread EXCEPT ![realfd[t]] = @ - k]
                            /\ Answer("recv", t, n, FALSE, k, "0")
      BY <2>3 DEF Receive
    <3>2. k \in 0..ByteBase-1 /\ k \in Nat
      BY TableAssumption
    <3>3. reply'.slot = t /\ reply'.failed = FALSE /\ reply'.a = k
      BY <3>1, <3>2, AnswerFields
    <3>4. CASE t = s
      <4>1. unread'[realfd[s]] = unread[realfd[s]] - k
        BY <1>1, <3>1, <3>4 DEF TypeOK
      <4>2. unread[realfd[s]] - unread'[realfd[s]] = k
        BY <1>1, <3>2, <4>1
      <4> QED
        BY <1>1, <2>1, <3>3, <3>4, <4>2 DEF Keeps
    <3>5. CASE t # s
      <4>1. realfd[t] # realfd[s]
        BY <1>1, <3>5 DEF TableMatchesKernel
      <4>2. unread'[realfd[s]] = unread[realfd[s]]
        BY <1>1, <3>1, <4>1 DEF TypeOK
      <4> QED
        BY <1>1, <1>2, <2>1, <4>2
    <3> QED
      BY <3>4, <3>5
  <2> QED
    BY <1>6, <2>2, <2>3 DEF Transfer, BadHandle, Send, SendFails, ReceiveFails, kernel
<1>7. CASE Peer
  <2>1. UNCHANGED <<realfd, open>>
    BY <1>7 DEF Peer, PeerSends, PeerShuts, PeerResets, PeerTakes, table
  <2>2. unread'[realfd[s]] >= unread[realfd[s]] \/ link'[realfd[s]] = "reset"
    BY <1>1, <1>7 DEF Peer, PeerSends, PeerShuts, PeerResets, PeerTakes, TypeOK
  <2> QED
    BY <1>1, <2>1, <2>2 DEF Keeps
<1> QED
  BY <1>3, <1>4, <1>5, <1>6, <1>7 DEF Next

(* A handle names one connection from TCP_Connect to TCP_CLOSE: no other   *)
(* command, connection or error takes its descriptor away or drops bytes   *)
(* of it that were not read.                                               *)
THEOREM ConnectionKept == Spec => HandleKeepsConnection
<1>1. SocketInv /\ [Next]_vars => [\A s \in Slot : realfd[s] # Free => Keeps(s)]_vars
  BY StepKeeps
<1> QED
  BY <1>1, SocketInvariant, PTL DEF Spec, HandleKeepsConnection, Keeps
=============================================================================
