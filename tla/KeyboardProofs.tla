---------------------------- MODULE KeyboardProofs ----------------------------
(***************************************************************************)
(* The console input, for every size of the buffer, keyboard, place of the *)
(* byte behind the buffer and sequence of events: type correctness, and    *)
(* the first key of a burst read as it was typed.                          *)
(***************************************************************************)
EXTENDS Keyboard, SequenceTheorems, TLAPS

(* FirstKeyIntact needs that the oldest key counts as alone only while it  *)
(* is in the buffer, that the buffer is no longer than it is before the    *)
(* overrun, and that nothing is typed ahead while CONIN waits, overrun or  *)
(* not.                                                                    *)
KeyboardInv ==
  /\ TypeOK
  /\ FirstKeyIntact
  /\ ~overrun => kbip <= KB_BUFSIZE /\ (alone => kbip > 0)
  /\ conin => kbip = 0

LEMMA InitInv == Init => KeyboardInv
<1> SUFFICES ASSUME Init PROVE KeyboardInv
  OBVIOUS
<1>1. TypeOK
  <2>1. events \in Seq(Event) /\ typed \in Seq(Char)
    BY DEF Init
  <2>2. NUL \in Char
    BY DEF Char
  <2>3. keybuf \in [0..KB_BUFSIZE-1 -> Char] /\ regA \in Char
    BY <2>2 DEF Init
  <2>4. /\ shift_engaged \in BOOLEAN /\ ctrl_engaged \in BOOLEAN
        /\ conin \in BOOLEAN /\ alone \in BOOLEAN /\ overrun \in BOOLEAN
    BY Zenon DEF Init
  <2> QED
    BY <2>1, <2>3, <2>4, BufferAssumption DEF Init, TypeOK
<1>2. FirstKeyIntact
  BY BufferAssumption DEF Init, FirstKeyIntact
<1> QED
  BY <1>1, <1>2, BufferAssumption DEF Init, KeyboardInv

-----------------------------------------------------------------------------
(* The events that are taken off the queue leave a queue of events.        *)
LEMMA Dropping ==
  ASSUME events \in Seq(Event), NEW i \in DOMAIN events, DropTo(i)
  PROVE  events' \in Seq(Event)
<1>1. i \in 1..Len(events) /\ Len(events) \in Nat
  BY LenProperties
<1>2. \A j \in i+1..Len(events) : events[j] \in Event
  BY <1>1, ElementOfSeq
<1> QED
  BY <1>1, <1>2, SubSeqProperties DEF DropTo

(* A key that types, types a character. *)
LEMMA CharTyped ==
  ASSUME TypeOK, NEW key, Types(key), key \in Keys
  PROVE  CharOf(key) \in Char
BY DEF TypeOK, Types, CharOf, Layout, Char, NUL, GS, Keys

(* The cases of tty_processinput that buffer nothing.                      *)
LEMMA Return0Inv ==
  ASSUME KeyboardInv, Return0, UNCHANGED <<budget, conin, regA, neighbour>>
  PROVE  KeyboardInv'
<1>1. /\ UNCHANGED <<status, buffer, history>>
      /\ events' \in Seq(Event)
      /\ shift_engaged' \in BOOLEAN /\ ctrl_engaged' \in BOOLEAN
  <2>1. CASE NoInput
    BY <2>1 DEF NoInput, modifiers, KeyboardInv, TypeOK
  <2>2. CASE Modifier
    BY <2>2, Dropping DEF Modifier, KeyboardInv, TypeOK
  <2>3. CASE IgnoredKey
    BY <2>3, Dropping DEF IgnoredKey, modifiers, KeyboardInv, TypeOK
  <2> QED
    BY <2>1, <2>2, <2>3 DEF Return0
<1>2. TypeOK'
  BY <1>1 DEF KeyboardInv, TypeOK, buffer, history
<1> QED
  BY <1>1, <1>2 DEF KeyboardInv, FirstKeyIntact, buffer, history

LEMMA StopsInv ==
  ASSUME KeyboardInv, Stops, UNCHANGED <<budget, conin, regA, neighbour>>
  PROVE  KeyboardInv'
<1>1. /\ UNCHANGED <<modifiers, buffer, history>>
      /\ events' \in Seq(Event)
      /\ status' \in {"running", "exited", "aborted"}
  BY Dropping DEF Stops, EscapeReleased, Overflow, TypedKey, KeyboardInv, TypeOK
<1>2. TypeOK'
  BY <1>1 DEF KeyboardInv, TypeOK, modifiers, buffer, history
<1> QED
  BY <1>1, <1>2 DEF KeyboardInv, FirstKeyIntact, buffer, history

(* The key of an event is a key. *)
LEMMA KeyOfEvent ==
  ASSUME KeyboardInv, NEW i \in DOMAIN events, TypedKey(i)
  PROVE  /\ events[i].key \in Keys
         /\ CharOf(events[i].key) \in Char
         /\ events' \in Seq(Event)
<1>1. events \in Seq(Event) /\ TypeOK
  BY DEF KeyboardInv, TypeOK
<1>2. events[i] \in Event
  BY <1>1, ElementOfSeq, LenProperties
<1>3. events[i].key \in Keys
  BY <1>2 DEF TypedKey, Event
<1>4. events' \in Seq(Event)
  BY <1>1, Dropping DEF TypedKey
<1> QED
  BY <1>1, <1>3, <1>4, CharTyped DEF TypedKey

LEMMA BufferedKeyInv ==
  ASSUME KeyboardInv, BufferedKey, UNCHANGED <<budget, conin, regA, neighbour>>, ~conin
  PROVE  KeyboardInv'
<1>1. PICK i \in DOMAIN events :
        LET c == CharOf(events[i].key) IN
        /\ TypedKey(i) /\ kbip < KB_BUFSIZE
        /\ keybuf' = [keybuf EXCEPT ![kbip] = c]
        /\ kbip' = kbip + 1
        /\ typed' = Append(typed, c)
        /\ alone' = (kbip = 0 \/ alone)
        /\ UNCHANGED <<status, modifiers, overrun>>
  BY DEF BufferedKey
<1> DEFINE c == CharOf(events[i].key)
<1>2. c \in Char /\ events' \in Seq(Event)
  BY <1>1, KeyOfEvent
<1>3. /\ kbip \in 0..KB_BUFSIZE-1 /\ typed \in Seq(Char) /\ KB_BUFSIZE \in Nat
      /\ keybuf \in [0..KB_BUFSIZE-1 -> Char]
  BY <1>1, BufferAssumption DEF KeyboardInv, TypeOK
<1>4. /\ keybuf' = [keybuf EXCEPT ![kbip] = c] /\ kbip' = kbip + 1
      /\ typed' = Append(typed, c) /\ alone' = (kbip = 0 \/ alone)
      /\ overrun' = overrun /\ conin' = conin
  BY <1>1
<1> HIDE DEF c
<1>5. TypeOK'
  <2>1. keybuf' \in [0..KB_BUFSIZE-1 -> Char] /\ kbip' \in 0..KB_BUFSIZE+1
    BY <1>2, <1>3, <1>4
  <2>2. typed' \in Seq(Char)
    BY <1>2, <1>3, <1>4
  <2>3. alone' \in BOOLEAN
    BY <1>4
  <2> QED
    BY <1>1, <1>2, <2>1, <2>2, <2>3 DEF KeyboardInv, TypeOK, modifiers
<1>6. ASSUME ~overrun
      PROVE  /\ Len(typed') = kbip'
             /\ alone' => keybuf'[0] = Head(typed')
             /\ \A j \in kbip'..KB_BUFSIZE-1 : keybuf'[j] = NUL
  <2>1. /\ Len(typed) = kbip
        /\ alone => keybuf[0] = Head(typed) /\ kbip > 0
        /\ \A j \in kbip..KB_BUFSIZE-1 : keybuf[j] = NUL
    BY <1>6 DEF KeyboardInv, FirstKeyIntact
  <2>2. /\ Len(typed') = kbip'
        /\ Head(typed') = IF typed = <<>> THEN c ELSE Head(typed)
    BY <1>2, <1>3, <1>4, <2>1, AppendProperties, HeadTailAppend
  <2>3. \A j \in kbip'..KB_BUFSIZE-1 : keybuf'[j] = NUL
    BY <1>3, <1>4, <2>1
  <2>4. CASE kbip = 0
    <3>1. typed = <<>>
      BY <1>3, <2>1, <2>4, EmptySeq
    <3> QED
      BY <1>3, <1>4, <2>2, <2>3, <2>4, <3>1
  <2>5. CASE kbip # 0
    <3>1. typed # <<>>
      BY <2>1, <2>5
    <3>2. alone' = alone
      BY <1>4, <2>5 DEF KeyboardInv, TypeOK
    <3>3. keybuf'[0] = keybuf[0]
      BY <1>3, <1>4, <2>5
    <3> QED
      BY <2>1, <2>2, <2>3, <3>1, <3>2, <3>3
  <2> QED
    BY <2>4, <2>5
<1>7. FirstKeyIntact'
  BY <1>4, <1>6 DEF FirstKeyIntact
<1> QED
  BY <1>3, <1>4, <1>5, <1>7 DEF KeyboardInv

(* Behind the buffer nothing but the types is kept. *)
LEMMA OverrunKeyInv ==
  ASSUME KeyboardInv, OverrunKey, UNCHANGED <<budget, conin, regA, neighbour>>, ~conin
  PROVE  KeyboardInv'
<1>1. PICK i \in DOMAIN events :
        /\ TypedKey(i) /\ kbip >= KB_BUFSIZE /\ HasRoom
        /\ kbip' \in IF neighbour = "kbip" THEN 1..KB_BUFSIZE+1 ELSE {kbip + 1}
        /\ ctrl_engaged' \in IF neighbour = "ctrl_engaged" THEN BOOLEAN ELSE {ctrl_engaged}
        /\ overrun' = TRUE
        /\ typed' = Append(typed, CharOf(events[i].key))
        /\ UNCHANGED <<status, shift_engaged, keybuf, alone>>
  BY DEF OverrunKey
<1>2. CharOf(events[i].key) \in Char /\ events' \in Seq(Event)
  BY <1>1, KeyOfEvent
<1>3. typed' \in Seq(Char)
  BY <1>1, <1>2 DEF KeyboardInv, TypeOK
<1>4. kbip' \in 0..KB_BUFSIZE+1
  BY <1>1, BufferAssumption DEF HasRoom, KeyboardInv, TypeOK
<1>5. ctrl_engaged' \in BOOLEAN /\ overrun' \in BOOLEAN
  BY <1>1, Zenon DEF KeyboardInv, TypeOK
<1>6. TypeOK'
  BY <1>1, <1>2, <1>3, <1>4, <1>5 DEF KeyboardInv, TypeOK
<1> QED
  BY <1>1, <1>6 DEF KeyboardInv, FirstKeyIntact

LEMMA ConstInv ==
  ASSUME KeyboardInv, Const
  PROVE  KeyboardInv'
BY Return0Inv, StopsInv, BufferedKeyInv, OverrunKeyInv DEF Const

(* tty_popkeybuf, with any bytes from behind the array.                    *)
LEMMA ConinReadyInv ==
  ASSUME KeyboardInv, ConinReady
  PROVE  KeyboardInv'
<1>1. /\ kbip \in 1..KB_BUFSIZE+1 /\ KB_BUFSIZE \in Nat \ {0}
      /\ keybuf \in [0..KB_BUFSIZE-1 -> Char] /\ typed \in Seq(Char)
  BY BufferAssumption DEF ConinReady, ConinTakes, KeyboardInv, TypeOK
<1>2. PICK moved \in [0..kbip-2 -> Char] :
        keybuf' = [i \in 0..KB_BUFSIZE-1 |-> IF i < kbip - 1 THEN moved[i]
                                             ELSE IF i = kbip - 1 THEN NUL ELSE keybuf[i]]
  <2>1. kbip - 1 - 1 = kbip - 2
    BY <1>1
  <2> QED
    BY <2>1 DEF ConinReady, Popped
<1>3. /\ regA' = keybuf[0] /\ alone' = FALSE
      /\ typed' = IF typed = <<>> THEN <<>> ELSE Tail(typed)
      /\ UNCHANGED <<status, events, budget, shift_engaged, conin, overrun, neighbour>>
      /\ ~conin
      /\ kbip' = IF kbip - 1 = KB_BUFSIZE /\ neighbour = "kbip" THEN 0 ELSE kbip - 1
      /\ ctrl_engaged' = IF kbip - 1 = KB_BUFSIZE /\ neighbour = "ctrl_engaged" THEN FALSE
                         ELSE ctrl_engaged
  BY DEF ConinReady, ConinTakes, Popped
<1>4. TypeOK'
  <2>1. keybuf' \in [0..KB_BUFSIZE-1 -> Char]
    <3>1. NUL \in Char
      BY DEF Char
    <3> QED
      BY <1>1, <1>2, <3>1
  <2>2. typed' \in Seq(Char)
    BY <1>1, <1>3, HeadTailProperties, EmptySeq
  <2>3. regA' \in Char /\ kbip' \in 0..KB_BUFSIZE+1
    BY <1>1, <1>3
  <2>4. ctrl_engaged' \in BOOLEAN /\ alone' \in BOOLEAN
    BY <1>3 DEF KeyboardInv, TypeOK
  <2> QED
    BY <1>3, <2>1, <2>2, <2>3, <2>4 DEF KeyboardInv, TypeOK
<1>5. ASSUME ~overrun
      PROVE  /\ Len(typed') = kbip' /\ kbip' <= KB_BUFSIZE
             /\ \A j \in kbip'..KB_BUFSIZE-1 : keybuf'[j] = NUL
  <2>1. /\ Len(typed) = kbip /\ kbip <= KB_BUFSIZE
        /\ \A j \in kbip..KB_BUFSIZE-1 : keybuf[j] = NUL
    BY <1>5 DEF KeyboardInv, FirstKeyIntact
  <2>2. kbip' = kbip - 1
    BY <1>1, <1>3, <2>1
  <2>3. Len(typed') = kbip - 1
    <3>1. typed # <<>>
      BY <1>1, <2>1
    <3> QED
      BY <1>1, <1>3, <2>1, <3>1, HeadTailProperties
  <2>4. \A j \in kbip'..KB_BUFSIZE-1 : keybuf'[j] = NUL
    BY <1>1, <1>2, <2>1, <2>2
  <2> QED
    BY <1>1, <2>1, <2>2, <2>3, <2>4
<1> QED
  BY <1>3, <1>4, <1>5 DEF KeyboardInv, FirstKeyIntact

(* A waiting CONIN: the buffer is empty, so what it polls it returns.      *)
LEMMA ConinPollInv ==
  ASSUME KeyboardInv, ConinPoll
  PROVE  KeyboardInv'
<1>1. CASE (Return0 \/ Stops) /\ UNCHANGED <<conin, regA>>
  BY <1>1, Return0Inv, StopsInv DEF ConinPoll
<1>2. ASSUME NEW i \in DOMAIN events,
             TypedKey(i),
             regA' = CharOf(events[i].key),
             keybuf' = [keybuf EXCEPT ![0] = NUL],
             conin' = FALSE,
             UNCHANGED <<status, modifiers, kbip, history>>
      PROVE  KeyboardInv'
  <2>1. /\ regA' \in Char /\ events' \in Seq(Event)
        /\ UNCHANGED <<budget, neighbour>> /\ conin
    BY <1>2, KeyOfEvent DEF ConinPoll
  <2>2. NUL \in Char /\ 0 \in 0..KB_BUFSIZE-1
    BY BufferAssumption DEF Char
  <2>3. keybuf' \in [0..KB_BUFSIZE-1 -> Char]
    BY <1>2, <2>2 DEF KeyboardInv, TypeOK
  <2>4. TypeOK'
    <3>1. conin' \in BOOLEAN
      BY <1>2
    <3> QED
      BY <1>2, <2>1, <2>3, <3>1 DEF KeyboardInv, TypeOK, modifiers, history
  <2>5. ASSUME ~overrun
        PROVE  ~alone /\ \A j \in kbip..KB_BUFSIZE-1 : keybuf'[j] = NUL
    BY <1>2, <2>1, <2>2, <2>5, BufferAssumption DEF KeyboardInv, TypeOK, FirstKeyIntact
  <2> QED
    BY <1>2, <2>1, <2>4, <2>5 DEF KeyboardInv, FirstKeyIntact, history
<1> QED
  BY <1>1, <1>2 DEF ConinPoll

LEMMA UserEventInv ==
  ASSUME KeyboardInv, NEW e \in Event, UserEvent(e)
  PROVE  KeyboardInv'
<1>1. events' \in Seq(Event)
  BY DEF UserEvent, KeyboardInv, TypeOK
<1>2. budget' \in 0..MaxEvents
  BY BufferAssumption DEF UserEvent, KeyboardInv, TypeOK
<1>3. UNCHANGED <<status, modifiers, buffer, conin, regA, history, neighbour>>
  BY DEF UserEvent
<1>4. TypeOK'
  BY <1>1, <1>2, <1>3 DEF KeyboardInv, TypeOK, modifiers, buffer, history
<1> QED
  BY <1>3, <1>4 DEF KeyboardInv, FirstKeyIntact, buffer, history

LEMMA NextInv ==
  ASSUME KeyboardInv, [Next]_vars
  PROVE  KeyboardInv'
<1>1. CASE ConinStart
  <2>1. TypeOK'
    BY <1>1 DEF ConinStart, KeyboardInv, TypeOK, modifiers, buffer, history
  <2> QED
    BY <1>1, <2>1 DEF ConinStart, KeyboardInv, FirstKeyIntact, buffer, history
<1>2. CASE UNCHANGED vars
  <2>1. TypeOK'
    BY <1>2 DEF vars, KeyboardInv, TypeOK, modifiers, buffer, history
  <2> QED
    BY <1>2, <2>1 DEF vars, KeyboardInv, FirstKeyIntact, buffer, history
<1> QED
  BY <1>1, <1>2, UserEventInv, ConstInv, ConinReadyInv, ConinPollInv DEF Next

(* The buffer and the history of what was typed, as they depend on each    *)
(* other.                                                                  *)
THEOREM KeyboardInvariant == Spec => []KeyboardInv
BY InitInv, NextInv, PTL DEF Spec

-----------------------------------------------------------------------------
(* Every variable keeps its type: kbip stays within one of the size of the *)
(* buffer also after an overrun, whatever lies in the byte behind it.      *)
THEOREM TypeCorrect == Spec => []TypeOK
<1>1. KeyboardInv => TypeOK
  BY DEF KeyboardInv
<1> QED
  BY <1>1, KeyboardInvariant, PTL

(* Until the overrun, every key is counted once and the first of a burst   *)
(* is the one CONIN gets.                                                  *)
THEOREM FirstKeyKept == Spec => []FirstKeyIntact
<1>1. KeyboardInv => FirstKeyIntact
  BY DEF KeyboardInv
<1> QED
  BY <1>1, KeyboardInvariant, PTL
=============================================================================
