------------------------------- MODULE Keyboard -------------------------------
(***************************************************************************)
(* The console input path: ttyinput.c between the event queue of SDL and   *)
(* the ports 00 (console status) and 01 (console input) of sysbus.c.       *)
(***************************************************************************)
EXTENDS Integers, Sequences

CONSTANTS
  KB_BUFSIZE,   \* 80
  LowerKeys,    \* keys with a character when SHIFT is up
  UpperKeys,    \* keys with a character when SHIFT is down
  OtherKeys,    \* keys with neither
  PlainKeys,    \* BACKSPACE, SPACE and RETURN: tested before SHIFT and CTRL
  Neighbours,   \* what the build may place in the byte after keybuf
  MaxEvents,    \* bound on the events of a behaviour
  MaxTyped      \* bound on the keys typed ahead

ASSUME BufferAssumption ==
  /\ KB_BUFSIZE \in Nat \ {0} /\ MaxEvents \in Nat /\ MaxTyped \in Nat
  /\ Neighbours \subseteq {"unused", "ctrl_engaged", "kbip"}

NUL == <<"NUL", FALSE>>
GS == <<"GS", FALSE>>          \* what CTRL and ] type
ModifierKeys == {"SHIFT", "CTRL"}
Keys == LowerKeys \cup UpperKeys \cup OtherKeys \cup PlainKeys \cup ModifierKeys
          \cup {"ESCAPE", "RIGHTBRACKET"}
Char == (LowerKeys \X {FALSE}) \cup (UpperKeys \X {TRUE}) \cup (PlainKeys \X {FALSE}) \cup {NUL, GS}
Event == [type : {"down", "up"}, key : Keys] \cup {[type |-> "other", key |-> "none"]}

VARIABLES
  status,         \* "running", "exited" by ESCAPE, or "aborted"
  events,         \* the event queue of SDL
  budget,         \* events still to come
  shift_engaged,
  ctrl_engaged,
  keybuf,
  kbip,           \* characters in the buffer
  conin,          \* is the processor inside port 01, waiting for a key?
  regA,           \* the character port 01 returned last
  typed,          \* history: characters typed and not yet returned, oldest first
  alone,          \* history: was the oldest of them put in an empty buffer?
  neighbour,      \* the object in the byte after keybuf: chosen by the build
  overrun         \* history: has that byte been stored to?

modifiers == <<shift_engaged, ctrl_engaged>>
buffer == <<keybuf, kbip>>
history == <<typed, alone, overrun>>
vars == <<status, events, budget, modifiers, buffer, conin, regA, history, neighbour>>

TypeOK ==
  /\ status \in {"running", "exited", "aborted"}
  /\ events \in Seq(Event)
  /\ budget \in 0..MaxEvents
  /\ shift_engaged \in BOOLEAN /\ ctrl_engaged \in BOOLEAN
  /\ keybuf \in [0..KB_BUFSIZE-1 -> Char]
  /\ kbip \in 0..KB_BUFSIZE+1
  /\ conin \in BOOLEAN
  /\ regA \in Char
  /\ typed \in Seq(Char) /\ alone \in BOOLEAN
  /\ neighbour \in Neighbours /\ overrun \in BOOLEAN

Init ==
  /\ status = "running" /\ events = <<>> /\ budget = MaxEvents
  /\ shift_engaged = FALSE /\ ctrl_engaged = FALSE
  /\ keybuf = [i \in 0..KB_BUFSIZE-1 |-> NUL] /\ kbip = 0
  /\ conin = FALSE /\ regA = NUL
  /\ typed = <<>> /\ alone = FALSE
  /\ neighbour \in Neighbours /\ overrun = FALSE

-----------------------------------------------------------------------------
(* The user, or the window system, adds an event. *)
UserEvent(e) ==
  /\ status = "running" /\ budget > 0 /\ Len(events) + kbip <= MaxTyped
  /\ budget' = budget - 1
  /\ events' = Append(events, e)
  /\ UNCHANGED <<status, modifiers, buffer, conin, regA, history, neighbour>>

(* Events that the loop of tty_processinput takes off the queue unnoticed. *)
Skipped(e) ==
  \/ e.type = "other"
  \/ e.type = "up" /\ e.key \notin ModifierKeys \cup {"ESCAPE"}

(* The event the call handles is the first that is not skipped.            *)
Handled(i) ==
  i \in DOMAIN events /\ ~Skipped(events[i]) /\ \A j \in 1..i-1 : Skipped(events[j])
NothingToHandle == \A i \in DOMAIN events : Skipped(events[i])
DropTo(i) == events' = SubSeq(events, i + 1, Len(events))

(* Faulty: CTRL is looked at before any other key. *)
TypesCtrlFirst(key) == ~ctrl_engaged \/ key = "RIGHTBRACKET"

(* The character that a key which is no modifier types, if it types one.   *)
Types(key) == key \in PlainKeys \/ ~ctrl_engaged \/ key = "RIGHTBRACKET"
Layout == IF shift_engaged THEN UpperKeys ELSE LowerKeys
CharOf(key) ==
  CASE key \in PlainKeys -> <<key, FALSE>>
    [] key \notin PlainKeys /\ ctrl_engaged -> GS
    [] key \in Layout /\ ~ctrl_engaged -> <<key, shift_engaged>>
    [] OTHER -> NUL

(* The cases of tty_processinput. Each says what the call returns.         *)
NoInput ==
  /\ NothingToHandle
  /\ events' = <<>>
  /\ UNCHANGED <<status, modifiers, buffer, history>>

Modifier == \E i \in DOMAIN events :
  LET e == events[i] IN
  /\ Handled(i) /\ e.key \in ModifierKeys
  /\ DropTo(i)
  /\ shift_engaged' = IF e.key = "SHIFT" THEN e.type = "down" ELSE shift_engaged
  /\ ctrl_engaged' = IF e.key = "CTRL" THEN e.type = "down" ELSE ctrl_engaged
  /\ UNCHANGED <<status, buffer, history>>

(* ESCAPE going down, and a key that means nothing with CTRL. *)
IgnoredKey == \E i \in DOMAIN events :
  LET e == events[i] IN
  /\ Handled(i) /\ e.type = "down" /\ e.key \notin ModifierKeys
  /\ e.key = "ESCAPE" \/ ~Types(e.key)
  /\ DropTo(i)
  /\ UNCHANGED <<status, modifiers, buffer, history>>

EscapeReleased == \E i \in DOMAIN events :
  /\ Handled(i) /\ events[i] = [type |-> "up", key |-> "ESCAPE"]
  /\ DropTo(i)
  /\ status' = "exited"
  /\ UNCHANGED <<modifiers, buffer, history>>

TypedKey(i) ==
  /\ Handled(i) /\ events[i].type = "down"
  /\ events[i].key \notin ModifierKeys \cup {"ESCAPE"} /\ Types(events[i].key)
  /\ DropTo(i)

(* Faulty: one more byte past the end. *)
HasMoreRoom == kbip <= KB_BUFSIZE + 1

(* The buffer is found to be full only after the byte past its end.        *)
HasRoom == kbip <= KB_BUFSIZE

BufferedKey == \E i \in DOMAIN events :
  LET c == CharOf(events[i].key) IN
  /\ TypedKey(i) /\ kbip < KB_BUFSIZE
  /\ keybuf' = [keybuf EXCEPT ![kbip] = c]
  /\ kbip' = kbip + 1
  /\ typed' = Append(typed, c)
  /\ alone' = (kbip = 0 \/ alone)
  /\ UNCHANGED <<status, modifiers, overrun>>

(* keybuf[KB_BUFSIZE] = ascii_code, then kbip++: gcc -O0 puts kbip itself  *)
(* there, -O2 puts ctrl_engaged.  A code put in kbip may be any; the ones  *)
(* above KB_BUFSIZE behave as KB_BUFSIZE does.                             *)
OverrunKey == \E i \in DOMAIN events :
  /\ TypedKey(i) /\ kbip >= KB_BUFSIZE /\ HasRoom
  /\ kbip' \in IF neighbour = "kbip" THEN 1..KB_BUFSIZE+1 ELSE {kbip + 1}
  /\ ctrl_engaged' \in IF neighbour = "ctrl_engaged" THEN BOOLEAN ELSE {ctrl_engaged}
  /\ overrun' = TRUE
  /\ typed' = Append(typed, CharOf(events[i].key))
  /\ UNCHANGED <<status, shift_engaged, keybuf, alone>>

Overflow == \E i \in DOMAIN events :
  /\ TypedKey(i) /\ ~HasRoom
  /\ status' = "aborted"
  /\ UNCHANGED <<modifiers, buffer, history>>

-----------------------------------------------------------------------------
Return0 == NoInput \/ Modifier \/ IgnoredKey
Stops == EscapeReleased \/ Overflow

(* Port 00, CONST: polls once, and A tells whether a character is there.   *)
Const ==
  /\ status = "running" /\ ~conin
  /\ \/ Return0
     \/ Stops
     \/ BufferedKey \/ OverrunKey
  /\ UNCHANGED <<budget, conin, regA, neighbour>>

(* tty_popkeybuf.  Its memmove takes the bytes from behind the whole array *)
(* (&keybuf + 1), where any byte may be, and the place after the remaining *)
(* ones is cleared, which is behind the array if it was overrun.           *)
Popped(n) ==
  /\ regA' = keybuf[0]
  /\ \E moved \in [0..n-1 -> Char] :
       keybuf' = [i \in 0..KB_BUFSIZE-1 |-> IF i < n THEN moved[i]
                                            ELSE IF i = n THEN NUL ELSE keybuf[i]]
  /\ typed' = IF typed = <<>> THEN <<>> ELSE Tail(typed)
  /\ alone' = FALSE

(* Port 01, CONIN, with a character in the buffer. *)
ConinTakes ==
  /\ status = "running" /\ ~conin /\ kbip > 0
  /\ UNCHANGED <<status, events, budget, shift_engaged, conin, overrun, neighbour>>

(* Faulty: the place of the last character is not cleared. *)
ConinUncleared ==
  /\ ConinTakes
  /\ regA' = keybuf[0]
  /\ kbip' = kbip - 1
  /\ typed' = IF typed = <<>> THEN <<>> ELSE Tail(typed)
  /\ alone' = FALSE
  /\ UNCHANGED <<ctrl_engaged, keybuf>>

ConinReady ==
  /\ ConinTakes
  /\ Popped(kbip - 1)
  /\ LET clears == kbip - 1 = KB_BUFSIZE IN
     /\ kbip' = IF clears /\ neighbour = "kbip" THEN 0 ELSE kbip - 1
     /\ ctrl_engaged' = IF clears /\ neighbour = "ctrl_engaged" THEN FALSE ELSE ctrl_engaged

ConinStart ==
  /\ status = "running" /\ ~conin /\ kbip = 0
  /\ conin' = TRUE
  /\ UNCHANGED <<status, events, budget, modifiers, buffer, regA, history, neighbour>>

(* One turn of its loop.  The buffer is empty here, so that the character  *)
(* a turn buffers is popped at once.                                       *)
ConinPoll ==
  /\ status = "running" /\ conin
  /\ \/ (Return0 \/ Stops) /\ UNCHANGED <<conin, regA>>
     \/ \E i \in DOMAIN events :
          /\ TypedKey(i)
          /\ regA' = CharOf(events[i].key)
          /\ keybuf' = [keybuf EXCEPT ![0] = NUL]
          /\ conin' = FALSE
          /\ UNCHANGED <<status, modifiers, kbip, history>>
  /\ UNCHANGED <<budget, neighbour>>

Next ==
  \/ \E e \in Event : UserEvent(e)
  \/ Const
  \/ ConinReady
  \/ ConinStart
  \/ ConinPoll

(* CONIN polls again every 20 ms until it has a character.                 *)
Spec == Init /\ [][Next]_vars /\ WF_vars(ConinPoll)

-----------------------------------------------------------------------------
(* Until the buffer is overrun, every key typed ahead is counted once, and *)
(* the first key of a burst is the one that CONIN returns, whatever        *)
(* tty_popkeybuf did to the rest: a key stored in an empty buffer stays at *)
(* its head until it is popped, and what is beyond the count is cleared.   *)
FirstKeyIntact ==
  ~overrun =>
    /\ Len(typed) = kbip
    /\ alone => keybuf[0] = Head(typed)
    /\ \A i \in kbip..KB_BUFSIZE-1 : keybuf[i] = NUL
    /\ conin => kbip = 0

(* A RETURN gets through to a waiting CONIN whatever the modifier keys and *)
(* the other events around it, unless ESCAPE ends the emulator first.      *)
ReturnGetsThrough ==
  (conin /\ \E i \in DOMAIN events : events[i].type = "down" /\ events[i].key \in PlainKeys)
    ~> (~conin \/ status = "exited")

(* "append code to buffer": a key typed ahead is still there, in its place, *)
(* when the keys before it have been read.                                 *)
KeysInOrder ==
  ~overrun => \A i \in DOMAIN typed : keybuf[i - 1] = typed[i]
=============================================================================
