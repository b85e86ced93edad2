------------------------------- MODULE Terminal -------------------------------
(***************************************************************************)
(* The console output path: ansitty_putc of ansitty.c, called by the       *)
(* processor thread through port 01, and the display thread of sysbus.c    *)
(* that exposes what was drawn.  The two share the canvas and its dirty    *)
(* flag under display_mutex.                                               *)
(***************************************************************************)
EXTENDS Integers

CONSTANTS
  Width,      \* 80
  Height,     \* 24: the rows shown; the canvas has one more
  TabWidth,   \* 10
  Output,     \* the kinds of characters the guest sends
  MaxOutput   \* bound on the characters of a behaviour

(* MOVE ends an escape sequence that places the cursor, CLEAR one that     *)
(* clears the screen.                                                      *)
Kinds == {"NUL", "TAB", "BS", "LF", "CR", "PRINT", "MOVE", "CLEAR"}

ASSUME ScreenAssumption ==
  /\ Width \in Nat \ {0} /\ Height \in Nat \ {0} /\ TabWidth \in Nat \ {0}
  /\ Width % TabWidth = 0
  /\ Output \subseteq Kinds /\ MaxOutput \in Nat

VARIABLES
  status,       \* "running", or "aborted"
  mutex,        \* display_mutex: "free", "cpu" or "display"
  cpu,          \* where the processor thread is
  char,         \* the character it is putting
  display,      \* where the display thread is
  current_x, current_y,
  is_dirty,     \* of the canvas
  fresh,        \* has anything been drawn since the last expose?
  scrolled,     \* history: lines that have left the screen
  cornered,     \* history: has a TAB left the cursor past the row below the screen?
  count         \* characters put, bounded by MaxOutput

cursor == <<current_x, current_y>>
canvas == <<cursor, is_dirty, fresh, scrolled, cornered>>
vars == <<status, mutex, cpu, char, display, canvas, count>>

TypeOK ==
  /\ status \in {"running", "aborted"}
  /\ mutex \in {"free", "cpu", "display"}
  /\ cpu \in {"execute", "lock", "putc", "mark", "unlock"}
  /\ char \in Kinds
  /\ display \in {"sleep", "lock", "check", "expose", "clear", "unlock"}
  /\ current_x \in 0..Width /\ current_y \in Nat
  /\ is_dirty \in BOOLEAN /\ fresh \in BOOLEAN
  /\ scrolled \in Nat /\ cornered \in BOOLEAN /\ count \in 0..MaxOutput

(* The banner has been put, and exposed or not, when the threads start.    *)
Init ==
  /\ status = "running" /\ mutex = "free"
  /\ cpu = "execute" /\ char = "NUL" /\ display = "sleep"
  /\ current_x = 0 /\ current_y \in 0..Height
  /\ is_dirty = TRUE /\ fresh = TRUE
  /\ scrolled = 0 /\ cornered = FALSE /\ count = 0

-----------------------------------------------------------------------------
(* Port 01: the guest prints; the thread spins on pthread_mutex_trylock.   *)
Conout(c) ==
  /\ status = "running" /\ cpu = "execute" /\ count < MaxOutput
  /\ cpu' = "lock" /\ char' = c /\ count' = count + 1
  /\ UNCHANGED <<status, mutex, display, canvas>>

CpuLock ==
  /\ status = "running" /\ cpu = "lock" /\ mutex = "free"
  /\ mutex' = "cpu" /\ cpu' = "putc"
  /\ UNCHANGED <<status, char, display, canvas, count>>

Putting(c) == status = "running" /\ cpu = "putc" /\ char = c
Undrawn == UNCHANGED <<is_dirty, fresh, scrolled>>
Done == cpu' = "unlock" /\ UNCHANGED <<mutex, char, display, count>>

PutNul ==
  /\ Putting("NUL")
  /\ Done /\ Undrawn /\ UNCHANGED <<status, cursor, cornered>>

(* Between tab stops TAB only moves the cursor, to Width at the last one.  *)
PutTab ==
  /\ Putting("TAB") /\ current_x % TabWidth # 0
  /\ current_x' = current_x + (TabWidth - (current_x % TabWidth))
  /\ cornered' = (cornered \/ (current_x' = Width /\ current_y = Height))
  /\ Done /\ Undrawn /\ UNCHANGED <<status, current_y>>

(* Faulty: the first column is not looked at. *)
PutBackspaceAnywhere ==
  /\ Putting("BS") /\ (current_x > 0 \/ current_y > 0)
  /\ current_x' = current_x - 1
  /\ Done /\ Undrawn /\ UNCHANGED <<status, current_y, cornered>>

PutBackspace ==
  /\ Putting("BS") /\ (current_x > 0 \/ current_y > 0)
  /\ IF current_x > 0
     THEN current_x' = current_x - 1 /\ current_y' = current_y
     ELSE current_x' = Width - 1 /\ current_y' = current_y - 1
  /\ Done /\ Undrawn /\ UNCHANGED <<status, cornered>>

BackspaceOffScreen ==
  /\ Putting("BS") /\ current_x = 0 /\ current_y = 0
  /\ status' = "aborted"
  /\ UNCHANGED <<mutex, cpu, char, display, canvas, count>>

(* Faulty: wraps one column late. *)
WrappedXLate == IF current_x > Width THEN 0 ELSE current_x

(* Where the next character goes: past the last column it wraps, and on    *)
(* the row below the last one the screen scrolls first.                    *)
WrappedX == IF current_x > Width - 1 THEN 0 ELSE current_x
WrappedY == IF current_x > Width - 1 THEN current_y + 1 ELSE current_y
ScrollsFirst == WrappedY = Height
(* Faulty: the cursor stays behind when the screen scrolls. *)
StartYBehind == WrappedY

StartX == WrappedX
StartY == IF ScrollsFirst THEN WrappedY - 1 ELSE WrappedY

(* ansi_to_canvas of libansicanvas, as far as ansitty_putc relies on it:   *)
(* how the cursor moves from <<x, y>>.                                     *)
CanvasMoves(c, x, y) ==
  CASE c = "PRINT" -> {<<x + 1, y>>}
    [] c = "LF" -> {<<x, y + 1>>}
    [] c = "CR" -> {<<0, y>>}
    [] c = "TAB" -> {<<x, y>>, <<x + TabWidth, y>>}
    [] c = "MOVE" -> (0..Width-1) \X (0..Height-1)
    [] c = "CLEAR" -> {<<0, 0>>, <<x, y>>}

(* Every other character goes to the canvas.  CLEAR makes libansicanvas    *)
(* ask for a full repaint; otherwise a cursor that is now below the canvas *)
(* scrolls it, without following the text.                                 *)
PutChar ==
  /\ status = "running" /\ cpu = "putc"
  /\ \/ char \in {"PRINT", "LF", "CR", "MOVE", "CLEAR"}
     \/ char = "TAB" /\ current_x % TabWidth = 0
  /\ \E p \in CanvasMoves(char, StartX, StartY) :
       LET scrollsAfter == char # "CLEAR" /\ p[2] > Height
           scrolls == (IF ScrollsFirst THEN 1 ELSE 0) + (IF scrollsAfter THEN 1 ELSE 0)
       IN /\ current_x' = p[1] /\ current_y' = p[2]
          /\ scrolled' = scrolled + scrolls
          /\ is_dirty' = (is_dirty \/ scrolls > 0)
          /\ fresh' = (fresh \/ scrolls > 0 \/ char \notin {"LF", "CR"})
  /\ cpu' = IF char \in {"LF", "CR"} THEN "unlock" ELSE "mark"
  /\ UNCHANGED <<status, mutex, char, display, cornered, count>>

MarkDirty ==
  /\ status = "running" /\ cpu = "mark"
  /\ is_dirty' = TRUE
  /\ Done /\ UNCHANGED <<status, cursor, fresh, scrolled, cornered>>

(* Faulty: the mutex is not released. *)
CpuKeepsLock ==
  /\ status = "running" /\ cpu = "unlock"
  /\ cpu' = "execute"
  /\ UNCHANGED <<status, mutex, char, display, canvas, count>>

CpuUnlock ==
  /\ status = "running" /\ cpu = "unlock"
  /\ mutex' = "free" /\ cpu' = "execute"
  /\ UNCHANGED <<status, char, display, canvas, count>>

-----------------------------------------------------------------------------
(* sysbus_videoupdate. *)
DisplayStep(from, to) == status = "running" /\ display = from /\ display' = to

DisplayWake ==
  /\ DisplayStep("sleep", "lock")
  /\ UNCHANGED <<status, mutex, cpu, char, canvas, count>>

(* Faulty: the display thread does not wait for the mutex. *)
DisplayUnlocked ==
  /\ DisplayStep("lock", "check")
  /\ UNCHANGED <<status, mutex, cpu, char, canvas, count>>

DisplayLock ==
  /\ DisplayStep("lock", "check") /\ mutex = "free"
  /\ mutex' = "display"
  /\ UNCHANGED <<status, cpu, char, canvas, count>>

DisplayCheck ==
  /\ DisplayStep("check", IF is_dirty THEN "expose" ELSE "unlock")
  /\ UNCHANGED <<status, mutex, cpu, char, canvas, count>>

DisplayExpose ==
  /\ DisplayStep("expose", "clear")
  /\ fresh' = FALSE
  /\ UNCHANGED <<status, mutex, cpu, char, cursor, is_dirty, scrolled, cornered, count>>

DisplayClear ==
  /\ DisplayStep("clear", "unlock")
  /\ is_dirty' = FALSE
  /\ UNCHANGED <<status, mutex, cpu, char, cursor, fresh, scrolled, cornered, count>>

(* Faulty: the mutex is not released. *)
DisplayKeepsLock ==
  /\ DisplayStep("unlock", "sleep")
  /\ UNCHANGED <<status, mutex, cpu, char, canvas, count>>

DisplayUnlock ==
  /\ DisplayStep("unlock", "sleep")
  /\ mutex' = "free"
  /\ UNCHANGED <<status, cpu, char, canvas, count>>

Put == PutNul \/ PutTab \/ PutBackspace \/ BackspaceOffScreen \/ PutChar \/ MarkDirty
CpuStep == CpuLock \/ Put \/ CpuUnlock
DisplayThread == DisplayWake \/ DisplayLock \/ DisplayCheck \/ DisplayExpose
                   \/ DisplayClear \/ DisplayUnlock

Next ==
  \/ \E c \in Output : Conout(c)
  \/ CpuStep
  \/ DisplayThread

(* Both threads run on.  The display thread sleeps 20 ms between two turns *)
(* while the processor spins, so that the processor gets the mutex; nothing *)
(* promises it to the display thread while the guest keeps printing.       *)
Fairness == SF_vars(CpuLock) /\ WF_vars(Put \/ CpuUnlock) /\ WF_vars(DisplayThread)

Spec == Init /\ [][Next]_vars /\ Fairness

-----------------------------------------------------------------------------
(* No update is lost between the threads: whatever was drawn and not yet   *)
(* exposed is marked dirty, or the processor still holds the mutex and is  *)
(* about to mark it (ansitty_putc against sysbus_videoupdate).             *)
DrawnIsMarked == fresh => is_dirty \/ (cpu = "mark" /\ mutex = "cpu")

(* Everything drawn is exposed once the guest pauses. *)
EventuallyShown == fresh ~> (~fresh \/ status = "aborted")

(* A print completes although the display thread keeps taking the mutex.   *)
PrintCompletes == cpu = "lock" ~> (cpu = "execute" \/ status = "aborted")

(* "check if output would cause a scroll before proceeding": the cursor     *)
(* never gets further than one row below the screen and one column past it. *)
CursorOnCanvas == current_x <= Width /\ current_y <= Height

(* Wraps, scrolls, BACKSPACE and the movements that escape sequences ask    *)
(* for keep it there, whatever their order, up to a TAB to the corner of    *)
(* the row below the screen, which ansitty_putc does not scroll for.        *)
CursorKept == ~cornered => CursorOnCanvas

(* The line of the whole output the cursor is on. *)
Line == scrolled + current_y

(* Scrolling takes the cursor along with the text: up to such a TAB, a      *)
(* character other than a line feed, and other than one after the last      *)
(* column, leaves the cursor on the line of the output it was on.           *)
ScrollFollowsText ==
  [][cpu = "putc" /\ cpu' # cpu /\ ~cornered /\ char \in {"PRINT", "CR", "TAB"} =>
       Line' = IF current_x = Width THEN Line + 1 ELSE Line]_vars
=============================================================================
