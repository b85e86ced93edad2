---------------------------- MODULE TerminalProofs ----------------------------
(***************************************************************************)
(* The console output, for every size of the screen, distance of the tab   *)
(* stops and length of the output: type correctness, no update lost        *)
(* between the two threads, and the cursor on the canvas with the text     *)
(* scrolling under it.                                                     *)
(***************************************************************************)
EXTENDS Terminal, TLAPS

-----------------------------------------------------------------------------
(* Tab stops. *)

LEMMA Division ==
  ASSUME NEW n \in Nat, NEW b \in Nat \ {0}
  PROVE  /\ n \div b \in Nat
         /\ n % b \in 0..b-1
         /\ n = b * (n \div b) + (n % b)
OBVIOUS

(* A multiple below another one is a whole step below it. *)
LEMMA Multiples ==
  ASSUME NEW b \in Nat \ {0}, NEW i \in Int, NEW j \in Int, b * i < b * j
  PROVE  b * i + b <= b * j
<1>1. i < j
  <2>1. SUFFICES ASSUME i >= j PROVE FALSE
    OBVIOUS
  <2>2. b * i >= b * j
    BY <2>1
  <2> QED
    BY <2>2
<1>2. j = i + 1 + (j - (i + 1)) /\ j - (i + 1) >= 0
  BY <1>1
<1>3. b * (j - (i + 1)) >= 0
  BY <1>2
<1>4. b * j = b * i + b + b * (j - (i + 1))
  OBVIOUS
<1> QED
  BY <1>3, <1>4

(* The tab stop behind a column of the screen is not past the screen.      *)
LEMMA NextTabStop ==
  ASSUME NEW x \in 0..Width-1
  PROVE  /\ x % TabWidth \in 0..TabWidth-1
         /\ x + (TabWidth - (x % TabWidth)) <= Width
<1>1. /\ Width \in Nat /\ TabWidth \in Nat \ {0} /\ x \in Nat
      /\ Width = TabWidth * (Width \div TabWidth) /\ Width \div TabWidth \in Nat
  BY ScreenAssumption, Division
<1>2. /\ x = TabWidth * (x \div TabWidth) + (x % TabWidth) /\ x \div TabWidth \in Nat
      /\ x % TabWidth \in 0..TabWidth-1
  BY <1>1, Division
<1>3. TabWidth * (x \div TabWidth) < TabWidth * (Width \div TabWidth)
  BY <1>1, <1>2
<1>4. TabWidth * (x \div TabWidth) + TabWidth <= TabWidth * (Width \div TabWidth)
  BY <1>1, <1>2, <1>3, Multiples
<1> QED
  BY <1>1, <1>2, <1>4

-----------------------------------------------------------------------------
(* Each thread holds the mutex where it uses the canvas. *)
MutexHeld ==
  /\ mutex = "cpu" <=> cpu \in {"putc", "mark", "unlock"}
  /\ mutex = "display" <=> display \in {"check", "expose", "clear", "unlock"}

(* Drawing cannot come between an expose and the clearing of is_dirty.     *)
DirtyMatches ==
  /\ fresh => is_dirty \/ cpu = "mark"
  /\ display = "clear" => ~fresh

(* Until a TAB leaves it there, the cursor is not at the right of the row  *)
(* below the screen, the one place from which it wraps off the canvas.     *)
Uncornered == ~cornered => current_y <= Height /\ (current_x = Width => current_y < Height)

TerminalInv == TypeOK /\ MutexHeld /\ DirtyMatches /\ Uncornered

LEMMA InitInv == Init => TerminalInv
<1> SUFFICES ASSUME Init PROVE TerminalInv
  OBVIOUS
<1>1. TypeOK
  <2>1. is_dirty \in BOOLEAN /\ fresh \in BOOLEAN /\ cornered \in BOOLEAN
    BY Zenon DEF Init
  <2> QED
    BY <2>1, ScreenAssumption DEF Init, TypeOK, Kinds
<1>2. MutexHeld /\ DirtyMatches
  BY DEF Init, MutexHeld, DirtyMatches
<1>3. Uncornered
  BY ScreenAssumption DEF Init, Uncornered
<1> QED
  BY <1>1, <1>2, <1>3 DEF TerminalInv

(* The wrap and the scroll before a character. *)
LEMMA StartOnCanvas ==
  ASSUME TerminalInv
  PROVE  /\ StartX \in 0..Width-1 /\ StartY \in Nat
         /\ ~cornered => StartY <= Height - 1
BY ScreenAssumption
DEF TerminalInv, TypeOK, Uncornered, StartX, StartY, WrappedX, WrappedY, ScrollsFirst

(* Where ansi_to_canvas leaves the cursor. *)
LEMMA CanvasKeeps ==
  ASSUME TerminalInv, char = "TAB" => current_x % TabWidth = 0,
         NEW p \in CanvasMoves(char, StartX, StartY),
         char \in {"PRINT", "LF", "CR", "TAB", "MOVE", "CLEAR"}
  PROVE  /\ p = <<p[1], p[2]>> /\ p[1] \in 0..Width /\ p[2] \in Nat
         /\ ~cornered => p[2] <= Height /\ (p[1] = Width => p[2] < Height)
         /\ char \in {"PRINT", "CR", "TAB"} => p[2] = StartY
<1>1. /\ StartX \in 0..Width-1 /\ StartY \in Nat /\ Width \in Nat \ {0} /\ Height \in Nat \ {0}
      /\ TabWidth \in Nat \ {0}
      /\ ~cornered => StartY <= Height - 1
  BY StartOnCanvas, ScreenAssumption
<1>2. CASE char = "TAB"
  <2>1. StartX % TabWidth = 0
    <3>1. 0 % TabWidth = 0
      BY <1>1
    <3> QED
      BY <1>2, <3>1 DEF StartX, WrappedX
  <2>2. StartX + TabWidth <= Width
    BY <1>1, <2>1, NextTabStop
  <2>3. p = <<StartX, StartY>> \/ p = <<StartX + TabWidth, StartY>>
    BY <1>2 DEF CanvasMoves
  <2> QED
    BY <1>1, <1>2, <2>2, <2>3
<1>3. CASE char = "PRINT"
  BY <1>1, <1>3 DEF CanvasMoves
<1>4. CASE char = "LF"
  BY <1>1, <1>4 DEF CanvasMoves
<1>5. CASE char = "CR"
  BY <1>1, <1>5 DEF CanvasMoves
<1>6. CASE char = "MOVE"
  BY <1>1, <1>6 DEF CanvasMoves
<1>7. CASE char = "CLEAR"
  BY <1>1, <1>7 DEF CanvasMoves
<1> QED
  BY <1>2, <1>3, <1>4, <1>5, <1>6, <1>7

-----------------------------------------------------------------------------
(* The processor thread. *)

LEMMA ConoutInv ==
  ASSUME TerminalInv, NEW c \in Output, Conout(c)
  PROVE  TerminalInv'
BY ScreenAssumption
DEF Conout, TerminalInv, TypeOK, MutexHeld, DirtyMatches, Uncornered, canvas, cursor

LEMMA PutTabInv ==
  ASSUME TerminalInv, PutTab
  PROVE  TerminalInv'
<1>1. /\ current_x \in 0..Width-1
      /\ current_x % TabWidth \in 0..TabWidth-1
      /\ current_x' = current_x + (TabWidth - (current_x % TabWidth))
      /\ current_x' <= Width
  <2>1. current_x # Width /\ current_x \in 0..Width /\ Width \in Nat
    BY ScreenAssumption DEF PutTab, TerminalInv, TypeOK
  <2> QED
    BY <2>1, NextTabStop DEF PutTab
<1>2. TypeOK'
  <2>1. current_x' \in 0..Width
    BY <1>1, ScreenAssumption
  <2>2. cornered' \in BOOLEAN
    BY DEF PutTab
  <2> QED
    BY <2>1, <2>2 DEF PutTab, Done, Undrawn, TerminalInv, TypeOK
<1>3. MutexHeld' /\ DirtyMatches'
  BY DEF PutTab, Putting, Done, Undrawn, TerminalInv, TypeOK, MutexHeld, DirtyMatches
<1>4. Uncornered'
  <2>1. SUFFICES ASSUME ~cornered' PROVE current_y' <= Height /\ (current_x' = Width => current_y' < Height)
    BY DEF Uncornered
  <2>2. ~cornered /\ ~(current_x' = Width /\ current_y = Height)
    BY <2>1 DEF PutTab
  <2>3. current_y <= Height /\ current_y \in Nat /\ current_y' = current_y
    BY <2>2 DEF PutTab, TerminalInv, TypeOK, Uncornered
  <2> QED
    BY <2>2, <2>3, ScreenAssumption
<1> QED
  BY <1>2, <1>3, <1>4 DEF TerminalInv

LEMMA PutBackspaceInv ==
  ASSUME TerminalInv, PutBackspace
  PROVE  TerminalInv'
<1>1. TypeOK'
  <2>1. current_x' \in 0..Width /\ current_y' \in Nat
    BY ScreenAssumption DEF PutBackspace, TerminalInv, TypeOK
  <2> QED
    BY <2>1 DEF PutBackspace, Done, Undrawn, TerminalInv, TypeOK
<1>2. MutexHeld' /\ DirtyMatches'
  BY DEF PutBackspace, Putting, Done, Undrawn, TerminalInv, MutexHeld, DirtyMatches
<1>3. Uncornered'
  BY ScreenAssumption DEF PutBackspace, TerminalInv, TypeOK, Uncornered
<1> QED
  BY <1>1, <1>2, <1>3 DEF TerminalInv

LEMMA PutCharInv ==
  ASSUME TerminalInv, PutChar
  PROVE  TerminalInv'
<1>1. PICK p \in CanvasMoves(char, StartX, StartY) :
        LET scrollsAfter == char # "CLEAR" /\ p[2] > Height
            scrolls == (IF ScrollsFirst THEN 1 ELSE 0) + (IF scrollsAfter THEN 1 ELSE 0)
        IN /\ current_x' = p[1] /\ current_y' = p[2]
           /\ scrolled' = scrolled + scrolls
           /\ is_dirty' = (is_dirty \/ scrolls > 0)
           /\ fresh' = (fresh \/ scrolls > 0 \/ char \notin {"LF", "CR"})
  BY DEF PutChar
<1>2. /\ char \in {"PRINT", "LF", "CR", "TAB", "MOVE", "CLEAR"}
      /\ char = "TAB" => current_x % TabWidth = 0
  BY DEF PutChar
<1>3. /\ current_x' \in 0..Width /\ current_y' \in Nat
      /\ ~cornered => current_y' <= Height /\ (current_x' = Width => current_y' < Height)
  BY <1>1, <1>2, CanvasKeeps
<1>4. TypeOK'
  <2>1. is_dirty' \in BOOLEAN /\ fresh' \in BOOLEAN
    BY <1>1
  <2>2. scrolled' \in Nat
    BY <1>1 DEF TerminalInv, TypeOK
  <2> QED
    BY <1>3, <2>1, <2>2 DEF PutChar, TerminalInv, TypeOK
<1>5. MutexHeld'
  BY DEF PutChar, TerminalInv, MutexHeld
<1>6. DirtyMatches'
  <2>1. cpu = "putc" /\ mutex = "cpu" /\ display # "clear" /\ display' = display
    BY DEF PutChar, TerminalInv, MutexHeld
  <2>2. fresh => is_dirty
    BY <2>1 DEF TerminalInv, DirtyMatches
  <2>3. CASE char \in {"LF", "CR"}
    BY <1>1, <2>1, <2>2, <2>3 DEF DirtyMatches
  <2>4. CASE char \notin {"LF", "CR"}
    BY <2>1, <2>4 DEF PutChar, DirtyMatches
  <2> QED
    BY <2>3, <2>4
<1>7. Uncornered'
  BY <1>3 DEF PutChar, Uncornered
<1> QED
  BY <1>4, <1>5, <1>6, <1>7 DEF TerminalInv

LEMMA CpuInv ==
  ASSUME TerminalInv, CpuStep
  PROVE  TerminalInv'
<1>1. CASE CpuLock
  BY <1>1 DEF CpuLock, TerminalInv, TypeOK, MutexHeld, DirtyMatches, Uncornered, canvas, cursor
<1>2. CASE PutNul
  BY <1>2 DEF PutNul, Putting, Done, Undrawn, TerminalInv, TypeOK, MutexHeld, DirtyMatches, Uncornered, cursor
<1>3. CASE BackspaceOffScreen
  BY <1>3 DEF BackspaceOffScreen, TerminalInv, TypeOK, MutexHeld, DirtyMatches, Uncornered, canvas, cursor
<1>4. CASE MarkDirty
  BY <1>4 DEF MarkDirty, Done, TerminalInv, TypeOK, MutexHeld, DirtyMatches, Uncornered, cursor
<1>5. CASE CpuUnlock
  BY <1>5 DEF CpuUnlock, TerminalInv, TypeOK, MutexHeld, DirtyMatches, Uncornered, canvas, cursor
<1> QED
  BY <1>1, <1>2, <1>3, <1>4, <1>5, PutTabInv, PutBackspaceInv, PutCharInv DEF CpuStep, Put

(* The display thread. *)
LEMMA DisplayInv ==
  ASSUME TerminalInv, DisplayThread
  PROVE  TerminalInv'
<1>1. UNCHANGED <<status, cpu, char, cursor, scrolled, cornered, count>>
  BY DEF DisplayThread, DisplayWake, DisplayLock, DisplayCheck, DisplayExpose, DisplayClear,
         DisplayUnlock, canvas
<1>2. Uncornered'
  BY <1>1 DEF TerminalInv, Uncornered, cursor
<1>3. TypeOK'
  BY <1>1 DEF DisplayThread, DisplayStep, DisplayWake, DisplayLock, DisplayCheck, DisplayExpose,
              DisplayClear, DisplayUnlock, canvas, cursor, TerminalInv, TypeOK
<1>4. MutexHeld' /\ DirtyMatches'
  BY <1>1 DEF DisplayThread, DisplayStep, DisplayWake, DisplayLock, DisplayCheck, DisplayExpose,
              DisplayClear, DisplayUnlock, canvas, TerminalInv, TypeOK, MutexHeld, DirtyMatches
<1> QED
  BY <1>2, <1>3, <1>4 DEF TerminalInv

LEMMA NextInv ==
  ASSUME TerminalInv, [Next]_vars
  PROVE  TerminalInv'
<1>1. CASE UNCHANGED vars
  BY <1>1 DEF vars, canvas, cursor, TerminalInv, TypeOK, MutexHeld, DirtyMatches, Uncornered
<1> QED
  BY <1>1, ConoutInv, CpuInv, DisplayInv DEF Next

(* The mutex, the marks and the cursor, as they depend on each other.      *)
THEOREM TerminalInvariant == Spec => []TerminalInv
BY InitInv, NextInv, PTL DEF Spec

-----------------------------------------------------------------------------
(* Every variable keeps its type; in particular BACKSPACE, wraps and tabs  *)
(* never take the cursor further than one column past the last one.        *)
THEOREM TypeCorrect == Spec => []TypeOK
<1>1. TerminalInv => TypeOK
  BY DEF TerminalInv
<1> QED
  BY <1>1, TerminalInvariant, PTL

(* The processor and the display thread are never both inside the canvas,  *)
(* and nothing that was drawn is forgotten between them.                   *)
THEOREM NoUpdateLost == Spec => []DrawnIsMarked
<1>1. TerminalInv => DrawnIsMarked
  BY DEF TerminalInv, TypeOK, MutexHeld, DirtyMatches, DrawnIsMarked
<1> QED
  BY <1>1, TerminalInvariant, PTL

(* On a screen of any size, the cursor stays on the canvas until a TAB     *)
(* takes it to the corner of the row below the screen.                     *)
THEOREM CursorStays == Spec => []CursorKept
<1>1. TerminalInv => CursorKept
  BY ScreenAssumption DEF TerminalInv, TypeOK, Uncornered, CursorKept, CursorOnCanvas
<1> QED
  BY <1>1, TerminalInvariant, PTL

(* A character that ansi_to_canvas gets goes on the line after the wrap,   *)
(* which the scroll before it takes along; none scrolls after it.          *)
LEMMA CanvasFollows ==
  ASSUME TerminalInv, PutChar, ~cornered, char \in {"PRINT", "CR", "TAB"}
  PROVE  Line' = IF current_x = Width THEN Line + 1 ELSE Line
<1>1. PICK p \in CanvasMoves(char, StartX, StartY) :
        LET scrollsAfter == char # "CLEAR" /\ p[2] > Height
            scrolls == (IF ScrollsFirst THEN 1 ELSE 0) + (IF scrollsAfter THEN 1 ELSE 0)
        IN /\ current_y' = p[2]
           /\ scrolled' = scrolled + scrolls
  BY DEF PutChar
<1>2. p[2] = StartY /\ p[2] <= Height /\ p[2] \in Nat
  <2>1. char = "TAB" => current_x % TabWidth = 0
    BY DEF PutChar
  <2> QED
    BY <2>1, CanvasKeeps
<1>3. scrolled' = scrolled + (IF ScrollsFirst THEN 1 ELSE 0)
  <2>1. ~(p[2] > Height)
    BY <1>2, ScreenAssumption
  <2> QED
    BY <1>1, <2>1 DEF TerminalInv, TypeOK
<1>4. current_y' = IF ScrollsFirst THEN WrappedY - 1 ELSE WrappedY
  BY <1>1, <1>2 DEF StartY
<1>5. WrappedY = IF current_x = Width THEN current_y + 1 ELSE current_y
  BY ScreenAssumption DEF WrappedY, TerminalInv, TypeOK
<1> QED
  BY <1>3, <1>4, <1>5 DEF Line, TerminalInv, TypeOK

(* BACKSPACE and line feeds apart, every put keeps the cursor on its line  *)
(* of the output, or takes it to the next one after the last column.       *)
LEMMA PutsFollow ==
  ASSUME TerminalInv, [Next]_vars, cpu = "putc", cpu' # cpu, ~cornered,
         char \in {"PRINT", "CR", "TAB"}
  PROVE  Line' = IF current_x = Width THEN Line + 1 ELSE Line
<1>1. PutTab \/ PutChar
  BY DEF Next, Conout, CpuStep, CpuLock, Put, PutNul, PutBackspace, BackspaceOffScreen, MarkDirty,
         CpuUnlock, Putting, DisplayThread, DisplayWake, DisplayLock, DisplayCheck, DisplayExpose,
         DisplayClear, DisplayUnlock, vars
<1>2. CASE PutTab
  <2>1. current_x # Width
    BY <1>2, ScreenAssumption DEF PutTab
  <2> QED
    BY <1>2, <2>1 DEF PutTab, Undrawn, Line
<1> QED
  BY <1>1, <1>2, CanvasFollows

(* Scrolling takes the cursor along with the text. *)
THEOREM TextScrollsWithCursor == Spec => ScrollFollowsText
<1>1. TerminalInv /\ [Next]_vars =>
        [cpu = "putc" /\ cpu' # cpu /\ ~cornered /\ char \in {"PRINT", "CR", "TAB"} =>
           Line' = IF current_x = Width THEN Line + 1 ELSE Line]_vars
  BY PutsFollow
<1> QED
  BY <1>1, TerminalInvariant, PTL DEF Spec, ScrollFollowsText
=============================================================================
