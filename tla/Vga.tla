--------------------------------- MODULE Vga ----------------------------------
(***************************************************************************)
(* The text terminal, kernel/drivers/vga2.c: a screen of H rows of W cells *)
(* that shows a window of a buffer of ROWS + 1 rows, a hardware cursor,    *)
(* and the counters that are meant to keep the three together.             *)
(*                                                                         *)
(* The kernel and the keyboard take turns: the kernel prints and clears    *)
(* (mode "output"), then get_command echoes keys and scrolls ("input").    *)
(* Nothing else touches the terminal, so an operation is one step; only    *)
(* the loop of vga_clear_screen takes one step per row.                    *)
(*                                                                         *)
(* Both the screen and the buffer are addressed as the code does, by       *)
(* row * W + col, which is what makes a column of -1 mean something.       *)
(***************************************************************************)
EXTENDS Integers, Sequences, FiniteSets

CONSTANTS W, H,       \* WIDTH, HEIGHT
          ROWS,       \* VGA_TEXT_BUFFER_SIZE_ROWS: the last row of the buffer
          MaxOut,     \* bound: characters and line feeds of one history
          MaxTyped    \* bound: characters of a line, below get_command's limit

ASSUME VgaAssumption ==
  /\ W \in Nat /\ W > 1 /\ H \in Nat /\ H > 1
  /\ ROWS \in Nat /\ ROWS >= H
  /\ MaxOut \in Nat /\ MaxTyped \in 0..(H - 1) * W      \* a line fits on the screen

VARIABLES
  screen,     \* the cells at 0xB8000
  cursor,     \* the hardware cursor, an offset into the screen
  buffer,     \* vgaTextBuffer
  bufRow, bufCol,       \* vgaTextBufferRow, vgaTextBufferCol
  scrollPos, scrollMax, \* vgaTextBufferVerticalScrollPos and ...Max
  linesCleared,
  saved,      \* savedCursor: the cursor before scrolling up, or None
  lastCol,    \* last_col
  mode,       \* output, clear (inside vga_clear_screen), or input
  typed,      \* get_command's i
  toClear,    \* iterations vga_clear_screen has left, and its cursorRow
  out,        \* how many characters and line feeds have been printed
  strayed     \* history: the ways in which the counters have come apart

counters == <<bufRow, bufCol, scrollPos, scrollMax, linesCleared, saved>>
control  == <<mode, typed, toClear>>
vars == <<screen, cursor, buffer, counters, lastCol, control, out, strayed>>

None  == -1
Blank == 0            \* a painted space
Unset == -1           \* a cell of the buffer nothing has been written to

Cells   == 0..H*W-1
BufCells == 0..(ROWS + 1)*W-1
Bottom  == H - 1

RowOf(offset) == offset \div W
ColOf(offset) == offset % W

Init ==
  /\ screen = [k \in Cells |-> Blank] /\ cursor = 0
  /\ buffer = [k \in BufCells |-> IF k < H*W THEN Blank ELSE Unset]
  /\ bufRow = 0 /\ bufCol = 0 /\ scrollPos = 0 /\ scrollMax = 0
  /\ linesCleared = 0 /\ saved = None /\ lastCol = 0
  /\ mode = "output" /\ typed = 0 /\ toClear = [left |-> 0, rows |-> 0]
  /\ out = 0 /\ strayed = {}

------------------------------------------------------------------------------
(* vga_scroll_bottom, which every character printed while the view is      *)
(* scrolled back begins with: what it leaves on the screen.                *)
SavedRow == RowOf(saved)
SavedCol == ColOf(saved)
CopiedRows == IF bufRow < H THEN bufRow ELSE SavedRow + 1
FirstCopied == IF CopiedRows = H THEN bufRow - Bottom ELSE bufRow

Repainted(k) ==
  IF CopiedRows < H
    THEN /\ SavedRow <= RowOf(k) /\ RowOf(k) < H - SavedRow
         /\ RowOf(k) = SavedRow => ColOf(k) >= SavedCol
    ELSE RowOf(k) = Bottom /\ ColOf(k) >= SavedCol

BufferAt(n) == IF n \in BufCells THEN buffer[n] ELSE Unset

BottomScreen ==
  [k \in Cells |-> CASE Repainted(k) -> Blank
                     [] ~Repainted(k) /\ k < CopiedRows * W -> BufferAt(FirstCopied * W + k)
                     [] OTHER -> screen[k]]

\* The screen, cursor and window a character is printed on.
Scrolled == saved # None
Shown    == IF Scrolled THEN BottomScreen ELSE screen
Here     == IF Scrolled THEN saved ELSE cursor
Window   == IF Scrolled THEN scrollMax ELSE scrollPos

------------------------------------------------------------------------------
(* vga_scroll_down(true) on screen scr and buffer buf. *)
Up(scr) == [k \in Cells |-> IF k < Bottom * W THEN scr[k + W] ELSE Blank]
LiftNothing(buf) == buf                                 \* mutant: oldest row kept
Lifted(buf) ==
  [k \in BufCells |-> CASE k < bufRow * W -> buf[k + W]
                        [] RowOf(k) = bufRow -> Blank
                        [] OTHER -> buf[k]]

RoomAlways == TRUE                                      \* mutant: no limit
Room == bufRow < ROWS
RoomBuffer(buf) == IF Window = scrollMax /\ ~Room THEN Lifted(buf) ELSE buf
MakeRoom(scr) ==
  /\ screen' = Up(scr)
  /\ cursor' = Bottom * W
  /\ scrollMax' = IF Window = scrollMax /\ Room THEN scrollMax + 1 ELSE scrollMax
  /\ scrollPos' = IF Window = scrollMax /\ ~Room THEN Window ELSE Window + 1

(* The rest of vga_print_char when a row ends: the next row of the screen, *)
(* scrolling at the bottom, and the next row of the buffer if there is one.*)
OneMoreRow == bufRow + 1                                \* mutant: no limit
FollowingRow == IF bufRow < ROWS THEN bufRow + 1 ELSE bufRow
NextRow(scr, buf) ==
  /\ bufCol' = 0 /\ bufRow' = FollowingRow
  /\ IF RowOf(Here) < Bottom
       THEN /\ cursor' = (RowOf(Here) + 1) * W
            /\ screen' = scr /\ buffer' = buf /\ scrollPos' = Window
            /\ UNCHANGED scrollMax
       ELSE MakeRoom(scr) /\ buffer' = RoomBuffer(buf)

(* How the counters come apart.  The screen row no longer follows the row  *)
(* of the buffer once the buffer is full and the cursor is not at the      *)
(* bottom; vga_scroll_bottom copies the wrong rows from a cursor in the    *)
(* middle of the screen.                                                   *)
AtBottomCopy == IF Scrolled /\ SavedRow \in 1..Bottom-1 THEN {"bottom"} ELSE {}
AtFullRow == IF bufRow = ROWS /\ RowOf(Here) < Bottom THEN {"full"} ELSE {}

------------------------------------------------------------------------------
(* vga_print_char of a visible character, as the whole operation. *)
Put(c) ==
  LET scr == [Shown EXCEPT ![Here] = c]
      buf == [buffer EXCEPT ![bufRow * W + bufCol] = c]
  IN IF ColOf(Here) + 1 < W
       THEN /\ screen' = scr /\ buffer' = buf /\ cursor' = Here + 1
            /\ bufCol' = bufCol + 1 /\ scrollPos' = Window
            /\ strayed' = strayed \cup AtBottomCopy
            /\ UNCHANGED <<bufRow, scrollMax>>
       ELSE /\ NextRow(scr, buf)
            /\ strayed' = strayed \cup AtBottomCopy \cup AtFullRow

(* of a line feed: near the bottom the rest of the buffer's row is blanked *)
Filled ==
  [k \in BufCells |-> IF bufRow >= H - 2 /\ k \in bufRow*W + bufCol..bufRow*W + W - 1
                        THEN Blank ELSE buffer[k]]
PutLineFeed ==
  /\ NextRow(Shown, Filled)
  /\ strayed' = strayed \cup AtBottomCopy \cup AtFullRow

(* and of a backspace: the cell before the cursor is printed over.  At the *)
(* start of a row the space goes to the cursor's own cell, and cursor and  *)
(* column step back without it; a column of -1 means bufCol to the printing.*)
Erased == IF ColOf(Here) = 0 THEN Here ELSE Here - 1
PutBackspace ==
  IF (RowOf(Here) = 0 /\ ColOf(Here) > 0) \/ lastCol # 0
    THEN LET back == IF bufCol = 0 THEN 0 ELSE bufCol - 1 IN
         /\ screen' = [Shown EXCEPT ![Erased] = Blank]
         /\ buffer' = [buffer EXCEPT ![bufRow * W + back] = Blank]
         /\ cursor' = Here - 1 /\ bufCol' = bufCol - 1
         /\ strayed' = strayed \cup AtBottomCopy
              \cup (IF ColOf(Here) = 0 THEN {"backspace"} ELSE {})
         /\ scrollPos' = Window /\ UNCHANGED <<bufRow, scrollMax>>
    ELSE /\ screen' = Shown /\ cursor' = Here
         /\ strayed' = strayed \cup AtBottomCopy
         /\ scrollPos' = Window /\ UNCHANGED <<buffer, bufCol, bufRow, scrollMax>>

------------------------------------------------------------------------------
(* The kernel printing: characters, line feeds, and at last a prompt.      *)
Ink == out + 1                     \* each character is one of its own

Output ==
  /\ mode = "output" /\ out < MaxOut
  /\ Put(Ink)
  /\ lastCol' = ColOf(Here) /\ saved' = None /\ out' = out + 1
  /\ UNCHANGED <<linesCleared, control>>

OutputLineFeed ==
  /\ mode = "output" /\ out < MaxOut
  /\ PutLineFeed
  /\ saved' = None /\ out' = out + 1
  /\ UNCHANGED <<linesCleared, lastCol, control>>

\* vga_clear_screen, called between lines: one vga_scroll_down(true) and one
\* blanked row of the buffer for each row above the cursor.
Clear ==
  /\ mode = "output" /\ ColOf(cursor) = 0 /\ out < MaxOut
  /\ mode' = "clear" /\ out' = out + 1
  /\ toClear' = [left |-> RowOf(cursor), rows |-> RowOf(cursor)]
  /\ UNCHANGED <<screen, cursor, buffer, counters, lastCol, typed, strayed>>

RowBlanked(buf) == [k \in BufCells |-> IF RowOf(k) = bufRow THEN Blank ELSE buf[k]]
ClearRow ==
  /\ mode = "clear" /\ toClear.left > 0
  /\ MakeRoom(screen) /\ buffer' = RowBlanked(RoomBuffer(buffer))
  /\ toClear' = [toClear EXCEPT !.left = @ - 1]
  /\ strayed' = strayed \cup (IF bufRow = ROWS THEN {"full"} ELSE {})
  /\ UNCHANGED <<bufRow, bufCol, linesCleared, saved, lastCol, mode, typed, out>>

ClearEnds ==
  /\ mode = "clear" /\ toClear.left = 0
  /\ cursor' = 0 /\ linesCleared' = linesCleared + toClear.rows
  /\ mode' = "output" /\ toClear' = [left |-> 0, rows |-> 0]
  /\ UNCHANGED <<screen, buffer, bufRow, bufCol, scrollPos, scrollMax, saved,
                 lastCol, typed, out, strayed>>

\* A prompt stands before the cursor, and no prompt is wrapped.
Prompt ==
  /\ mode = "output" /\ lastCol # 0 /\ ColOf(cursor) = lastCol + 1
  /\ mode' = "input" /\ typed' = 0
  /\ UNCHANGED <<screen, cursor, buffer, counters, lastCol, toClear, out, strayed>>

------------------------------------------------------------------------------
(* get_command echoing what is typed, and vga_on_key_pressed.              *)
Type ==
  /\ mode = "input" /\ typed < MaxTyped /\ out < MaxOut
  /\ Put(Ink)
  /\ saved' = None /\ typed' = typed + 1 /\ out' = out + 1
  /\ UNCHANGED <<linesCleared, lastCol, mode, toClear>>

Backspace ==
  /\ mode = "input" /\ typed > 0
  /\ PutBackspace
  /\ saved' = None /\ typed' = typed - 1
  /\ UNCHANGED <<linesCleared, lastCol, mode, toClear, out>>

Return ==
  /\ mode = "input" /\ out < MaxOut
  /\ PutLineFeed
  /\ saved' = None /\ mode' = "output" /\ typed' = 0 /\ out' = out + 1
  /\ UNCHANGED <<linesCleared, lastCol, toClear>>

\* vga_scroll_up
FromBelow(row) == [c \in 0..W-1 |-> buffer[(row + 1) * W + c]]  \* mutant: copied too soon
FromBuffer(row) == [c \in 0..W-1 |-> buffer[row * W + c]]
PageUp ==
  /\ mode = "input" /\ scrollPos > 0
  /\ scrollPos' = scrollPos - 1
  /\ saved' = IF saved = None THEN cursor ELSE saved
  /\ screen' = [k \in Cells |-> IF k < W THEN FromBuffer(scrollPos - 1)[k] ELSE screen[k - W]]
  /\ UNCHANGED <<cursor, buffer, bufRow, bufCol, scrollMax, linesCleared, lastCol,
                 control, out, strayed>>

\* vga_scroll_down(false).  The row that appears is blank, or a row of the buffer:
\* the one linesCleared points to, or the one as far from bufRow as the view is
\* from the end.
PageDown ==
  LET moved == scrollPos < scrollMax
      p     == IF moved THEN scrollPos + 1 ELSE scrollPos
      past  == linesCleared > 0 /\ bufRow > Bottom /\ p + Bottom <= bufRow
      row   == IF past THEN p + Bottom ELSE bufRow - (scrollMax - p)
      copies == past \/ (linesCleared = 0 /\ (p < scrollMax \/ Scrolled))
      blanks == linesCleared > 0 /\ p + linesCleared > scrollMax
      buf   == [k \in BufCells |->
                  IF past /\ row = bufRow /\ k \in bufRow*W + bufCol..bufRow*W + W - 1
                    THEN Blank ELSE buffer[k]]
      back  == p = scrollMax /\ Scrolled
  IN
  /\ mode = "input"
  /\ scrollPos' = p /\ buffer' = buf
  /\ screen' = [k \in Cells |->
        CASE k < Bottom * W -> IF moved THEN screen[k + W] ELSE screen[k]
          [] back /\ k >= Bottom * W /\ ColOf(k) >= SavedCol -> Blank
          [] ~(back /\ ColOf(k) >= SavedCol) /\ k >= Bottom * W ->
               IF copies THEN buf[row * W + ColOf(k)]
               ELSE IF blanks THEN Blank ELSE screen[k]]
  /\ cursor' = IF back THEN saved ELSE IF p < scrollMax THEN Bottom * W ELSE cursor
  /\ saved' = IF back THEN None ELSE saved
  /\ UNCHANGED <<bufRow, bufCol, scrollMax, linesCleared, lastCol, control, out, strayed>>

\* Of the keys get_command hands on, the page keys move the view; the arms of
\* the arrow keys are empty.
vga_on_key_pressed == PageUp \/ PageDown

Next == \/ Output \/ OutputLineFeed \/ Clear \/ ClearRow \/ ClearEnds \/ Prompt
        \/ Type \/ Backspace \/ Return \/ vga_on_key_pressed

Spec == Init /\ [][Next]_vars

------------------------------------------------------------------------------
TypeOK ==
  /\ screen \in [Cells -> Unset..MaxOut] /\ cursor \in Cells
  /\ buffer \in [BufCells -> Unset..MaxOut]
  /\ bufRow \in 0..ROWS /\ bufCol \in -MaxTyped..W-1
  /\ scrollMax \in Nat /\ scrollPos \in 0..scrollMax
  /\ linesCleared \in Nat /\ saved \in Cells \cup {None}
  /\ lastCol \in 0..W-1
  /\ mode \in {"output", "clear", "input"} /\ typed \in 0..MaxTyped
  /\ toClear \in [left : 0..Bottom, rows : 0..Bottom]
  /\ out \in 0..MaxOut /\ strayed \subseteq {"backspace", "bottom", "full"}

Text(cell) == IF cell = Unset THEN Blank ELSE cell

\* Row r of the screen shows what row r of the window on the buffer holds.
ShowsWindow ==
  \A k \in Cells :
    Text(screen[k]) = IF scrollPos + RowOf(k) > bufRow THEN Blank
                      ELSE Text(buffer[scrollPos * W + k])

\* Whatever has been printed, erased, cleared and scrolled, the screen is a window
\* on the buffer, as long as the counters have not come apart.
ScreenIsWindow == mode # "clear" /\ strayed = {} => ShowsWindow

\* The cell the next character goes to is the same on the screen and in the
\* buffer, and the view is scrolled back exactly while a cursor is saved.
CursorFollows ==
  mode # "clear" /\ strayed = {} =>
    /\ Scrolled <=> scrollPos < scrollMax
    /\ scrollMax * W + Here = bufRow * W + bufCol

\* To those who print and type, the buffer is the roll of rows of Terminal,
\* cleared or not, scrolled or not, until the counters come apart.
Roll == [r \in 1..bufRow + 1 |-> [c \in 0..W-1 |-> Text(buffer[(r - 1) * W + c])]]
Readable == IF strayed = {} THEN Roll ELSE <<>>
NextColumn == IF strayed = {} THEN bufCol ELSE 0
T == INSTANCE Terminal WITH
       Keep <- ROWS + 1, Chars <- 1..MaxOut, rows <- Readable, at <- NextColumn
ImplementsTerminal == T!Spec
==============================================================================
