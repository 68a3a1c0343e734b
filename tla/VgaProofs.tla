------------------------------ MODULE VgaProofs -------------------------------
(***************************************************************************)
(* The terminal, for every size of screen and buffer and every length of    *)
(* output and line.                                                        *)
(***************************************************************************)
EXTENDS Vga, SequenceTheorems, TLAPS

(* Whatever has strayed, the view is scrolled back exactly while a cursor is  *)
(* saved, and never while the kernel prints.                               *)
Saved == /\ saved = None <=> scrollPos = scrollMax
         /\ mode # "input" => saved = None

(* The column of the buffer is never ahead of the screen's; what is typed can *)
(* be taken back.                                                          *)
Columns == /\ bufCol <= ColOf(Here) 
           /\ bufCol >= IF mode = "input" THEN typed - MaxTyped ELSE 0
           /\ mode = "clear" => bufCol = 0 /\ toClear.left <= toClear.rows
           /\ mode = "input" => lastCol # 0 /\ typed <= Here

(* The window never passes the last row printed to. *)
Rows == /\ scrollMax <= bufRow
        /\ bufRow < ROWS => scrollMax + (IF mode = "clear" THEN toClear.left ELSE RowOf(Here)) <= bufRow

Bounds == TypeOK /\ Saved /\ Columns /\ Rows

(* Until something strays, screen and buffer agree on where the next character *)
(* goes.                                                                   *)
Together ==
  IF mode = "clear" THEN scrollMax + toClear.left = bufRow
  ELSE bufCol = ColOf(Here) /\ scrollMax + RowOf(Here) = bufRow

(* The rows scrolled away were cleared or printed past the bottom; after the  *)
(* latter the cursor stays at the bottom until it is cleared from there.     *)
Cleared ==
  IF mode = "clear"
    THEN /\ linesCleared + toClear.rows - toClear.left <= scrollMax
         /\ \/ scrollMax + toClear.left = linesCleared + toClear.rows
            \/ toClear.rows = Bottom
            \/ linesCleared >= Bottom
    ELSE /\ linesCleared <= scrollMax
         /\ scrollMax = linesCleared \/ RowOf(Here) = Bottom \/ linesCleared >= Bottom

(* Nothing has been printed at row r, column c, or behind. *)
BlankBehind(buf, r, c) ==
  \A k \in BufCells : RowOf(k) > r \/ (RowOf(k) = r /\ ColOf(k) >= c) => Text(buf[k]) = Blank

(* Screen scr shows the rows from pos of a buffer whose last row is row. *)
WindowOn(scr, buf, pos, row) ==
  \A k \in Cells : Text(scr[k]) = IF pos + RowOf(k) > row THEN Blank ELSE Text(buf[pos * W + k])

Agreeing == strayed = {} =>
  /\ Together /\ Cleared
  /\ BlankBehind(buffer, bufRow, bufCol)
  /\ WindowOn(screen, buffer, scrollPos, bufRow)

IInv == Bounds /\ Agreeing

------------------------------------------------------------------------------
(* Offsets as rows and columns.                                            *)

(* The sizes of screen and buffer. *)
LEMMA Sizes == /\ W \in Nat /\ W > 1 /\ H \in Nat /\ H > 1 /\ ROWS \in Nat /\ ROWS >= H
               /\ Bottom \in Nat /\ Bottom >= 1 /\ Bottom < ROWS /\ H = Bottom + 1
               /\ MaxOut \in Nat /\ MaxTyped \in Nat /\ MaxTyped <= Bottom * W
  BY VgaAssumption DEF Bottom

(* An offset is its row and its column. *)
LEMMA Split ==
  ASSUME NEW k \in Nat
  PROVE RowOf(k) \in Nat /\ ColOf(k) \in 0..W-1 /\ k = RowOf(k) * W + ColOf(k)
  BY Sizes DEF RowOf, ColOf

(* A row further down is a whole row further on. *)
LEMMA Ascend ==
  ASSUME NEW r \in Nat, NEW s \in Nat, r < s
  PROVE r * W + W <= s * W
  <1>1. PICK d \in Nat : s = r + 1 + d
    <2>1. s - r - 1 \in Nat /\ s = r + 1 + (s - r - 1)
      OBVIOUS
    <2> QED
      BY <2>1
  <1>2. s * W = r * W + W + d * W
    BY <1>1, Sizes
  <1>3. d * W >= 0 /\ r * W \in Nat
    BY Sizes
  <1> QED
    BY <1>2, <1>3, Sizes

(* A place has one row and one column. *)
LEMMA Unique ==
  ASSUME NEW r \in Nat, NEW c \in 0..W-1
  PROVE r * W + c \in Nat /\ RowOf(r * W + c) = r /\ ColOf(r * W + c) = c
  <1> DEFINE k == r * W + c
  <1>1. k \in Nat
    BY Sizes
  <1> DEFINE q == RowOf(k)
             d == ColOf(k)
  <1>2. q \in Nat /\ d \in 0..W-1 /\ k = q * W + d
    BY <1>1, Split
  <1>3. r * W + c = q * W + d /\ r * W \in Nat /\ q * W \in Nat
    BY <1>2, Sizes
  <1> HIDE DEF k, q, d
  <1>4. ~(q < r)
    <2>1. q < r => q * W + W <= r * W
      BY <1>2, Ascend
    <2> QED
      BY <1>2, <1>3, <2>1, Sizes
  <1>5. ~(r < q)
    <2>1. r < q => r * W + W <= q * W
      BY <1>2, Ascend
    <2> QED
      BY <1>2, <1>3, <2>1, Sizes
  <1>6. q = r
    BY <1>2, <1>4, <1>5
  <1>7. d = c
    BY <1>2, <1>3, <1>6
  <1> QED
    BY <1>1, <1>6, <1>7 DEF k, q, d

(* Before and behind the place in row r, column c. *)
LEMMA Behind ==
  ASSUME NEW k \in Nat, NEW r \in Nat, NEW c \in 0..W-1
  PROVE k >= r * W + c <=> RowOf(k) > r \/ (RowOf(k) = r /\ ColOf(k) >= c)
  <1> DEFINE q == RowOf(k)
             d == ColOf(k)
  <1>1. q \in Nat /\ d \in 0..W-1 /\ k = q * W + d
    BY Split
  <1> HIDE DEF q, d
  <1>2. r * W \in Nat /\ q * W \in Nat
    BY <1>1, Sizes
  <1>3. k >= r * W + c <=> q > r \/ (q = r /\ d >= c)
    <2>1. CASE q = r
      BY <1>1, <1>2, <2>1, Sizes
    <2>2. CASE q < r
      <3>1. q * W + W <= r * W
        BY <1>1, <2>2, Ascend
      <3> QED
        BY <1>1, <1>2, <2>2, <3>1, Sizes
    <2>3. CASE q > r
      <3>1. r * W + W <= q * W
        BY <1>1, <2>3, Ascend
      <3> QED
        BY <1>1, <1>2, <2>3, <3>1, Sizes
    <2> QED
      BY <1>1, <2>1, <2>2, <2>3
  <1> QED
    BY <1>3 DEF q, d

(* Above a row. *)
LEMMA Above ==
  ASSUME NEW k \in Nat, NEW r \in Nat
  PROVE k < r * W <=> RowOf(k) < r
  <1>1. RowOf(k) \in Nat /\ ColOf(k) \in 0..W-1 /\ 0 \in 0..W-1 /\ r * W \in Nat
    BY Split, Sizes
  <1>2. k >= r * W + 0 <=> RowOf(k) > r \/ (RowOf(k) = r /\ ColOf(k) >= 0)
    BY <1>1, Behind
  <1> QED
    BY <1>1, <1>2

(* The cells are the rows up to the last. *)
LEMMA Within ==
  ASSUME NEW k
  PROVE /\ k \in Cells <=> k \in Nat /\ RowOf(k) <= Bottom
        /\ k \in BufCells <=> k \in Nat /\ RowOf(k) <= ROWS
  <1>1. ASSUME NEW n \in Nat
        PROVE k \in 0..((n + 1) * W - 1) <=> k \in Nat /\ RowOf(k) <= n
    <2>1. n + 1 \in Nat /\ (n + 1) * W \in Nat
      BY Sizes
    <2>2. k \in 0..((n + 1) * W - 1) <=> k \in Nat /\ k < (n + 1) * W
      BY <2>1
    <2>3. k \in Nat => (k < (n + 1) * W <=> RowOf(k) < n + 1)
      BY <2>1, Above
    <2>4. k \in Nat => RowOf(k) \in Nat
      BY Split
    <2> QED
      BY <2>2, <2>3, <2>4
  <1>2. Cells = 0..((Bottom + 1) * W - 1)
    BY Sizes DEF Cells
  <1>3. BufCells = 0..((ROWS + 1) * W - 1)
    BY Sizes DEF BufCells
  <1> QED
    BY <1>1, <1>2, <1>3, Sizes, Zenon

(* m rows further down. *)
LEMMA Shifted ==
  ASSUME NEW k \in Nat, NEW m \in Nat
  PROVE m * W + k \in Nat /\ RowOf(m * W + k) = m + RowOf(k) /\ ColOf(m * W + k) = ColOf(k)
  <1> DEFINE q == RowOf(k)
             d == ColOf(k)
  <1>1. q \in Nat /\ d \in 0..W-1 /\ k = q * W + d
    BY Split
  <1> HIDE DEF q, d
  <1>2. m * W + k = (m + q) * W + d /\ m + q \in Nat
    BY <1>1, Sizes
  <1>3. (m + q) * W + d \in Nat /\ RowOf((m + q) * W + d) = m + q /\ ColOf((m + q) * W + d) = d
    BY <1>1, <1>2, Unique
  <1> QED
    BY <1>2, <1>3 DEF q, d

(* One row further down. *)
LEMMA OneDown ==
  ASSUME NEW k \in Nat
  PROVE k + W \in Nat /\ RowOf(k + W) = RowOf(k) + 1 /\ ColOf(k + W) = ColOf(k)
  <1>1. k + W = 1 * W + k /\ RowOf(k) \in Nat
    BY Sizes, Split
  <1>2. 1 * W + k \in Nat /\ RowOf(1 * W + k) = 1 + RowOf(k) /\ ColOf(1 * W + k) = ColOf(k)
    BY Shifted
  <1> QED
    BY <1>1, <1>2

(* The next place, and the one before. *)
LEMMA Successor ==
  ASSUME NEW k \in Nat
  PROVE IF ColOf(k) + 1 < W
          THEN RowOf(k + 1) = RowOf(k) /\ ColOf(k + 1) = ColOf(k) + 1
          ELSE k + 1 = (RowOf(k) + 1) * W /\ RowOf(k + 1) = RowOf(k) + 1 /\ ColOf(k + 1) = 0
  <1> DEFINE q == RowOf(k)
             d == ColOf(k)
  <1>1. q \in Nat /\ d \in 0..W-1 /\ k = q * W + d
    BY Split
  <1> HIDE DEF q, d
  <1>2. CASE d + 1 < W
    <2>1. k + 1 = q * W + (d + 1) /\ d + 1 \in 0..W-1
      BY <1>1, <1>2, Sizes
    <2>2. RowOf(q * W + (d + 1)) = q /\ ColOf(q * W + (d + 1)) = d + 1
      BY <1>1, <2>1, Unique
    <2> QED
      BY <1>2, <2>1, <2>2 DEF q, d
  <1>3. CASE ~(d + 1 < W)
    <2>1. d + 1 = W
      BY <1>1, <1>3, Sizes
    <2>2. k + 1 = (q + 1) * W + 0 /\ k + 1 = (q + 1) * W /\ q + 1 \in Nat /\ 0 \in 0..W-1
      BY <1>1, <2>1, Sizes
    <2>3. RowOf((q + 1) * W + 0) = q + 1 /\ ColOf((q + 1) * W + 0) = 0
      BY <2>2, Unique
    <2> QED
      BY <1>3, <2>2, <2>3 DEF q, d
  <1> QED
    BY <1>2, <1>3

(* The place before: at the left edge it is the end of the row above. *)
LEMMA Predecessor ==
  ASSUME NEW k \in Nat, k > 0
  PROVE k - 1 \in Nat /\ IF ColOf(k) > 0
          THEN RowOf(k - 1) = RowOf(k) /\ ColOf(k - 1) = ColOf(k) - 1
          ELSE RowOf(k - 1) = RowOf(k) - 1 /\ ColOf(k - 1) = W - 1
  <1> DEFINE j == k - 1
  <1>1. j \in Nat /\ k = j + 1
    OBVIOUS
  <1>2. RowOf(j) \in Nat /\ ColOf(j) \in 0..W-1
    BY <1>1, Split
  <1> HIDE DEF j
  <1>3. IF ColOf(j) + 1 < W
          THEN RowOf(k) = RowOf(j) /\ ColOf(k) = ColOf(j) + 1
          ELSE RowOf(k) = RowOf(j) + 1 /\ ColOf(k) = 0
    BY <1>1, Successor
  <1>4. j \in Nat /\ IF ColOf(k) > 0
          THEN RowOf(j) = RowOf(k) /\ ColOf(j) = ColOf(k) - 1
          ELSE RowOf(j) = RowOf(k) - 1 /\ ColOf(j) = W - 1
    BY <1>1, <1>2, <1>3, Sizes
  <1> QED
    BY <1>4 DEF j

------------------------------------------------------------------------------
(* Bounds: every counter stays in its range, strayed or not.               *)

Screens == [Cells -> Unset..MaxOut]
Buffers == [BufCells -> Unset..MaxOut]

(* Every cell holds nothing, a space or a character. *)
LEMMA Glyphs == Blank \in Unset..MaxOut /\ Unset \in Unset..MaxOut /\ 1..MaxOut \subseteq Unset..MaxOut
  BY Sizes DEF Blank, Unset

(* Where the next character goes, and on what. *)
LEMMA Standing ==
  ASSUME Bounds
  PROVE /\ Here \in Cells /\ Here \in Nat /\ RowOf(Here) \in 0..Bottom /\ ColOf(Here) \in 0..W-1
        /\ Window = scrollMax /\ scrollMax \in Nat /\ bufRow \in Nat /\ bufRow <= ROWS
        /\ Shown \in Screens /\ buffer \in Buffers /\ screen \in Screens
  <1>1. /\ cursor \in Cells /\ (saved # None => saved \in Cells) /\ scrollMax \in Nat
        /\ bufRow \in 0..ROWS /\ buffer \in Buffers /\ screen \in Screens
    BY DEF Bounds, TypeOK, Screens, Buffers
  <1>2. Here \in Cells
    BY <1>1 DEF Here, Scrolled
  <1>3. Here \in Nat /\ RowOf(Here) <= Bottom
    BY <1>2, Within
  <1>4. RowOf(Here) \in Nat /\ ColOf(Here) \in 0..W-1
    BY <1>3, Split
  <1>5. Window = scrollMax
    BY DEF Bounds, Saved, Window, Scrolled
  <1>6. \A n : BufferAt(n) \in Unset..MaxOut
    BY <1>1, Glyphs DEF BufferAt, Buffers
  <1>7. \A k \in Cells : BottomScreen[k] \in Unset..MaxOut
    <2> TAKE k \in Cells
    <2>1. /\ BottomScreen[k] = Blank \/ BottomScreen[k] = BufferAt(FirstCopied * W + k)
             \/ BottomScreen[k] = screen[k]
      BY Zenon DEF BottomScreen
    <2>2. screen[k] \in Unset..MaxOut
      BY <1>1 DEF Screens
    <2> QED
      BY <1>6, <2>1, <2>2, Glyphs, Zenon
  <1>8. BottomScreen \in Screens
    <2>1. BottomScreen = [k \in Cells |-> BottomScreen[k]]
      BY DEF BottomScreen
    <2> QED
      BY <1>7, <2>1, Zenon DEF Screens
  <1>9. Shown \in Screens
    BY <1>1, <1>8 DEF Shown
  <1> QED
    BY <1>1, <1>2, <1>3, <1>4, <1>5, <1>9, Sizes

(* The pieces of a scroll. *)
LEMMA UpType ==
  ASSUME NEW scr \in Screens
  PROVE Up(scr) \in Screens
  <1>1. ASSUME NEW k \in Cells, k < Bottom * W PROVE k + W \in Cells
    <2>1. k \in Nat /\ RowOf(k) \in Nat /\ RowOf(k) < Bottom
      BY <1>1, Within, Above, Split, Sizes
    <2>2. k + W \in Nat /\ RowOf(k + W) = RowOf(k) + 1
      BY <2>1, OneDown
    <2> QED
      BY <2>1, <2>2, Within, Sizes
  <1>2. \A k \in Cells : (IF k < Bottom * W THEN scr[k + W] ELSE Blank) \in Unset..MaxOut
    BY <1>1, Glyphs DEF Screens
  <1> QED
    BY <1>2 DEF Up, Screens

(* A buffer lifted is a buffer. *)
LEMMA LiftedType ==
  ASSUME NEW buf \in Buffers, bufRow \in Nat, bufRow <= ROWS
  PROVE Lifted(buf) \in Buffers
  <1>1. ASSUME NEW k \in BufCells, k < bufRow * W PROVE k + W \in BufCells
    <2>1. k \in Nat /\ RowOf(k) \in Nat /\ RowOf(k) < bufRow
      BY <1>1, Within, Above, Split
    <2>2. k + W \in Nat /\ RowOf(k + W) = RowOf(k) + 1
      BY <2>1, OneDown
    <2> QED
      BY <2>1, <2>2, Within, Sizes
  <1>2. ASSUME NEW k \in BufCells PROVE Lifted(buf)[k] \in Unset..MaxOut
    <2>1. \/ k < bufRow * W /\ Lifted(buf)[k] = buf[k + W]
          \/ Lifted(buf)[k] = Blank \/ Lifted(buf)[k] = buf[k]
      BY DEF Lifted
    <2> QED
      BY <1>1, <2>1, Glyphs DEF Buffers
  <1>3. Lifted(buf) = [k \in BufCells |-> Lifted(buf)[k]]
    BY DEF Lifted
  <1> QED
    BY <1>2, <1>3, Zenon DEF Buffers

(* A new row keeps the bounds. *)
BoundsAtRow ==
  /\ screen' \in Screens /\ cursor' \in Cells /\ buffer' \in Buffers
  /\ bufRow' \in 0..ROWS /\ scrollMax' \in Nat /\ scrollPos' = scrollMax'
  /\ scrollMax' <= bufRow'
  /\ bufRow' < ROWS => scrollMax' + RowOf(cursor') <= bufRow'

(* A new row keeps the bounds: it is the next on the screen or its last. *)
LEMMA NextRowBounds ==
  ASSUME Bounds, mode # "clear", NEW scr \in Screens, NEW buf \in Buffers, NextRow(scr, buf)
  PROVE /\ BoundsAtRow /\ bufCol' = 0 /\ ColOf(cursor') = 0
        /\ IF RowOf(Here) < Bottom THEN cursor' = (RowOf(Here) + 1) * W ELSE cursor' = Bottom * W
  <1>1. /\ RowOf(Here) \in 0..Bottom /\ Window = scrollMax /\ scrollMax \in Nat
        /\ bufRow \in Nat /\ bufRow <= ROWS
    BY Standing
  <1>2. scrollMax <= bufRow /\ (bufRow < ROWS => scrollMax + RowOf(Here) <= bufRow)
    BY DEF Bounds, Rows
  <1>3. bufRow' = (IF bufRow < ROWS THEN bufRow + 1 ELSE bufRow) /\ bufCol' = 0
    BY DEF NextRow, FollowingRow
  <1>4. ASSUME NEW r \in 0..Bottom
        PROVE r * W \in Cells /\ RowOf(r * W) = r /\ ColOf(r * W) = 0
    <2>1. 0 \in 0..W-1 /\ r \in Nat /\ r * W + 0 = r * W
      BY Sizes
    <2>2. r * W + 0 \in Nat /\ RowOf(r * W + 0) = r /\ ColOf(r * W + 0) = 0
      BY <2>1, Unique
    <2> QED
      BY <2>1, <2>2, Within
  <1>5. CASE RowOf(Here) < Bottom
    <2>1. /\ cursor' = (RowOf(Here) + 1) * W /\ screen' = scr /\ buffer' = buf
          /\ scrollPos' = scrollMax /\ scrollMax' = scrollMax
      BY <1>1, <1>5 DEF NextRow
    <2>2. RowOf(Here) + 1 \in 0..Bottom
      BY <1>1, <1>5, Sizes
    <2>3. cursor' \in Cells /\ RowOf(cursor') = RowOf(Here) + 1 /\ ColOf(cursor') = 0
      BY <1>4, <2>1, <2>2
    <2>4. bufRow' \in 0..ROWS /\ scrollMax' <= bufRow'
          /\ (bufRow' < ROWS => scrollMax' + RowOf(cursor') <= bufRow')
      BY <1>1, <1>2, <1>3, <2>1, <2>3, Sizes
    <2> QED
      BY <1>1, <1>3, <1>5, <2>1, <2>3, <2>4 DEF BoundsAtRow
  <1>6. CASE ~(RowOf(Here) < Bottom)
    <2>1. MakeRoom(scr) /\ buffer' = RoomBuffer(buf)
      BY <1>6 DEF NextRow
    <2>2. /\ screen' = Up(scr) /\ cursor' = Bottom * W
          /\ scrollMax' = IF Room THEN scrollMax + 1 ELSE scrollMax
          /\ scrollPos' = IF ~Room THEN scrollMax ELSE scrollMax + 1
          /\ buffer' = IF ~Room THEN Lifted(buf) ELSE buf
      BY <1>1, <2>1 DEF MakeRoom, RoomBuffer
    <2>3. cursor' \in Cells /\ RowOf(cursor') = Bottom /\ ColOf(cursor') = 0
      BY <1>4, <2>2, Sizes
    <2>4. screen' \in Screens /\ buffer' \in Buffers
      BY <1>1, <2>2, UpType, LiftedType
    <2>5. RowOf(Here) = Bottom
      BY <1>1, <1>6, Sizes
    <2>6. /\ bufRow' \in 0..ROWS /\ scrollMax' \in Nat /\ scrollPos' = scrollMax'
          /\ scrollMax' <= bufRow'
          /\ (bufRow' < ROWS => scrollMax' + RowOf(cursor') <= bufRow')
      BY <1>1, <1>2, <1>3, <2>2, <2>3, <2>5, Sizes DEF Room
    <2> QED
      BY <1>3, <1>6, <2>2, <2>3, <2>4, <2>6 DEF BoundsAtRow
  <1> QED
    BY <1>5, <1>6

(* A character printed moves to the next place, or to the bottom. *)
LEMMA PutBounds ==
  ASSUME Bounds, mode # "clear", NEW c \in 1..MaxOut, Put(c)
  PROVE /\ BoundsAtRow
        /\ \/ bufCol' = bufCol + 1 /\ ColOf(cursor') = ColOf(Here) + 1 /\ cursor' = Here + 1
           \/ bufCol' = 0 /\ ColOf(cursor') = 0 /\ (cursor' = Here + 1 \/ cursor' = Bottom * W)
  <1> DEFINE scr == [Shown EXCEPT ![Here] = c]
             buf == [buffer EXCEPT ![bufRow * W + bufCol] = c]
  <1>1. /\ Here \in Cells /\ Here \in Nat /\ RowOf(Here) \in 0..Bottom /\ ColOf(Here) \in 0..W-1
        /\ Window = scrollMax /\ scrollMax \in Nat /\ bufRow \in Nat /\ bufRow <= ROWS
        /\ Shown \in Screens /\ buffer \in Buffers
    BY Standing
  <1>2. c \in Unset..MaxOut
    BY Glyphs
  <1>3. scr \in Screens /\ buf \in Buffers
    BY <1>1, <1>2 DEF Screens, Buffers
  <1>4. IF ColOf(Here) + 1 < W
          THEN /\ screen' = scr /\ buffer' = buf /\ cursor' = Here + 1
               /\ bufCol' = bufCol + 1 /\ scrollPos' = Window
               /\ bufRow' = bufRow /\ scrollMax' = scrollMax
          ELSE NextRow(scr, buf)
    BY Zenon DEF Put
  <1>5. IF ColOf(Here) + 1 < W
          THEN RowOf(Here + 1) = RowOf(Here) /\ ColOf(Here + 1) = ColOf(Here) + 1
          ELSE Here + 1 = (RowOf(Here) + 1) * W /\ RowOf(Here + 1) = RowOf(Here) + 1 /\ ColOf(Here + 1) = 0
    BY <1>1, Successor
  <1> HIDE DEF scr, buf
  <1>6. CASE ColOf(Here) + 1 < W
    <2>1. scrollMax <= bufRow /\ (bufRow < ROWS => scrollMax + RowOf(Here) <= bufRow)
      BY DEF Bounds, Rows
    <2>2. Here + 1 \in Nat /\ RowOf(Here + 1) <= Bottom
      BY <1>1, <1>5, <1>6, Sizes
    <2>3. Here + 1 \in Cells
      BY <2>2, Within
    <2> QED
      BY <1>1, <1>3, <1>4, <1>5, <1>6, <2>1, <2>3, Sizes DEF BoundsAtRow
  <1>7. CASE ~(ColOf(Here) + 1 < W)
    <2>1. NextRow(scr, buf)
      BY <1>4, <1>7
    <2>2. /\ BoundsAtRow /\ bufCol' = 0 /\ ColOf(cursor') = 0
          /\ IF RowOf(Here) < Bottom THEN cursor' = (RowOf(Here) + 1) * W ELSE cursor' = Bottom * W
      BY <1>3, <2>1, NextRowBounds
    <2> QED
      BY <1>5, <1>7, <2>2
  <1> QED
    BY <1>6, <1>7

(* What must hold after printing for the bounds to hold again. *)
LEMMA Landed ==
  ASSUME BoundsAtRow, saved' = None, mode' \in {"output", "input"},
         bufCol' \in Int, bufCol' <= ColOf(cursor'),
         bufCol' >= IF mode' = "input" THEN typed' - MaxTyped ELSE 0,
         mode' = "input" => lastCol' # 0 /\ typed' <= cursor',
         linesCleared' \in Nat, lastCol' \in 0..W-1, typed' \in 0..MaxTyped,
         toClear' \in [left : 0..Bottom, rows : 0..Bottom],
         out' \in 0..MaxOut, strayed' \subseteq {"backspace", "bottom", "full"}
  PROVE Bounds'
  <1>1. Here' = cursor'
    BY DEF Here, Scrolled
  <1>2. cursor' \in Nat /\ ColOf(cursor') \in 0..W-1
    <2>1. cursor' \in Nat
      BY Within DEF BoundsAtRow
    <2> QED
      BY <2>1, Split
  <1>3. mode' # "clear"
    OBVIOUS
  <1>4. bufCol' \in -MaxTyped..W-1
    <2>1. \A b \in Int : \A t \in 0..MaxTyped : b >= t - MaxTyped \/ b >= 0 => b >= -MaxTyped
      <3>1. MaxTyped \in Nat
        BY Sizes
      <3> QED
        BY <3>1
    <2>2. bufCol' >= typed' - MaxTyped \/ bufCol' >= 0
      OBVIOUS
    <2>3. bufCol' >= -MaxTyped
      BY <2>1, <2>2, Zenon
    <2> QED
      BY <1>2, <2>3, Sizes
  <1>5. TypeOK'
    <2>1. /\ screen' \in Screens /\ cursor' \in Cells /\ buffer' \in Buffers
          /\ bufRow' \in 0..ROWS /\ scrollMax' \in Nat /\ scrollPos' = scrollMax'
      BY DEF BoundsAtRow
    <2>2. scrollPos' \in 0..scrollMax'
      BY <2>1
    <2>3. mode' \in {"output", "clear", "input"} /\ saved' \in Cells \cup {None}
      OBVIOUS
    <2> QED
      BY <1>4, <2>1, <2>2, <2>3, Zenon DEF TypeOK, Screens, Buffers
  <1>6. Saved'
    BY <1>3 DEF Saved, BoundsAtRow
  <1>7. Columns'
    BY <1>1, <1>3 DEF Columns
  <1>8. Rows'
    BY <1>1, <1>3 DEF Rows, BoundsAtRow
  <1> QED
    BY <1>5, <1>6, <1>7, <1>8 DEF Bounds

(* The ways of straying are the three. *)
LEMMA Ways == /\ AtBottomCopy \subseteq {"bottom"} /\ AtFullRow \subseteq {"full"}
  BY DEF AtBottomCopy, AtFullRow

(* The state in numbers. *)
LEMMA Numbers ==
  ASSUME Bounds
  PROVE /\ bufCol \in Int /\ bufCol <= ColOf(Here)
        /\ bufCol >= IF mode = "input" THEN typed - MaxTyped ELSE 0
        /\ mode = "input" => lastCol # 0 /\ typed <= Here
        /\ linesCleared \in Nat /\ lastCol \in 0..W-1 /\ typed \in 0..MaxTyped
        /\ toClear \in [left : 0..Bottom, rows : 0..Bottom]
        /\ out \in 0..MaxOut /\ strayed \subseteq {"backspace", "bottom", "full"}
        /\ scrollMax <= bufRow /\ scrollPos \in 0..scrollMax
  <1>1. bufCol \in -MaxTyped..W-1
    BY DEF Bounds, TypeOK
  <1>2. bufCol \in Int
    BY <1>1, Sizes
  <1> QED
    BY <1>2 DEF Bounds, TypeOK, Columns, Rows

(* A character of the kernel keeps the bounds. *)
LEMMA OutputBounds == ASSUME Bounds, Output PROVE Bounds'
  <1>1. /\ mode = "output" /\ out < MaxOut /\ Put(out + 1)
        /\ lastCol' = ColOf(Here) /\ saved' = None /\ out' = out + 1
        /\ linesCleared' = linesCleared /\ mode' = mode /\ typed' = typed /\ toClear' = toClear
    BY DEF Output, Ink, control
  <1>2. /\ bufCol \in Int /\ bufCol >= 0 /\ bufCol <= ColOf(Here) /\ out \in 0..MaxOut
        /\ linesCleared \in Nat /\ typed \in 0..MaxTyped
        /\ toClear \in [left : 0..Bottom, rows : 0..Bottom]
        /\ strayed \subseteq {"backspace", "bottom", "full"}
    BY <1>1, Numbers
  <1>3. out + 1 \in 1..MaxOut
    BY <1>1, <1>2, Sizes
  <1>4. /\ BoundsAtRow
        /\ \/ bufCol' = bufCol + 1 /\ ColOf(cursor') = ColOf(Here) + 1
           \/ bufCol' = 0 /\ ColOf(cursor') = 0
    BY <1>1, <1>3, PutBounds
  <1>5. ColOf(Here) \in 0..W-1
    BY Standing
  <1>6. bufCol' \in Int /\ bufCol' <= ColOf(cursor') /\ bufCol' >= 0
    BY <1>2, <1>4, <1>5
  <1>7. strayed' \subseteq {"backspace", "bottom", "full"}
    BY <1>1, <1>2, Ways DEF Put
  <1>8. out' \in 0..MaxOut
    BY <1>1, <1>3
  <1>9. mode' = "output"
    BY <1>1
  <1> QED
    BY <1>1, <1>2, <1>4, <1>5, <1>6, <1>7, <1>8, <1>9, Landed

(* A buffer whose last row is blanked to its end is a buffer. *)
LEMMA FilledType ==
  ASSUME Bounds
  PROVE Filled \in Buffers
  <1>1. buffer \in Buffers
    BY Standing
  <1>2. \A k \in BufCells : Filled[k] \in Unset..MaxOut
    BY <1>1, Glyphs DEF Filled, Buffers
  <1>3. Filled = [k \in BufCells |-> Filled[k]]
    BY DEF Filled
  <1> QED
    BY <1>2, <1>3, Zenon DEF Buffers

(* A line feed, printed or typed, ends in output. *)
LEMMA LineFeedBounds ==
  ASSUME Bounds, mode # "clear", PutLineFeed, out < MaxOut, out' = out + 1, saved' = None,
         mode' = "output", typed' \in 0..MaxTyped, UNCHANGED <<linesCleared, lastCol, toClear>>
  PROVE Bounds'
  <1>1. /\ linesCleared \in Nat /\ lastCol \in 0..W-1 /\ out \in 0..MaxOut
        /\ toClear \in [left : 0..Bottom, rows : 0..Bottom]
        /\ strayed \subseteq {"backspace", "bottom", "full"}
    BY Numbers
  <1>2. NextRow(Shown, Filled) /\ strayed' = strayed \cup AtBottomCopy \cup AtFullRow
    BY DEF PutLineFeed
  <1>3. BoundsAtRow /\ bufCol' = 0 /\ ColOf(cursor') = 0
    BY <1>2, Standing, FilledType, NextRowBounds
  <1>4. strayed' \subseteq {"backspace", "bottom", "full"}
    BY <1>1, <1>2, Ways
  <1>5. out' \in 0..MaxOut
    BY <1>1, Sizes
  <1> QED
    BY <1>1, <1>3, <1>4, <1>5, Landed

(* So does its line feed, *)
LEMMA OutputLineFeedBounds == ASSUME Bounds, OutputLineFeed PROVE Bounds'
  <1>1. /\ mode # "clear" /\ PutLineFeed /\ out < MaxOut /\ out' = out + 1 /\ saved' = None
        /\ mode' = "output" /\ typed' = typed /\ UNCHANGED <<linesCleared, lastCol, toClear>>
    BY DEF OutputLineFeed, control
  <1>2. typed \in 0..MaxTyped
    BY Numbers
  <1> QED
    BY <1>1, <1>2, LineFeedBounds

(* and the return key's. *)
LEMMA ReturnBounds == ASSUME Bounds, Return PROVE Bounds'
  <1>1. /\ mode # "clear" /\ PutLineFeed /\ out < MaxOut /\ out' = out + 1 /\ saved' = None
        /\ mode' = "output" /\ typed' = 0 /\ UNCHANGED <<linesCleared, lastCol, toClear>>
    BY DEF Return
  <1>2. 0 \in 0..MaxTyped
    BY Sizes
  <1> QED
    BY <1>1, <1>2, LineFeedBounds

(* A typed character keeps the bounds, and gives the line one cell to take back. *)
LEMMA TypeBounds == ASSUME Bounds, Type PROVE Bounds'
  <1>1. /\ mode = "input" /\ mode' = "input" /\ typed < MaxTyped /\ out < MaxOut /\ Put(out + 1)
        /\ saved' = None /\ typed' = typed + 1 /\ out' = out + 1
        /\ linesCleared' = linesCleared /\ lastCol' = lastCol /\ toClear' = toClear
    BY DEF Type, Ink
  <1>2. /\ bufCol \in Int /\ bufCol >= typed - MaxTyped /\ bufCol <= ColOf(Here) /\ out \in 0..MaxOut
        /\ linesCleared \in Nat /\ typed \in 0..MaxTyped /\ lastCol # 0 /\ typed <= Here
        /\ toClear \in [left : 0..Bottom, rows : 0..Bottom] /\ lastCol \in 0..W-1
        /\ strayed \subseteq {"backspace", "bottom", "full"}
    BY <1>1, Numbers
  <1>3. out + 1 \in 1..MaxOut
    BY <1>1, <1>2, Sizes
  <1>4. /\ BoundsAtRow
        /\ \/ bufCol' = bufCol + 1 /\ ColOf(cursor') = ColOf(Here) + 1 /\ cursor' = Here + 1
           \/ bufCol' = 0 /\ ColOf(cursor') = 0 /\ (cursor' = Here + 1 \/ cursor' = Bottom * W)
    BY <1>1, <1>3, PutBounds
  <1>5. ColOf(Here) \in 0..W-1 /\ Here \in Nat
    BY Standing
  <1>6. /\ bufCol' \in Int /\ bufCol' <= ColOf(cursor') /\ bufCol' >= typed' - MaxTyped
        /\ typed' <= cursor' /\ typed' \in 0..MaxTyped
    BY <1>1, <1>2, <1>4, <1>5, Sizes
  <1>7. strayed' \subseteq {"backspace", "bottom", "full"}
    BY <1>1, <1>2, Ways DEF Put
  <1>8. out' \in 0..MaxOut
    BY <1>1, <1>3
  <1> QED
    BY <1>1, <1>2, <1>4, <1>6, <1>7, <1>8, Landed

(* A backspace takes back no more than was typed, so the cursor stays on the screen. *)
LEMMA BackspaceBounds == ASSUME Bounds, Backspace PROVE Bounds'
  <1>1. /\ mode = "input" /\ mode' = "input" /\ typed > 0 /\ PutBackspace /\ saved' = None
        /\ typed' = typed - 1 /\ out' = out
        /\ linesCleared' = linesCleared /\ lastCol' = lastCol /\ toClear' = toClear
    BY DEF Backspace
  <1>2. /\ bufCol \in Int /\ bufCol >= typed - MaxTyped /\ bufCol <= ColOf(Here) /\ out \in 0..MaxOut
        /\ linesCleared \in Nat /\ typed \in 0..MaxTyped /\ lastCol # 0 /\ typed <= Here
        /\ toClear \in [left : 0..Bottom, rows : 0..Bottom] /\ lastCol \in 0..W-1
        /\ strayed \subseteq {"backspace", "bottom", "full"}
        /\ scrollMax <= bufRow
    BY <1>1, Numbers
  <1>3. /\ Here \in Cells /\ Here \in Nat /\ RowOf(Here) \in 0..Bottom /\ ColOf(Here) \in 0..W-1
        /\ Window = scrollMax /\ scrollMax \in Nat /\ bufRow \in Nat /\ bufRow <= ROWS
        /\ Shown \in Screens /\ buffer \in Buffers
    BY Standing
  <1>4. /\ cursor' = Here - 1 /\ bufCol' = bufCol - 1
        /\ screen' = [Shown EXCEPT ![Erased] = Blank]
        /\ \E n : buffer' = [buffer EXCEPT ![n] = Blank]
        /\ strayed' = strayed \cup AtBottomCopy \cup (IF ColOf(Here) = 0 THEN {"backspace"} ELSE {})
        /\ scrollPos' = Window /\ bufRow' = bufRow /\ scrollMax' = scrollMax
    BY <1>1, <1>2, Zenon DEF PutBackspace
  <1>5. Here > 0
    BY <1>1, <1>2, <1>3
  <1>6. Here - 1 \in Nat /\ IF ColOf(Here) > 0
          THEN RowOf(Here - 1) = RowOf(Here) /\ ColOf(Here - 1) = ColOf(Here) - 1
          ELSE RowOf(Here - 1) = RowOf(Here) - 1 /\ ColOf(Here - 1) = W - 1
    BY <1>3, <1>5, Predecessor
  <1>7. Here - 1 \in Cells
    BY <1>3, <1>6, Within, Sizes
  <1>8. bufRow < ROWS => scrollMax + RowOf(Here) <= bufRow
    BY <1>1 DEF Bounds, Rows
  <1>9. screen' \in Screens /\ buffer' \in Buffers
    BY <1>3, <1>4, Glyphs DEF Screens, Buffers
  <1>10. BoundsAtRow
    <2>1. bufRow < ROWS => scrollMax + RowOf(Here - 1) <= bufRow
      BY <1>3, <1>6, <1>8, Sizes
    <2> QED
      BY <1>2, <1>3, <1>4, <1>7, <1>9, <2>1, Sizes DEF BoundsAtRow
  <1>11. /\ bufCol' \in Int /\ bufCol' <= ColOf(cursor') /\ bufCol' >= typed' - MaxTyped
         /\ typed' <= cursor' /\ typed' \in 0..MaxTyped
    BY <1>1, <1>2, <1>3, <1>4, <1>6, Sizes
  <1>12. strayed' \subseteq {"backspace", "bottom", "full"}
    BY <1>2, <1>4, Ways
  <1> QED
    BY <1>1, <1>2, <1>10, <1>11, <1>12, Landed

(* The prompt starts a line with nothing typed. *)
LEMMA PromptBounds == ASSUME Bounds, Prompt PROVE Bounds'
  <1>1. /\ mode = "output" /\ lastCol # 0 /\ ColOf(cursor) = lastCol + 1
        /\ mode' = "input" /\ typed' = 0
        /\ UNCHANGED <<screen, cursor, buffer, bufRow, bufCol, scrollPos, scrollMax, linesCleared,
                       saved, lastCol, toClear, out, strayed>>
    BY DEF Prompt, counters
  <1>2. Here' = Here /\ Here \in Nat
    BY <1>1, Standing DEF Here, Scrolled
  <1>3. TypeOK'
    <2>1. TypeOK /\ 0 \in 0..MaxTyped
      BY Sizes DEF Bounds
    <2> QED
      BY <1>1, <2>1 DEF TypeOK
  <1>4. Saved'
    BY <1>1 DEF Bounds, Saved
  <1>5. Columns'
    <2>1. bufCol \in Int /\ bufCol >= 0 /\ bufCol <= ColOf(Here)
      BY <1>1, Numbers
    <2>2. bufCol >= 0 - MaxTyped /\ 0 <= Here
      BY <1>2, <2>1, Sizes
    <2>3. RowOf(Here)' = RowOf(Here) /\ ColOf(Here)' = ColOf(Here)
      BY <1>2 DEF RowOf, ColOf
    <2> QED
      BY <1>1, <1>2, <2>1, <2>2, <2>3 DEF Columns
  <1>6. Rows'
    BY <1>1, <1>2 DEF Bounds, Rows, RowOf
  <1> QED
    BY <1>3, <1>4, <1>5, <1>6 DEF Bounds

(* Clearing begins at the left edge, with the rows above the cursor to go. *)
LEMMA ClearBounds == ASSUME Bounds, Clear PROVE Bounds'
  <1>1. /\ mode = "output" /\ ColOf(cursor) = 0 /\ out < MaxOut
        /\ mode' = "clear" /\ out' = out + 1
        /\ toClear' = [left |-> RowOf(cursor), rows |-> RowOf(cursor)]
        /\ UNCHANGED <<screen, cursor, buffer, bufRow, bufCol, scrollPos, scrollMax, linesCleared,
                       saved, lastCol, typed, strayed>>
    BY DEF Clear, counters
  <1>2. saved = None /\ Here = cursor
    BY <1>1 DEF Bounds, Saved, Here, Scrolled
  <1>3. RowOf(cursor) \in 0..Bottom /\ bufCol \in Int /\ bufCol >= 0 /\ bufCol <= 0 /\ out \in 0..MaxOut
    BY <1>1, <1>2, Standing, Numbers
  <1>4. toClear'.left = RowOf(cursor) /\ toClear'.rows = RowOf(cursor)
        /\ toClear' \in [left : 0..Bottom, rows : 0..Bottom]
    BY <1>1, <1>3
  <1>5. Here' = Here /\ ColOf(Here)' = ColOf(Here)
    BY <1>1 DEF Here, Scrolled, ColOf
  <1>6. TypeOK'
    <2>1. TypeOK /\ out' \in 0..MaxOut
      BY <1>1, <1>3, Sizes DEF Bounds
    <2> QED
      BY <1>1, <1>4, <2>1 DEF TypeOK
  <1>7. Saved'
    BY <1>1, <1>2 DEF Bounds, Saved
  <1>8. Columns'
    BY <1>1, <1>2, <1>3, <1>4, <1>5 DEF Columns
  <1>9. Rows'
    BY <1>1, <1>2, <1>4 DEF Bounds, Rows
  <1> QED
    BY <1>6, <1>7, <1>8, <1>9 DEF Bounds

(* The bottom row begins in column 0. *)
LEMMA AtBottom == Bottom * W \in Cells /\ RowOf(Bottom * W) = Bottom /\ ColOf(Bottom * W) = 0
  <1>1. 0 \in 0..W-1 /\ Bottom \in Nat /\ Bottom * W + 0 = Bottom * W
    BY Sizes
  <1>2. Bottom * W + 0 \in Nat /\ RowOf(Bottom * W + 0) = Bottom /\ ColOf(Bottom * W + 0) = 0
    BY <1>1, Unique
  <1> QED
    BY <1>1, <1>2, Within

(* The first cell of the screen. *)
LEMMA AtTop == 0 \in Cells /\ RowOf(0) = 0 /\ ColOf(0) = 0
  <1>1. 0 \in 0..W-1 /\ 0 * W + 0 = 0 /\ 0 \in Nat
    BY Sizes
  <1>2. RowOf(0 * W + 0) = 0 /\ ColOf(0 * W + 0) = 0
    BY <1>1, Unique
  <1> QED
    BY <1>1, <1>2, Within, Sizes

(* A row cleared keeps the bounds. *)
LEMMA ClearRowBounds == ASSUME Bounds, ClearRow PROVE Bounds'
  <1>1. /\ mode = "clear" /\ mode' = "clear" /\ toClear.left > 0
        /\ MakeRoom(screen) /\ buffer' = RowBlanked(RoomBuffer(buffer))
        /\ toClear' = [toClear EXCEPT !.left = @ - 1]
        /\ strayed' = strayed \cup (IF bufRow = ROWS THEN {"full"} ELSE {})
        /\ UNCHANGED <<bufRow, bufCol, linesCleared, saved, lastCol, typed, out>>
    BY DEF ClearRow
  <1>2. /\ saved = None /\ Window = scrollMax /\ scrollMax \in Nat /\ bufRow \in Nat /\ bufRow <= ROWS
        /\ screen \in Screens /\ buffer \in Buffers
    BY <1>1, Standing DEF Bounds, Saved
  <1>3. /\ toClear \in [left : 0..Bottom, rows : 0..Bottom] /\ strayed \subseteq {"backspace", "bottom", "full"}
        /\ scrollMax <= bufRow
    BY Numbers
  <1>4. /\ screen' = Up(screen) /\ cursor' = Bottom * W
        /\ scrollMax' = IF Room THEN scrollMax + 1 ELSE scrollMax
        /\ scrollPos' = IF ~Room THEN scrollMax ELSE scrollMax + 1
        /\ buffer' = RowBlanked(IF ~Room THEN Lifted(buffer) ELSE buffer)
    BY <1>1, <1>2 DEF MakeRoom, RoomBuffer
  <1>5. toClear'.left = toClear.left - 1 /\ toClear'.rows = toClear.rows
        /\ toClear' \in [left : 0..Bottom, rows : 0..Bottom]
    BY <1>1, <1>3, Sizes
  <1>6. screen' \in Screens /\ cursor' \in Cells /\ ColOf(cursor') = 0
    BY <1>2, <1>4, UpType, AtBottom
  <1>7. buffer' \in Buffers
    <2> DEFINE buf == IF ~Room THEN Lifted(buffer) ELSE buffer
    <2>1. buf \in Buffers
      BY <1>2, LiftedType
    <2> HIDE DEF buf
    <2>2. \A k \in BufCells : RowBlanked(buf)[k] \in Unset..MaxOut
      BY <2>1, Glyphs DEF RowBlanked, Buffers
    <2>3. RowBlanked(buf) = [k \in BufCells |-> RowBlanked(buf)[k]]
      BY DEF RowBlanked
    <2>4. RowBlanked(buf) \in Buffers
      BY <2>2, <2>3, Zenon DEF Buffers
    <2> QED
      BY <1>4, <2>4 DEF buf
  <1>8. /\ scrollMax' \in Nat /\ scrollPos' = scrollMax' /\ scrollMax' <= bufRow'
        /\ (bufRow' < ROWS => scrollMax' + toClear'.left <= bufRow')
    <2>1. bufRow < ROWS => scrollMax + toClear.left <= bufRow
      BY <1>1 DEF Bounds, Rows
    <2> QED
      BY <1>1, <1>2, <1>3, <1>4, <1>5, <2>1, Sizes DEF Room
  <1>9. TypeOK'
    <2>1. TypeOK
      BY DEF Bounds
    <2>2. strayed' \subseteq {"backspace", "bottom", "full"} /\ scrollPos' \in 0..scrollMax'
      BY <1>1, <1>3, <1>8
    <2> QED
      BY <1>1, <1>5, <1>6, <1>7, <1>8, <2>1, <2>2 DEF TypeOK, Screens, Buffers
  <1>10. Saved'
    BY <1>1, <1>2, <1>8 DEF Saved
  <1>11. Columns'
    <2>1. bufCol = 0 /\ toClear.left <= toClear.rows
      BY <1>1 DEF Bounds, Columns
    <2>2. Here' = cursor'
      BY <1>1, <1>2 DEF Here, Scrolled
    <2>3. toClear'.left <= toClear'.rows
      BY <1>3, <1>5, <2>1
    <2> QED
      BY <1>1, <1>6, <2>1, <2>2, <2>3 DEF Columns
  <1>12. Rows'
    BY <1>1, <1>8 DEF Rows
  <1> QED
    BY <1>9, <1>10, <1>11, <1>12 DEF Bounds

(* At the end of clearing the cursor is on the first cell. *)
LEMMA ClearEndsBounds == ASSUME Bounds, ClearEnds PROVE Bounds'
  <1>1. /\ mode = "clear" /\ mode' = "output" /\ toClear.left = 0
        /\ cursor' = 0 /\ linesCleared' = linesCleared + toClear.rows
        /\ toClear' = [left |-> 0, rows |-> 0]
        /\ UNCHANGED <<screen, buffer, bufRow, bufCol, scrollPos, scrollMax, saved, lastCol, typed, out, strayed>>
    BY DEF ClearEnds
  <1>2. saved = None /\ Here' = 0
    BY <1>1 DEF Bounds, Saved, Here, Scrolled
  <1>3. /\ toClear \in [left : 0..Bottom, rows : 0..Bottom] /\ linesCleared \in Nat
        /\ bufCol = 0 /\ scrollMax <= bufRow /\ scrollMax \in Nat /\ bufRow \in Nat
    BY <1>1, Numbers, Standing DEF Bounds, Columns
  <1>4. TypeOK'
    <2>1. TypeOK
      BY DEF Bounds
    <2>2. linesCleared' \in Nat /\ toClear' \in [left : 0..Bottom, rows : 0..Bottom] /\ cursor' \in Cells
      BY <1>1, <1>3, AtTop, Sizes
    <2> QED
      BY <1>1, <2>1, <2>2 DEF TypeOK
  <1>5. Saved'
    BY <1>1 DEF Bounds, Saved
  <1>6. Columns'
    BY <1>1, <1>2, <1>3, AtTop DEF Columns
  <1>7. Rows'
    <2>1. RowOf(Here') = 0
      BY <1>2, AtTop
    <2> QED
      BY <1>1, <1>3, <2>1 DEF Rows
  <1> QED
    BY <1>4, <1>5, <1>6, <1>7 DEF Bounds

(* Scrolling back reads rows the buffer has, and saves the cursor. *)
LEMMA PageUpBounds == ASSUME Bounds, PageUp PROVE Bounds'
  <1>1. /\ mode = "input" /\ scrollPos > 0 /\ scrollPos' = scrollPos - 1
        /\ saved' = IF saved = None THEN cursor ELSE saved
        /\ screen' = [k \in Cells |-> IF k < W THEN FromBuffer(scrollPos - 1)[k] ELSE screen[k - W]]
        /\ UNCHANGED <<cursor, buffer, bufRow, bufCol, scrollMax, linesCleared, lastCol,
                       mode, typed, toClear, out, strayed>>
    BY DEF PageUp, control
  <1>2. /\ scrollPos \in 0..scrollMax /\ scrollMax \in Nat /\ bufRow \in Nat /\ scrollMax <= bufRow
        /\ bufRow <= ROWS /\ screen \in Screens /\ buffer \in Buffers
    BY Standing, Numbers
  <1>3. cursor \in Cells /\ saved \in Cells \cup {None}
    BY DEF Bounds, TypeOK
  <1>4. None \notin Cells
    BY Within DEF None
  <1>5. Here' = Here /\ saved' # None /\ saved' \in Cells
    BY <1>1, <1>3, <1>4 DEF Here, Scrolled
  <1>6. \A k \in Cells : (IF k < W THEN FromBuffer(scrollPos - 1)[k] ELSE screen[k - W]) \in Unset..MaxOut
    <2> TAKE k \in Cells
    <2>1. k \in Nat /\ RowOf(k) \in Nat /\ RowOf(k) <= Bottom
      BY Within, Split
    <2>2. CASE k < W
      <3>1. scrollPos - 1 \in Nat /\ k \in 0..W-1 /\ scrollPos - 1 <= ROWS
        BY <1>1, <1>2, <2>1, <2>2, Sizes
      <3>2. (scrollPos - 1) * W + k \in BufCells
        BY <3>1, Unique, Within
      <3>3. FromBuffer(scrollPos - 1)[k] = buffer[(scrollPos - 1) * W + k]
        BY <3>1 DEF FromBuffer
      <3> QED
        BY <1>2, <2>2, <3>2, <3>3 DEF Buffers
    <2>3. CASE ~(k < W)
      <3>1. k - W \in Nat /\ (k - W) + W = k
        BY <2>1, <2>3, Sizes
      <3>2. RowOf((k - W) + W) = RowOf(k - W) + 1 /\ RowOf(k - W) \in Nat
        BY <3>1, OneDown, Split
      <3>3. k - W \in Cells
        BY <2>1, <3>1, <3>2, Within, Sizes
      <3> QED
        BY <1>2, <2>3, <3>3 DEF Screens
    <2> QED
      BY <2>2, <2>3
  <1>7. screen' \in Screens
    BY <1>1, <1>6 DEF Screens
  <1>8. TypeOK'
    <2>1. TypeOK
      BY DEF Bounds
    <2>2. scrollPos' \in 0..scrollMax'
      BY <1>1, <1>2
    <2> QED
      BY <1>1, <1>5, <1>7, <2>1, <2>2 DEF TypeOK, Screens
  <1>9. Saved'
    BY <1>1, <1>2, <1>5 DEF Saved
  <1>10. Columns'
    <2>1. ColOf(Here)' = ColOf(Here)
      BY <1>5 DEF ColOf
    <2> QED
      BY <1>1, <1>5, <2>1 DEF Bounds, Columns
  <1>11. Rows'
    <2>1. RowOf(Here)' = RowOf(Here)
      BY <1>5 DEF RowOf
    <2> QED
      BY <1>1, <1>5, <2>1 DEF Bounds, Rows
  <1> QED
    BY <1>8, <1>9, <1>10, <1>11 DEF Bounds

(* The parts of vga_scroll_down(false): where the view goes, which row comes  *)
(* into it, and whether it is the last step back to the cursor.             *)
Moved == scrollPos < scrollMax
NewPos == IF Moved THEN scrollPos + 1 ELSE scrollPos
Past == linesCleared > 0 /\ bufRow > Bottom /\ NewPos + Bottom <= bufRow
NewRow == IF Past THEN NewPos + Bottom ELSE bufRow - (scrollMax - NewPos)
Copies == Past \/ (linesCleared = 0 /\ (NewPos < scrollMax \/ Scrolled))
Blanks == linesCleared > 0 /\ NewPos + linesCleared > scrollMax
BackAgain == NewPos = scrollMax /\ Scrolled
Ended(k) == Past /\ NewRow = bufRow /\ k \in bufRow*W + bufCol..bufRow*W + W - 1
PagedBuffer == [k \in BufCells |-> IF Ended(k) THEN Blank ELSE buffer[k]]
BottomCell(k) == IF Copies THEN PagedBuffer[NewRow * W + ColOf(k)] ELSE IF Blanks THEN Blank ELSE screen[k]
PagedCell(k) ==
  CASE k < Bottom * W -> IF Moved THEN screen[k + W] ELSE screen[k]
    [] BackAgain /\ k >= Bottom * W /\ ColOf(k) >= SavedCol -> Blank
    [] ~(BackAgain /\ ColOf(k) >= SavedCol) /\ k >= Bottom * W -> BottomCell(k)

(* vga_scroll_down(false) in those parts. *)
LEMMA PageDownIs ==
  ASSUME PageDown
  PROVE /\ mode = "input" /\ scrollPos' = NewPos /\ buffer' = PagedBuffer
        /\ screen' = [k \in Cells |-> PagedCell(k)]
        /\ cursor' = IF BackAgain THEN saved ELSE IF NewPos < scrollMax THEN Bottom * W ELSE cursor
        /\ saved' = IF BackAgain THEN None ELSE saved
        /\ UNCHANGED <<bufRow, bufCol, scrollMax, linesCleared, lastCol, mode, typed, toClear, out, strayed>>
  BY DEF PageDown, control, Moved, NewPos, Past, NewRow, Copies, Blanks, BackAgain, Ended, PagedBuffer,
         BottomCell, PagedCell

(* The row that comes in is one printed to; the view moves if it was scrolled back. *)
LEMMA PageDownNumbers ==
  ASSUME Bounds
  PROVE /\ scrollPos \in Nat /\ scrollMax \in Nat /\ NewPos \in Nat /\ NewPos <= scrollMax
        /\ NewRow \in Nat /\ NewRow <= bufRow /\ NewRow <= ROWS /\ bufRow \in Nat
        /\ (Scrolled => Moved /\ NewPos = scrollPos + 1)
        /\ (~Scrolled => ~Moved /\ NewPos = scrollPos /\ NewPos = scrollMax)
  <1>1. /\ scrollPos \in 0..scrollMax /\ scrollMax \in Nat /\ scrollMax <= bufRow
        /\ bufRow \in Nat /\ bufRow <= ROWS
    BY Standing, Numbers
  <1>2. Scrolled <=> scrollPos # scrollMax
    BY DEF Bounds, Saved, Scrolled
  <1>3. /\ NewPos \in Nat /\ NewPos <= scrollMax
        /\ (Scrolled => Moved /\ NewPos = scrollPos + 1)
        /\ (~Scrolled => ~Moved /\ NewPos = scrollPos /\ NewPos = scrollMax)
    BY <1>1, <1>2 DEF NewPos, Moved
  <1>4. NewRow \in Nat /\ NewRow <= bufRow
    <2>1. CASE Past
      BY <1>1, <1>3, <2>1, Sizes DEF Past, NewRow
    <2>2. CASE ~Past
      BY <1>1, <1>3, <2>2 DEF NewRow
    <2> QED
      BY <2>1, <2>2
  <1> QED
    BY <1>1, <1>3, <1>4, Sizes

(* What scrolling down leaves of the buffer is a buffer. *)
LEMMA PagedBufferType ==
  ASSUME Bounds
  PROVE PagedBuffer \in Buffers
  <1>1. buffer \in Buffers
    BY Standing
  <1>2. \A k \in BufCells : PagedBuffer[k] \in Unset..MaxOut
    BY <1>1, Glyphs DEF PagedBuffer, Buffers
  <1>3. PagedBuffer = [k \in BufCells |-> PagedBuffer[k]]
    BY DEF PagedBuffer
  <1> QED
    BY <1>2, <1>3, Zenon DEF Buffers

(* The cell below a cell that is not at the bottom. *)
LEMMA CellBelow ==
  ASSUME NEW k \in Cells, k < Bottom * W
  PROVE k \in Nat /\ k + W \in Cells /\ RowOf(k) < Bottom /\ RowOf(k + W) = RowOf(k) + 1 /\ RowOf(k) \in Nat
  <1>1. k \in Nat /\ RowOf(k) \in Nat /\ RowOf(k) < Bottom
    BY Within, Above, Split, Sizes
  <1>2. k + W \in Nat /\ RowOf(k + W) = RowOf(k) + 1
    BY <1>1, OneDown
  <1> QED
    BY <1>1, <1>2, Within, Sizes

(* A cell above the bottom comes from below; at the bottom it is blank or the new row's. *)
LEMMA PagedCellIs ==
  ASSUME NEW k \in Cells
  PROVE \/ k < Bottom * W /\ PagedCell(k) = IF Moved THEN screen[k + W] ELSE screen[k]
        \/ ~(k < Bottom * W) /\ BackAgain /\ ColOf(k) >= SavedCol /\ PagedCell(k) = Blank
        \/ ~(k < Bottom * W) /\ ~(BackAgain /\ ColOf(k) >= SavedCol) /\ PagedCell(k) = BottomCell(k)
  <1>1. k \in Int /\ Bottom * W \in Int
    BY Within, Sizes
  <1>2. k >= Bottom * W <=> ~(k < Bottom * W)
    BY <1>1
  <1>3. CASE k < Bottom * W
    BY <1>2, <1>3, Zenon DEF PagedCell
  <1>4. CASE ~(k < Bottom * W) /\ BackAgain /\ ColOf(k) >= SavedCol
    BY <1>2, <1>4, Zenon DEF PagedCell
  <1>5. CASE ~(k < Bottom * W) /\ ~(BackAgain /\ ColOf(k) >= SavedCol)
    BY <1>2, <1>5, Zenon DEF PagedCell
  <1> QED
    BY <1>3, <1>4, <1>5

(* Scrolling down keeps the bounds. *)
LEMMA PageDownBounds == ASSUME Bounds, PageDown PROVE Bounds'
  <1>1. /\ mode = "input" /\ scrollPos' = NewPos /\ buffer' = PagedBuffer
        /\ screen' = [k \in Cells |-> PagedCell(k)]
        /\ cursor' = IF BackAgain THEN saved ELSE IF NewPos < scrollMax THEN Bottom * W ELSE cursor
        /\ saved' = IF BackAgain THEN None ELSE saved
        /\ UNCHANGED <<bufRow, bufCol, scrollMax, linesCleared, lastCol, mode, typed, toClear, out, strayed>>
    BY PageDownIs
  <1>2. /\ scrollPos \in Nat /\ scrollMax \in Nat /\ NewPos \in Nat /\ NewPos <= scrollMax
        /\ NewRow \in Nat /\ NewRow <= ROWS
        /\ (Scrolled => Moved /\ NewPos = scrollPos + 1)
        /\ (~Scrolled => ~Moved /\ NewPos = scrollPos /\ NewPos = scrollMax)
    BY PageDownNumbers
  <1>3. cursor \in Cells /\ saved \in Cells \cup {None}
    BY DEF Bounds, TypeOK
  <1>4. Here' = Here
    <2>1. CASE BackAgain
      BY <1>1, <2>1 DEF Here, Scrolled, BackAgain
    <2>2. CASE ~BackAgain /\ Scrolled
      BY <1>1, <2>2 DEF Here, Scrolled
    <2>3. CASE ~Scrolled
      BY <1>1, <1>2, <2>3 DEF Here, Scrolled, BackAgain
    <2> QED
      BY <2>1, <2>2, <2>3
  <1>5. screen' \in Screens
    <2>1. ASSUME NEW k \in Cells PROVE PagedCell(k) \in Unset..MaxOut
      <3>1. screen \in Screens /\ PagedBuffer \in Buffers
        BY Standing, PagedBufferType
      <3>2. screen[k] \in Unset..MaxOut
        BY <3>1 DEF Screens
      <3>3. k < Bottom * W => screen[k + W] \in Unset..MaxOut
        BY <3>1, CellBelow DEF Screens
      <3>4. k \in Nat /\ ColOf(k) \in 0..W-1
        BY Within, Split
      <3>5. NewRow * W + ColOf(k) \in BufCells
        BY <1>2, <3>4, Unique, Within
      <3>6. PagedBuffer[NewRow * W + ColOf(k)] \in Unset..MaxOut
        BY <3>1, <3>5 DEF Buffers
      <3>7. BottomCell(k) \in Unset..MaxOut
        BY <3>2, <3>6, Glyphs, Zenon DEF BottomCell
      <3> QED
        BY <3>2, <3>3, <3>7, PagedCellIs, Glyphs, Zenon
    <2> QED
      BY <1>1, <2>1 DEF Screens
  <1>6. cursor' \in Cells /\ saved' \in Cells \cup {None}
    BY <1>1, <1>3, AtBottom DEF BackAgain, Scrolled
  <1>7. TypeOK'
    <2>1. TypeOK
      BY DEF Bounds
    <2>2. scrollPos' \in 0..scrollMax' /\ buffer' \in Buffers
      BY <1>1, <1>2, PagedBufferType
    <2> QED
      BY <1>1, <1>5, <1>6, <2>1, <2>2 DEF TypeOK, Screens, Buffers
  <1>8. Saved'
    <2>1. CASE BackAgain
      BY <1>1, <2>1 DEF Saved, BackAgain
    <2>2. CASE ~BackAgain
      BY <1>1, <1>2, <2>2 DEF Saved, BackAgain, Scrolled
    <2> QED
      BY <2>1, <2>2
  <1>9. Columns'
    <2>1. ColOf(Here)' = ColOf(Here)
      BY <1>4 DEF ColOf
    <2> QED
      BY <1>1, <1>4, <2>1 DEF Bounds, Columns
  <1>10. Rows'
    <2>1. RowOf(Here)' = RowOf(Here)
      BY <1>4 DEF RowOf
    <2> QED
      BY <1>1, <1>4, <2>1 DEF Bounds, Rows
  <1> QED
    BY <1>7, <1>8, <1>9, <1>10 DEF Bounds

(* Every step keeps the bounds. *)
LEMMA BoundsStep == ASSUME Bounds, [Next]_vars PROVE Bounds'
  <1>1. CASE UNCHANGED vars
    BY <1>1 DEF vars, counters, control, Bounds, TypeOK, Saved, Columns, Rows, Here, Scrolled, RowOf, ColOf
  <1> QED
    BY <1>1, OutputBounds, OutputLineFeedBounds, ClearBounds, ClearRowBounds, ClearEndsBounds, PromptBounds,
       TypeBounds, BackspaceBounds, ReturnBounds, PageUpBounds, PageDownBounds, Zenon DEF Next, vga_on_key_pressed

(* They hold at first. *)
LEMMA BoundsInit == Init => Bounds
  <1> SUFFICES ASSUME Init PROVE Bounds
    OBVIOUS
  <1>1. /\ screen = [k \in Cells |-> Blank] /\ cursor = 0
        /\ buffer = [k \in BufCells |-> IF k < H*W THEN Blank ELSE Unset]
        /\ bufRow = 0 /\ bufCol = 0 /\ scrollPos = 0 /\ scrollMax = 0
        /\ linesCleared = 0 /\ saved = None /\ lastCol = 0
        /\ mode = "output" /\ typed = 0 /\ toClear = [left |-> 0, rows |-> 0]
        /\ out = 0 /\ strayed = {}
    BY DEF Init
  <1>2. Here = 0 /\ RowOf(Here) = 0 /\ ColOf(Here) = 0 /\ 0 \in Cells
    BY <1>1, AtTop DEF Here, Scrolled
  <1>3. TypeOK
    <2>1. screen \in [Cells -> Unset..MaxOut] /\ buffer \in [BufCells -> Unset..MaxOut]
      BY <1>1, Glyphs
    <2>2. /\ 0 \in 0..ROWS /\ 0 \in -MaxTyped..W-1 /\ 0 \in 0..0 /\ 0 \in 0..W-1 /\ 0 \in 0..MaxTyped
          /\ 0 \in 0..MaxOut /\ 0 \in 0..Bottom
      BY Sizes
    <2> QED
      BY <1>1, <1>2, <2>1, <2>2 DEF TypeOK
  <1>4. Saved /\ Rows
    BY <1>1, <1>2 DEF Saved, Rows
  <1>5. Columns
    BY <1>1, <1>2 DEF Columns
  <1> QED
    BY <1>3, <1>4, <1>5 DEF Bounds

------------------------------------------------------------------------------
(* Agreeing: until something strays, the screen is a window on the buffer.  *)

(* A cell nothing was written to reads as a blank one. *)
LEMMA TextBlank == Text(Blank) = Blank /\ Text(Unset) = Blank
  BY DEF Text, Blank, Unset

(* Two buffers that read the same. *)
LEMMA SameText ==
  ASSUME NEW buf, NEW other, \A k \in BufCells : Text(buf[k]) = Text(other[k]),
         NEW row \in Nat, row <= ROWS, NEW pos \in Nat, NEW scr, NEW col
  PROVE /\ WindowOn(scr, buf, pos, row) => WindowOn(scr, other, pos, row)
        /\ BlankBehind(buf, row, col) => BlankBehind(other, row, col)
  <1>1. ASSUME NEW k \in Cells, ~(pos + RowOf(k) > row) PROVE pos * W + k \in BufCells
    <2>1. k \in Nat /\ RowOf(k) \in Nat
      BY Within, Split
    <2>2. pos * W + k \in Nat /\ RowOf(pos * W + k) = pos + RowOf(k)
      BY <2>1, Shifted
    <2> QED
      BY <1>1, <2>1, <2>2, Within, Sizes
  <1>2. WindowOn(scr, buf, pos, row) => WindowOn(scr, other, pos, row)
    BY <1>1, Zenon DEF WindowOn
  <1>3. BlankBehind(buf, row, col) => BlankBehind(other, row, col)
    BY Zenon DEF BlankBehind
  <1> QED
    BY <1>2, <1>3

(* A cell of the window is a cell of the buffer, so many rows further down. *)
LEMMA InWindow ==
  ASSUME NEW pos \in Nat, NEW k \in Cells
  PROVE /\ k \in Nat /\ RowOf(k) \in 0..Bottom /\ ColOf(k) \in 0..W-1
        /\ pos * W + k \in Nat
        /\ RowOf(pos * W + k) = pos + RowOf(k) /\ ColOf(pos * W + k) = ColOf(k)
        /\ pos + RowOf(k) <= ROWS => pos * W + k \in BufCells
  <1>1. k \in Nat /\ RowOf(k) \in Nat /\ RowOf(k) <= Bottom /\ ColOf(k) \in 0..W-1
    BY Within, Split
  <1>2. pos * W + k \in Nat /\ RowOf(pos * W + k) = pos + RowOf(k) /\ ColOf(pos * W + k) = ColOf(k)
    BY <1>1, Shifted
  <1> QED
    BY <1>1, <1>2, Within, Sizes

(* What is known where nothing has strayed and nothing is being cleared. *)
LEMMA Agreed ==
  ASSUME Bounds, Agreeing, strayed = {}, mode # "clear"
  PROVE /\ bufCol = ColOf(Here) /\ bufCol \in 0..W-1 /\ scrollMax + RowOf(Here) = bufRow
        /\ linesCleared \in Nat /\ linesCleared <= scrollMax
        /\ scrollMax = linesCleared \/ RowOf(Here) = Bottom \/ linesCleared >= Bottom
        /\ BlankBehind(buffer, bufRow, bufCol)
        /\ WindowOn(screen, buffer, scrollPos, bufRow)
  BY Standing, Numbers DEF Agreeing, Together, Cleared

(* Unless the cursor was in the middle of the screen, vga_scroll_bottom brings *)
(* back the rows that end with the last one printed to.                    *)
LEMMA ShownAgrees ==
  ASSUME Bounds, Agreeing, strayed = {}, mode # "clear", AtBottomCopy = {}
  PROVE WindowOn(Shown, buffer, scrollMax, bufRow)
  <1>1. /\ bufCol = ColOf(Here) /\ scrollMax + RowOf(Here) = bufRow
        /\ BlankBehind(buffer, bufRow, bufCol)
        /\ WindowOn(screen, buffer, scrollPos, bufRow)
    BY Agreed
  <1>2. /\ Here \in Cells /\ RowOf(Here) \in 0..Bottom /\ ColOf(Here) \in 0..W-1
        /\ scrollMax \in Nat /\ bufRow \in Nat /\ bufRow <= ROWS /\ scrollPos \in 0..scrollMax
    BY Standing, Numbers
  <1>3. CASE ~Scrolled
    <2>1. scrollPos = scrollMax
      BY <1>3 DEF Bounds, Saved, Scrolled
    <2> QED
      BY <1>1, <1>3, <2>1 DEF Shown
  <1>4. CASE Scrolled
    <2>1. Here = saved /\ SavedRow = RowOf(Here) /\ SavedCol = ColOf(Here) /\ scrollMax > 0
      BY <1>2, <1>4 DEF Here, SavedRow, SavedCol, Bounds, Saved, Scrolled
    <2>2. SavedRow = 0 \/ SavedRow = Bottom
      BY <1>2, <1>4, <2>1, Sizes DEF AtBottomCopy
    <2>3. ASSUME NEW k \in Cells
          PROVE Text(BottomScreen[k]) = IF scrollMax + RowOf(k) > bufRow THEN Blank
                                        ELSE Text(buffer[scrollMax * W + k])
      <3>1. /\ k \in Nat /\ RowOf(k) \in 0..Bottom /\ ColOf(k) \in 0..W-1
            /\ RowOf(scrollMax * W + k) = scrollMax + RowOf(k) /\ ColOf(scrollMax * W + k) = ColOf(k)
            /\ scrollMax + RowOf(k) <= ROWS => scrollMax * W + k \in BufCells
        BY <1>2, InWindow
      <3>2. CASE Repainted(k)
        <4>1. scrollMax + RowOf(k) > bufRow \/ (scrollMax + RowOf(k) = bufRow /\ ColOf(k) >= bufCol)
          BY <1>1, <1>2, <2>1, <2>2, <3>1, <3>2, Sizes DEF Repainted
        <4>2. BottomScreen[k] = Blank
          BY <3>2 DEF BottomScreen
        <4>3. ~(scrollMax + RowOf(k) > bufRow) => Text(buffer[scrollMax * W + k]) = Blank
          BY <1>1, <1>2, <3>1, <4>1 DEF BlankBehind
        <4> QED
          BY <4>2, <4>3, TextBlank
      <3>3. CASE ~Repainted(k)
        <4>1. /\ RowOf(k) < CopiedRows /\ FirstCopied = scrollMax
              /\ scrollMax + RowOf(k) <= bufRow /\ CopiedRows \in Nat
          BY <1>1, <1>2, <2>1, <2>2, <3>1, <3>3, Sizes DEF Repainted, CopiedRows, FirstCopied
        <4>2. k < CopiedRows * W
          BY <3>1, <4>1, Above
        <4>3. BottomScreen[k] = BufferAt(FirstCopied * W + k)
          BY <3>3, <4>2 DEF BottomScreen
        <4>4. scrollMax * W + k \in BufCells
          BY <1>2, <3>1, <4>1, Sizes
        <4>5. BottomScreen[k] = buffer[scrollMax * W + k]
          BY <4>1, <4>3, <4>4 DEF BufferAt
        <4>6. ~(scrollMax + RowOf(k) > bufRow)
          BY <1>2, <3>1, <4>1
        <4> QED
          BY <4>5, <4>6
      <3> QED
        BY <3>2, <3>3
    <2> QED
      BY <1>4, <2>3 DEF WindowOn, Shown
  <1> QED
    BY <1>3, <1>4

(* A new row: where nothing was printed behind the row that ends, screen and   *)
(* buffer go on together, unless the buffer is full and the screen is not.   *)
LEMMA NextRowAgrees ==
  ASSUME Bounds, Agreeing, strayed = {}, mode # "clear", AtFullRow = {},
         NEW scr \in Screens, NEW buf \in Buffers, NextRow(scr, buf),
         WindowOn(scr, buf, scrollMax, bufRow),
         \A k \in BufCells : RowOf(k) > bufRow => Text(buf[k]) = Blank,
         saved' = None, mode' # "clear", linesCleared' = linesCleared
  PROVE Agreeing'
  <1>1. /\ Here \in Cells /\ RowOf(Here) \in 0..Bottom /\ ColOf(Here) \in 0..W-1
        /\ scrollMax \in Nat /\ bufRow \in Nat /\ bufRow <= ROWS /\ Window = scrollMax
    BY Standing
  <1>2. /\ scrollMax + RowOf(Here) = bufRow /\ linesCleared \in Nat /\ linesCleared <= scrollMax
        /\ scrollMax = linesCleared \/ RowOf(Here) = Bottom \/ linesCleared >= Bottom
    BY Agreed
  <1>3. bufRow < ROWS \/ RowOf(Here) = Bottom
    BY <1>1, Sizes DEF AtFullRow
  <1>4. /\ bufCol' = 0 /\ ColOf(cursor') = 0
        /\ IF RowOf(Here) < Bottom THEN cursor' = (RowOf(Here) + 1) * W ELSE cursor' = Bottom * W
    BY NextRowBounds
  <1>5. Here' = cursor' /\ RowOf(Here)' = RowOf(cursor') /\ ColOf(Here)' = ColOf(cursor')
    BY DEF Here, Scrolled, RowOf, ColOf
  <1>6. bufRow' = IF bufRow < ROWS THEN bufRow + 1 ELSE bufRow
    BY DEF NextRow, FollowingRow
  <1>7. SUFFICES /\ scrollMax' \in Nat /\ scrollMax' >= scrollMax
                 /\ scrollMax' + RowOf(cursor') = bufRow'
                 /\ RowOf(cursor') = Bottom \/ (RowOf(Here) # Bottom /\ scrollMax' = scrollMax)
                 /\ BlankBehind(buffer', bufRow', 0)
                 /\ WindowOn(screen', buffer', scrollPos', bufRow')
    <2> SUFFICES ASSUME scrollMax' \in Nat, scrollMax' >= scrollMax,
                        scrollMax' + RowOf(cursor') = bufRow',
                        RowOf(cursor') = Bottom \/ (RowOf(Here) # Bottom /\ scrollMax' = scrollMax),
                        BlankBehind(buffer', bufRow', 0),
                        WindowOn(screen', buffer', scrollPos', bufRow')
                 PROVE Agreeing'
      OBVIOUS
    <2>1. Together'
      BY <1>4, <1>5 DEF Together
    <2>2. linesCleared' <= scrollMax'
      BY <1>1, <1>2
    <2>3. scrollMax' = linesCleared' \/ RowOf(cursor') = Bottom \/ linesCleared' >= Bottom
      BY <1>2
    <2>4. Cleared'
      BY <1>5, <2>2, <2>3 DEF Cleared
    <2>5. BlankBehind(buffer, bufRow, bufCol)' /\ WindowOn(screen, buffer, scrollPos, bufRow)'
      BY <1>4 DEF BlankBehind, WindowOn, RowOf, ColOf, Text
    <2> QED
      BY <2>1, <2>4, <2>5 DEF Agreeing
  <1>8. CASE RowOf(Here) < Bottom
    <2>1. /\ screen' = scr /\ buffer' = buf /\ scrollPos' = scrollMax /\ scrollMax' = scrollMax
          /\ cursor' = (RowOf(Here) + 1) * W
      BY <1>1, <1>8 DEF NextRow
    <2>2. bufRow' = bufRow + 1 /\ bufRow + 1 <= ROWS /\ RowOf(Here) # Bottom
      BY <1>1, <1>3, <1>6, <1>8, Sizes
    <2>3. RowOf(cursor') = RowOf(Here) + 1
      <3>1. RowOf(Here) + 1 \in Nat /\ 0 \in 0..W-1 /\ (RowOf(Here) + 1) * W + 0 = (RowOf(Here) + 1) * W
        BY <1>1, Sizes
      <3>2. RowOf((RowOf(Here) + 1) * W + 0) = RowOf(Here) + 1
        BY <3>1, Unique
      <3> QED
        BY <2>1, <3>1, <3>2
    <2>4. BlankBehind(buf, bufRow + 1, 0)
      <3>1. ASSUME NEW k \in BufCells, RowOf(k) > bufRow + 1 \/ RowOf(k) = bufRow + 1 PROVE RowOf(k) > bufRow
        <4>1. RowOf(k) \in Nat
          BY Within, Split
        <4> QED
          BY <1>1, <3>1, <4>1
      <3> QED
        BY <3>1 DEF BlankBehind
    <2>5. WindowOn(scr, buf, scrollMax, bufRow + 1)
      <3>1. ASSUME NEW k \in Cells
            PROVE Text(scr[k]) = IF scrollMax + RowOf(k) > bufRow + 1 THEN Blank
                                 ELSE Text(buf[scrollMax * W + k])
        <4>1. /\ RowOf(k) \in 0..Bottom /\ RowOf(scrollMax * W + k) = scrollMax + RowOf(k)
              /\ scrollMax + RowOf(k) <= ROWS => scrollMax * W + k \in BufCells
          BY <1>1, InWindow
        <4>2. Text(scr[k]) = IF scrollMax + RowOf(k) > bufRow THEN Blank ELSE Text(buf[scrollMax * W + k])
          BY DEF WindowOn
        <4>3. CASE scrollMax + RowOf(k) = bufRow + 1
          <5>1. Text(scr[k]) = Blank /\ ~(scrollMax + RowOf(k) > bufRow + 1)
            BY <1>1, <4>2, <4>3
          <5>2. scrollMax * W + k \in BufCells /\ RowOf(scrollMax * W + k) > bufRow
            BY <1>1, <2>2, <4>1, <4>3
          <5> QED
            BY <5>1, <5>2
        <4>4. CASE scrollMax + RowOf(k) # bufRow + 1
          <5>1. scrollMax + RowOf(k) > bufRow <=> scrollMax + RowOf(k) > bufRow + 1
            BY <1>1, <4>1, <4>4
          <5> QED
            BY <4>2, <5>1
        <4> QED
          BY <4>3, <4>4
      <3> QED
        BY <3>1 DEF WindowOn
    <2>6. scrollMax + (RowOf(Here) + 1) = bufRow + 1
      BY <1>1, <1>2
    <2> QED
      BY <1>1, <2>1, <2>2, <2>3, <2>4, <2>5, <2>6
  <1>9. CASE ~(RowOf(Here) < Bottom)
    <2>1. MakeRoom(scr) /\ buffer' = RoomBuffer(buf)
      BY <1>9 DEF NextRow
    <2>2. /\ screen' = Up(scr) /\ cursor' = Bottom * W
          /\ scrollMax' = IF Room THEN scrollMax + 1 ELSE scrollMax
          /\ scrollPos' = scrollMax'
          /\ buffer' = IF ~Room THEN Lifted(buf) ELSE buf
      BY <1>1, <2>1 DEF MakeRoom, RoomBuffer
    <2>3. RowOf(cursor') = Bottom /\ scrollMax + Bottom = bufRow
      BY <1>1, <1>2, <1>9, <2>2, AtBottom, Sizes
    <2>4. ASSUME NEW k \in Cells, k < Bottom * W
          PROVE /\ Up(scr)[k] = scr[k + W] /\ k + W \in Cells /\ RowOf(k) \in 0..(Bottom - 1)
                /\ Text(scr[k + W]) = Text(buf[scrollMax * W + (k + W)])
      <3>1. k + W \in Cells /\ RowOf(k + W) = RowOf(k) + 1 /\ RowOf(k) < Bottom /\ RowOf(k) \in Nat
        BY <2>4, CellBelow
      <3>2. ~(scrollMax + RowOf(k + W) > bufRow)
        BY <1>1, <2>3, <3>1, Sizes
      <3>3. Text(scr[k + W]) = Text(buf[scrollMax * W + (k + W)])
        BY <3>1, <3>2 DEF WindowOn
      <3> QED
        BY <2>4, <3>1, <3>3, Sizes DEF Up
    <2>5. ASSUME NEW k \in Cells, ~(k < Bottom * W)
          PROVE Up(scr)[k] = Blank /\ RowOf(k) = Bottom
      <3>1. k \in Nat /\ RowOf(k) \in 0..Bottom
        BY <1>1, InWindow
      <3>2. ~(RowOf(k) < Bottom)
        BY <2>5, <3>1, Above, Sizes
      <3> QED
        BY <2>5, <3>1, <3>2, Sizes DEF Up
    <2>6. CASE Room
      <3>1. /\ bufRow' = bufRow + 1 /\ bufRow + 1 <= ROWS /\ scrollMax' = scrollMax + 1
            /\ buffer' = buf /\ screen' = Up(scr) /\ scrollPos' = scrollMax + 1
        BY <1>1, <1>6, <2>2, <2>6, Sizes DEF Room
      <3>2. BlankBehind(buf, bufRow + 1, 0)
        <4>1. ASSUME NEW k \in BufCells, RowOf(k) > bufRow + 1 \/ RowOf(k) = bufRow + 1 PROVE RowOf(k) > bufRow
          <5>1. RowOf(k) \in Nat
            BY Within, Split
          <5> QED
            BY <1>1, <4>1, <5>1
        <4> QED
          BY <4>1 DEF BlankBehind
      <3>3. ASSUME NEW k \in Cells
            PROVE Text(Up(scr)[k]) = IF scrollMax + 1 + RowOf(k) > bufRow + 1 THEN Blank
                                     ELSE Text(buf[(scrollMax + 1) * W + k])
        <4>1. /\ k \in Nat /\ RowOf(k) \in 0..Bottom
              /\ RowOf((scrollMax + 1) * W + k) = scrollMax + 1 + RowOf(k)
              /\ scrollMax + 1 + RowOf(k) <= ROWS => (scrollMax + 1) * W + k \in BufCells
          <5>1. scrollMax + 1 \in Nat
            BY <1>1
          <5> QED
            BY <5>1, InWindow
        <4>2. scrollMax * W + (k + W) = (scrollMax + 1) * W + k
          BY <1>1, <4>1, Sizes
        <4>3. ~(scrollMax + 1 + RowOf(k) > bufRow + 1)
          BY <1>1, <2>3, <4>1, Sizes
        <4>4. CASE k < Bottom * W
          BY <2>4, <4>2, <4>3, <4>4
        <4>5. CASE ~(k < Bottom * W)
          <5>1. Up(scr)[k] = Blank /\ RowOf(k) = Bottom
            BY <2>5, <4>5
          <5>2. (scrollMax + 1) * W + k \in BufCells /\ RowOf((scrollMax + 1) * W + k) > bufRow
            BY <1>1, <2>3, <3>1, <4>1, <5>1, Sizes
          <5> QED
            BY <4>3, <5>1, <5>2, TextBlank
        <4> QED
          BY <4>4, <4>5
      <3>4. WindowOn(Up(scr), buf, scrollMax + 1, bufRow + 1)
        BY <3>3 DEF WindowOn
      <3>5. scrollMax + 1 \in Nat /\ scrollMax + 1 >= scrollMax /\ scrollMax + 1 + Bottom = bufRow + 1
        BY <1>1, <2>3, Sizes
      <3> QED
        BY <2>3, <3>1, <3>2, <3>4, <3>5
    <2>7. CASE ~Room
      <3>1. /\ bufRow' = bufRow /\ bufRow = ROWS /\ scrollMax' = scrollMax
            /\ buffer' = Lifted(buf) /\ screen' = Up(scr) /\ scrollPos' = scrollMax
        BY <1>1, <1>6, <2>2, <2>7, Sizes DEF Room
      <3>2. ASSUME NEW k \in BufCells, RowOf(k) = bufRow
            PROVE Lifted(buf)[k] = Blank
        <4>1. k \in Nat /\ ~(RowOf(k) < bufRow)
          BY <1>1, <3>2, Within
        <4>2. ~(k < bufRow * W)
          BY <1>1, <4>1, Above
        <4> QED
          BY <3>2, <4>2 DEF Lifted
      <3>3. BlankBehind(Lifted(buf), bufRow, 0)
        <4>1. ASSUME NEW k \in BufCells, RowOf(k) > bufRow PROVE FALSE
          <5>1. RowOf(k) <= ROWS /\ RowOf(k) \in Nat
            BY Within, Split
          <5> QED
            BY <3>1, <4>1, <5>1, Sizes
        <4> QED
          BY <3>2, <4>1, TextBlank DEF BlankBehind
      <3>4. ASSUME NEW k \in Cells
            PROVE Text(Up(scr)[k]) = IF scrollMax + RowOf(k) > bufRow THEN Blank
                                     ELSE Text(Lifted(buf)[scrollMax * W + k])
        <4>1. /\ k \in Nat /\ RowOf(k) \in 0..Bottom /\ scrollMax * W + k \in Nat
              /\ RowOf(scrollMax * W + k) = scrollMax + RowOf(k)
              /\ scrollMax + RowOf(k) <= ROWS => scrollMax * W + k \in BufCells
          BY <1>1, InWindow
        <4>2. ~(scrollMax + RowOf(k) > bufRow) /\ scrollMax * W + k \in BufCells
          BY <1>1, <2>3, <4>1, Sizes
        <4>3. CASE k < Bottom * W
          <5>1. /\ Up(scr)[k] = scr[k + W] /\ RowOf(k) \in 0..(Bottom - 1)
                /\ Text(scr[k + W]) = Text(buf[scrollMax * W + (k + W)])
            BY <2>4, <4>3
          <5>2. RowOf(scrollMax * W + k) < bufRow
            BY <1>1, <2>3, <4>1, <5>1, Sizes
          <5>3. scrollMax * W + k < bufRow * W
            BY <1>1, <4>1, <5>2, Above
          <5>4. Lifted(buf)[scrollMax * W + k] = buf[(scrollMax * W + k) + W]
            <6>1. ASSUME NEW n \in BufCells, n < bufRow * W, RowOf(n) # bufRow
                  PROVE Lifted(buf)[n] = buf[n + W]
              BY <6>1 DEF Lifted
            <6>2. RowOf(scrollMax * W + k) # bufRow
              BY <1>1, <4>1, <5>2, Sizes
            <6> QED
              BY <4>2, <5>3, <6>1, <6>2
          <5>5. scrollMax * W + (k + W) = (scrollMax * W + k) + W
            BY <1>1, <4>1, Sizes
          <5> QED
            BY <4>2, <5>1, <5>4, <5>5
        <4>4. CASE ~(k < Bottom * W)
          <5>1. Up(scr)[k] = Blank /\ RowOf(k) = Bottom
            BY <2>5, <4>4
          <5>2. Lifted(buf)[scrollMax * W + k] = Blank
            BY <2>3, <3>2, <4>1, <4>2, <5>1
          <5> QED
            BY <4>2, <5>1, <5>2
        <4> QED
          BY <4>3, <4>4
      <3>5. WindowOn(Up(scr), Lifted(buf), scrollMax, bufRow)
        BY <3>4 DEF WindowOn
      <3> QED
        BY <1>1, <2>3, <3>1, <3>3, <3>5
    <2> QED
      BY <2>6, <2>7
  <1> QED
    BY <1>8, <1>9

(* Nothing that has happened lately is a way of straying. *)
LEMMA Unstrayed ==
  ASSUME NEW ways, strayed' = strayed \cup AtBottomCopy \cup ways, strayed' = {}
  PROVE strayed = {} /\ AtBottomCopy = {} /\ ways = {}
  OBVIOUS

(* The place of the next character in the buffer. *)
LEMMA NextPlace ==
  ASSUME Bounds, Agreeing, strayed = {}, mode # "clear"
  PROVE /\ bufRow * W + bufCol \in BufCells /\ RowOf(bufRow * W + bufCol) = bufRow
        /\ ColOf(bufRow * W + bufCol) = bufCol /\ bufRow * W + bufCol = scrollMax * W + Here
  <1>1. bufCol = ColOf(Here) /\ bufCol \in 0..W-1 /\ scrollMax + RowOf(Here) = bufRow
    BY Agreed
  <1>2. Here \in Cells /\ Here \in Nat /\ scrollMax \in Nat /\ bufRow \in Nat /\ bufRow <= ROWS /\ RowOf(Here) \in Nat
    BY Standing
  <1>3. /\ bufRow * W + bufCol \in Nat /\ RowOf(bufRow * W + bufCol) = bufRow
        /\ ColOf(bufRow * W + bufCol) = bufCol
    BY <1>1, <1>2, Unique
  <1>4. bufRow * W + bufCol \in BufCells
    BY <1>2, <1>3, Within
  <1>5. Here = RowOf(Here) * W + ColOf(Here)
    BY <1>2, Split
  <1>6. bufRow * W = scrollMax * W + RowOf(Here) * W
    <2>1. \A m, n \in Nat : (m + n) * W = m * W + n * W
      BY Sizes
    <2> QED
      BY <1>1, <1>2, <2>1, Zenon
  <1>7. bufRow * W + bufCol = scrollMax * W + Here
    <2>1. scrollMax * W \in Nat /\ RowOf(Here) * W \in Nat
      BY <1>2, Sizes
    <2> QED
      BY <1>1, <1>5, <1>6, <2>1
  <1> QED
    BY <1>3, <1>4, <1>7

(* One cell written at one place of screen and buffer, seen through the window. *)
LEMMA BothWritten ==
  ASSUME NEW scr \in Screens, NEW buf \in Buffers, NEW pos \in Nat, NEW row \in Nat, row <= ROWS,
         NEW a \in Cells, ~(pos + RowOf(a) > row), WindowOn(scr, buf, pos, row), NEW x
  PROVE WindowOn([scr EXCEPT ![a] = x], [buf EXCEPT ![pos * W + a] = x], pos, row)
  <1> DEFINE s2 == [scr EXCEPT ![a] = x]
             b2 == [buf EXCEPT ![pos * W + a] = x]
  <1>1. a \in Nat /\ pos * W + a \in BufCells
    <2>1. RowOf(a) \in 0..Bottom
      BY InWindow
    <2>2. pos + RowOf(a) <= ROWS
      BY <2>1, Sizes
    <2> QED
      BY <2>2, InWindow
  <1>2. ASSUME NEW k \in Cells
        PROVE Text(s2[k]) = IF pos + RowOf(k) > row THEN Blank ELSE Text(b2[pos * W + k])
    <2>1. Text(scr[k]) = IF pos + RowOf(k) > row THEN Blank ELSE Text(buf[pos * W + k])
      BY DEF WindowOn
    <2>2. CASE k = a
      <3>1. s2[k] = x
        BY <2>2 DEF Screens
      <3>2. b2[pos * W + k] = x
        BY <1>1, <2>2 DEF Buffers
      <3> QED
        BY <2>2, <3>1, <3>2
    <2>3. CASE k # a
      <3>1. s2[k] = scr[k]
        BY <2>3 DEF Screens
      <3>2. ~(pos + RowOf(k) > row) => pos * W + k \in BufCells
        <4>1. RowOf(k) \in 0..Bottom
          BY InWindow
        <4>2. ~(pos + RowOf(k) > row) => pos + RowOf(k) <= ROWS
          BY <4>1, Sizes
        <4> QED
          BY <4>2, InWindow
      <3>3. pos * W + k # pos * W + a
        <4>1. k \in Nat /\ pos * W \in Nat
          BY InWindow, Sizes
        <4> QED
          BY <1>1, <2>3, <4>1
      <3>4. ~(pos + RowOf(k) > row) => b2[pos * W + k] = buf[pos * W + k]
        BY <3>2, <3>3 DEF Buffers
      <3> QED
        BY <2>1, <3>1, <3>4
    <2> QED
      BY <2>2, <2>3
  <1> QED
    BY <1>2 DEF WindowOn

(* A character. *)
LEMMA PutAgrees ==
  ASSUME Bounds, Agreeing, mode # "clear", NEW c \in 1..MaxOut, Put(c),
         saved' = None, mode' # "clear", linesCleared' = linesCleared
  PROVE Agreeing'
  <1> SUFFICES ASSUME strayed' = {} PROVE Agreeing'
    BY DEF Agreeing
  <1> DEFINE scr == [Shown EXCEPT ![Here] = c]
             buf == [buffer EXCEPT ![bufRow * W + bufCol] = c]
  <1>1. IF ColOf(Here) + 1 < W
          THEN /\ screen' = scr /\ buffer' = buf /\ cursor' = Here + 1
               /\ bufCol' = bufCol + 1 /\ scrollPos' = Window
               /\ bufRow' = bufRow /\ scrollMax' = scrollMax
               /\ strayed' = strayed \cup AtBottomCopy
          ELSE /\ NextRow(scr, buf)
               /\ strayed' = strayed \cup AtBottomCopy \cup AtFullRow
    BY Zenon DEF Put
  <1>2. strayed = {} /\ AtBottomCopy = {} /\ (~(ColOf(Here) + 1 < W) => AtFullRow = {})
    BY <1>1
  <1>3. /\ Here \in Cells /\ Here \in Nat /\ RowOf(Here) \in 0..Bottom /\ ColOf(Here) \in 0..W-1
        /\ Window = scrollMax /\ scrollMax \in Nat /\ bufRow \in Nat /\ bufRow <= ROWS
        /\ Shown \in Screens /\ buffer \in Buffers
    BY Standing
  <1>4. /\ bufCol = ColOf(Here) /\ bufCol \in 0..W-1 /\ scrollMax + RowOf(Here) = bufRow
        /\ linesCleared <= scrollMax
        /\ scrollMax = linesCleared \/ RowOf(Here) = Bottom \/ linesCleared >= Bottom
        /\ BlankBehind(buffer, bufRow, bufCol)
    BY <1>2, Agreed
  <1>5. WindowOn(Shown, buffer, scrollMax, bufRow)
    BY <1>2, ShownAgrees
  <1>6. /\ bufRow * W + bufCol \in BufCells /\ RowOf(bufRow * W + bufCol) = bufRow
        /\ ColOf(bufRow * W + bufCol) = bufCol /\ bufRow * W + bufCol = scrollMax * W + Here
    BY <1>2, NextPlace
  <1>7. WindowOn(scr, buf, scrollMax, bufRow)
    <2>1. ~(scrollMax + RowOf(Here) > bufRow)
      BY <1>3, <1>4
    <2>2. WindowOn([Shown EXCEPT ![Here] = c], [buffer EXCEPT ![scrollMax * W + Here] = c], scrollMax, bufRow)
      BY <1>3, <1>5, <2>1, BothWritten
    <2> QED
      BY <1>6, <2>2
  <1>8. scr \in Screens /\ buf \in Buffers
    <2>1. c \in Unset..MaxOut
      BY Glyphs
    <2> QED
      BY <1>3, <2>1 DEF Screens, Buffers
  <1>9. \A k \in BufCells : RowOf(k) > bufRow \/ (RowOf(k) = bufRow /\ ColOf(k) >= bufCol + 1) => Text(buf[k]) = Blank
    <2> SUFFICES ASSUME NEW k \in BufCells, RowOf(k) > bufRow \/ (RowOf(k) = bufRow /\ ColOf(k) >= bufCol + 1)
                 PROVE Text(buf[k]) = Blank
      OBVIOUS
    <2>1. RowOf(k) \in Nat /\ ColOf(k) \in 0..W-1
      BY Within, Split
    <2>2. k # bufRow * W + bufCol
      BY <1>3, <1>4, <1>6, <2>1
    <2>3. buf[k] = buffer[k]
      BY <1>3, <2>2 DEF Buffers
    <2>4. RowOf(k) > bufRow \/ (RowOf(k) = bufRow /\ ColOf(k) >= bufCol)
      BY <1>4, <2>1
    <2> QED
      BY <1>4, <2>3, <2>4 DEF BlankBehind
  <1> HIDE DEF scr, buf
  <1>10. CASE ColOf(Here) + 1 < W
    <2>1. /\ screen' = scr /\ buffer' = buf /\ cursor' = Here + 1 /\ bufCol' = bufCol + 1
          /\ scrollPos' = scrollMax /\ bufRow' = bufRow /\ scrollMax' = scrollMax
      BY <1>1, <1>3, <1>10
    <2>2. RowOf(Here + 1) = RowOf(Here) /\ ColOf(Here + 1) = ColOf(Here) + 1
      BY <1>3, <1>10, Successor
    <2>3. RowOf(Here)' = RowOf(Here) /\ ColOf(Here)' = ColOf(Here) + 1
      BY <2>1, <2>2 DEF Here, Scrolled, RowOf, ColOf
    <2>4. Together' /\ Cleared'
      BY <1>4, <2>1, <2>3 DEF Together, Cleared
    <2>5. BlankBehind(buffer, bufRow, bufCol)'
      BY <1>9, <2>1 DEF BlankBehind, RowOf, ColOf, Text
    <2>6. WindowOn(screen, buffer, scrollPos, bufRow)'
      BY <1>7, <2>1 DEF WindowOn, RowOf, ColOf, Text
    <2> QED
      BY <2>4, <2>5, <2>6 DEF Agreeing
  <1>11. CASE ~(ColOf(Here) + 1 < W)
    <2>1. NextRow(scr, buf) /\ AtFullRow = {}
      BY <1>1, <1>2, <1>11
    <2>2. \A k \in BufCells : RowOf(k) > bufRow => Text(buf[k]) = Blank
      BY <1>9
    <2> QED
      BY <1>2, <1>7, <1>8, <2>1, <2>2, NextRowAgrees
  <1> QED
    BY <1>10, <1>11

(* A character of the kernel, *)
LEMMA OutputAgrees == ASSUME Bounds, Agreeing, Output PROVE Agreeing'
  <1>1. /\ mode = "output" /\ mode' = mode /\ out < MaxOut /\ Put(out + 1) /\ saved' = None
        /\ linesCleared' = linesCleared
    BY DEF Output, Ink, control
  <1>2. out + 1 \in 1..MaxOut
    BY <1>1, Numbers, Sizes
  <1> QED
    BY <1>1, <1>2, PutAgrees

(* and a typed one. *)
LEMMA TypeAgrees == ASSUME Bounds, Agreeing, Type PROVE Agreeing'
  <1>1. /\ mode = "input" /\ mode' = "input" /\ out < MaxOut /\ Put(out + 1) /\ saved' = None
        /\ linesCleared' = linesCleared
    BY DEF Type, Ink
  <1>2. out + 1 \in 1..MaxOut
    BY <1>1, Numbers, Sizes
  <1> QED
    BY <1>1, <1>2, PutAgrees

(* The rest of a row, blanked by a line feed, was blank.                    *)
LEMMA FilledReadsSame ==
  ASSUME Bounds, Agreeing, strayed = {}, mode # "clear"
  PROVE \A k \in BufCells : Text(buffer[k]) = Text(Filled[k])
  <1> TAKE k \in BufCells
  <1>1. CASE k \in bufRow*W + bufCol..bufRow*W + W - 1
    <2>1. /\ bufCol \in 0..W-1 /\ BlankBehind(buffer, bufRow, bufCol) /\ bufRow \in Nat
      BY Agreed, Standing
    <2>2. k \in Nat /\ k >= bufRow*W + bufCol
      <3>1. bufRow * W + bufCol \in Int
        BY <2>1, Sizes
      <3>2. k \in Nat
        BY Within
      <3> QED
        BY <1>1, <3>1, <3>2
    <2>3. RowOf(k) > bufRow \/ (RowOf(k) = bufRow /\ ColOf(k) >= bufCol)
      BY <2>1, <2>2, Behind
    <2>4. Text(buffer[k]) = Blank
      BY <2>1, <2>3 DEF BlankBehind
    <2>5. Filled[k] = Blank \/ Filled[k] = buffer[k]
      BY DEF Filled
    <2> QED
      BY <2>4, <2>5, TextBlank
  <1>2. CASE ~(k \in bufRow*W + bufCol..bufRow*W + W - 1)
    BY <1>2 DEF Filled
  <1> QED
    BY <1>1, <1>2

(* A line feed. *)
LEMMA LineFeedAgrees ==
  ASSUME Bounds, Agreeing, mode # "clear", PutLineFeed,
         saved' = None, mode' # "clear", linesCleared' = linesCleared
  PROVE Agreeing'
  <1> SUFFICES ASSUME strayed' = {} PROVE Agreeing'
    BY DEF Agreeing
  <1>1. NextRow(Shown, Filled) /\ strayed' = strayed \cup AtBottomCopy \cup AtFullRow
    BY DEF PutLineFeed
  <1>2. strayed = {} /\ AtBottomCopy = {} /\ AtFullRow = {}
    BY <1>1
  <1>3. scrollMax \in Nat /\ bufRow \in Nat /\ bufRow <= ROWS /\ Shown \in Screens /\ Filled \in Buffers
    BY Standing, FilledType
  <1>4. /\ WindowOn(Shown, buffer, scrollMax, bufRow) /\ BlankBehind(buffer, bufRow, bufCol)
    BY <1>2, ShownAgrees, Agreed
  <1>5. \A k \in BufCells : Text(buffer[k]) = Text(Filled[k])
    BY <1>2, FilledReadsSame
  <1>6. WindowOn(Shown, Filled, scrollMax, bufRow) /\ BlankBehind(Filled, bufRow, bufCol)
    BY <1>3, <1>4, <1>5, SameText
  <1>7. \A k \in BufCells : RowOf(k) > bufRow => Text(Filled[k]) = Blank
    BY <1>6 DEF BlankBehind
  <1> QED
    BY <1>1, <1>2, <1>3, <1>6, <1>7, NextRowAgrees

(* The kernel's line feed, *)
LEMMA OutputLineFeedAgrees == ASSUME Bounds, Agreeing, OutputLineFeed PROVE Agreeing'
  <1>1. mode = "output" /\ mode' = mode /\ PutLineFeed /\ saved' = None /\ linesCleared' = linesCleared
    BY DEF OutputLineFeed, control
  <1> QED
    BY <1>1, LineFeedAgrees

(* and the return key's. *)
LEMMA ReturnAgrees == ASSUME Bounds, Agreeing, Return PROVE Agreeing'
  <1>1. mode = "input" /\ mode' = "output" /\ PutLineFeed /\ saved' = None /\ linesCleared' = linesCleared
    BY DEF Return
  <1> QED
    BY <1>1, LineFeedAgrees

(* A backspace within a row takes back the last cell of both. *)
LEMMA BackspaceAgrees == ASSUME Bounds, Agreeing, Backspace PROVE Agreeing'
  <1> SUFFICES ASSUME strayed' = {} PROVE Agreeing'
    BY DEF Agreeing
  <1>1. /\ mode = "input" /\ mode' = "input" /\ PutBackspace /\ saved' = None /\ linesCleared' = linesCleared
    BY DEF Backspace
  <1>2. lastCol # 0
    BY <1>1, Numbers
  <1> DEFINE place == bufRow * W + (IF bufCol = 0 THEN 0 ELSE bufCol - 1)
  <1>3. /\ cursor' = Here - 1 /\ bufCol' = bufCol - 1
        /\ screen' = [Shown EXCEPT ![Erased] = Blank] /\ buffer' = [buffer EXCEPT ![place] = Blank]
        /\ strayed' = strayed \cup AtBottomCopy \cup (IF ColOf(Here) = 0 THEN {"backspace"} ELSE {})
        /\ scrollPos' = Window /\ bufRow' = bufRow /\ scrollMax' = scrollMax
    BY <1>1, <1>2, Zenon DEF PutBackspace
  <1>4. strayed = {} /\ AtBottomCopy = {} /\ ColOf(Here) # 0
    BY <1>3
  <1>5. /\ Here \in Cells /\ Here \in Nat /\ RowOf(Here) \in 0..Bottom /\ ColOf(Here) \in 0..W-1
        /\ Window = scrollMax /\ scrollMax \in Nat /\ bufRow \in Nat /\ bufRow <= ROWS
        /\ Shown \in Screens /\ buffer \in Buffers
    BY Standing
  <1>6. /\ bufCol = ColOf(Here) /\ bufCol \in 0..W-1 /\ scrollMax + RowOf(Here) = bufRow
        /\ linesCleared <= scrollMax
        /\ scrollMax = linesCleared \/ RowOf(Here) = Bottom \/ linesCleared >= Bottom
        /\ BlankBehind(buffer, bufRow, bufCol)
    BY <1>1, <1>4, Agreed
  <1>7. WindowOn(Shown, buffer, scrollMax, bufRow)
    BY <1>1, <1>4, ShownAgrees
  <1>8. bufRow * W + bufCol = scrollMax * W + Here
    BY <1>1, <1>4, NextPlace
  <1>9. Here > 0
    <2>1. ~(Here = 0)
      BY <1>4, AtTop
    <2> QED
      BY <1>5, <2>1
  <1>10. Here - 1 \in Nat /\ RowOf(Here - 1) = RowOf(Here) /\ ColOf(Here - 1) = ColOf(Here) - 1
    BY <1>4, <1>5, <1>9, Predecessor
  <1>11. Here - 1 \in Cells /\ Erased = Here - 1
    BY <1>4, <1>5, <1>10, Within DEF Erased
  <1>12. place = bufRow * W + (bufCol - 1) /\ bufCol - 1 \in 0..W-1 /\ place = scrollMax * W + (Here - 1)
    <2>1. place = bufRow * W + (bufCol - 1) /\ bufCol - 1 \in 0..W-1
      BY <1>4, <1>6, Sizes
    <2>2. bufRow * W \in Int /\ scrollMax * W \in Int /\ bufCol \in Int /\ Here \in Int
      BY <1>5, <1>6, Sizes
    <2>3. \A a, b \in Int : a + bufCol = b + Here => a + (bufCol - 1) = b + (Here - 1)
      BY <2>2
    <2>4. bufRow * W + (bufCol - 1) = scrollMax * W + (Here - 1)
      BY <1>8, <2>2, <2>3, Zenon
    <2> QED
      BY <2>1, <2>4, Zenon
  <1>13. RowOf(place) = bufRow /\ ColOf(place) = bufCol - 1 /\ place \in BufCells
    BY <1>5, <1>12, Unique, Within
  <1> HIDE DEF place
  <1>14. WindowOn(screen, buffer, scrollPos, bufRow)'
    <2>1. ~(scrollMax + RowOf(Here - 1) > bufRow)
      BY <1>5, <1>6, <1>10
    <2>2. WindowOn([Shown EXCEPT ![Here - 1] = Blank], [buffer EXCEPT ![scrollMax * W + (Here - 1)] = Blank], scrollMax, bufRow)
      BY <1>5, <1>7, <1>11, <2>1, BothWritten
    <2>3. WindowOn(screen', buffer', scrollMax, bufRow)
      BY <1>3, <1>11, <1>12, <2>2
    <2> QED
      BY <1>3, <1>5, <2>3 DEF WindowOn, RowOf, Text
  <1>15. BlankBehind(buffer, bufRow, bufCol)'
    <2>1. ASSUME NEW k \in BufCells, RowOf(k) > bufRow \/ (RowOf(k) = bufRow /\ ColOf(k) >= bufCol - 1)
          PROVE Text(buffer'[k]) = Blank
      <3>1. CASE k = place
        <4>1. buffer'[k] = Blank
          BY <1>3, <1>5, <3>1 DEF Buffers
        <4> QED
          BY <4>1, TextBlank
      <3>2. CASE k # place
        <4>1. buffer'[k] = buffer[k]
          BY <1>3, <1>5, <3>2 DEF Buffers
        <4>2. k \in Nat /\ RowOf(k) \in Nat /\ ColOf(k) \in 0..W-1 /\ k = RowOf(k) * W + ColOf(k)
          BY Within, Split
        <4>3. ~(RowOf(k) = bufRow /\ ColOf(k) = bufCol - 1)
          BY <1>12, <3>2, <4>2
        <4>4. RowOf(k) > bufRow \/ (RowOf(k) = bufRow /\ ColOf(k) >= bufCol)
          BY <1>6, <2>1, <4>2, <4>3
        <4> QED
          BY <1>6, <4>1, <4>4 DEF BlankBehind
      <3> QED
        BY <3>1, <3>2
    <2> QED
      BY <1>3, <2>1 DEF BlankBehind, RowOf, ColOf, Text
  <1>16. RowOf(Here)' = RowOf(Here) /\ ColOf(Here)' = ColOf(Here) - 1
    BY <1>1, <1>3, <1>10 DEF Here, Scrolled, RowOf, ColOf
  <1>17. Together' /\ Cleared'
    BY <1>1, <1>3, <1>6, <1>16 DEF Together, Cleared
  <1> QED
    BY <1>14, <1>15, <1>17 DEF Agreeing

(* The prompt changes neither screen nor buffer. *)
LEMMA PromptAgrees == ASSUME Bounds, Agreeing, Prompt PROVE Agreeing'
  <1>1. /\ mode = "output" /\ mode' = "input"
        /\ UNCHANGED <<screen, cursor, buffer, bufRow, bufCol, scrollPos, scrollMax, linesCleared,
                       saved, lastCol, toClear, out, strayed>>
    BY DEF Prompt, counters
  <1>2. RowOf(Here)' = RowOf(Here) /\ ColOf(Here)' = ColOf(Here)
    BY <1>1 DEF Here, Scrolled, RowOf, ColOf
  <1> QED
    BY <1>1, <1>2 DEF Agreeing, Together, Cleared, BlankBehind, WindowOn, RowOf, ColOf, Text

(* As many rows are to be cleared as are printed to above the cursor. *)
LEMMA ClearAgrees == ASSUME Bounds, Agreeing, Clear PROVE Agreeing'
  <1> SUFFICES ASSUME strayed' = {} PROVE Agreeing'
    BY DEF Agreeing
  <1>1. /\ mode = "output" /\ mode' = "clear"
        /\ toClear' = [left |-> RowOf(cursor), rows |-> RowOf(cursor)]
        /\ UNCHANGED <<screen, cursor, buffer, bufRow, bufCol, scrollPos, scrollMax, linesCleared,
                       saved, lastCol, typed, strayed>>
    BY DEF Clear, counters
  <1>2. strayed = {} /\ saved = None /\ Here = cursor
    BY <1>1 DEF Bounds, Saved, Here, Scrolled
  <1>3. /\ scrollMax + RowOf(cursor) = bufRow /\ linesCleared <= scrollMax
        /\ scrollMax = linesCleared \/ RowOf(cursor) = Bottom \/ linesCleared >= Bottom
        /\ linesCleared \in Nat /\ scrollMax \in Nat /\ RowOf(cursor) \in 0..Bottom
        /\ BlankBehind(buffer, bufRow, bufCol) /\ WindowOn(screen, buffer, scrollPos, bufRow)
    BY <1>1, <1>2, Agreed, Standing
  <1>4. toClear'.left = RowOf(cursor) /\ toClear'.rows = RowOf(cursor)
    BY <1>1
  <1>5. linesCleared + RowOf(cursor) - RowOf(cursor) <= scrollMax
    BY <1>3
  <1>6. scrollMax = linesCleared => scrollMax + RowOf(cursor) = linesCleared + RowOf(cursor)
    OBVIOUS
  <1>7. Together' /\ Cleared'
    BY <1>1, <1>3, <1>4, <1>5, <1>6 DEF Together, Cleared
  <1>8. BlankBehind(buffer, bufRow, bufCol)' /\ WindowOn(screen, buffer, scrollPos, bufRow)'
    BY <1>1, <1>3 DEF BlankBehind, WindowOn, RowOf, ColOf, Text
  <1> QED
    BY <1>7, <1>8 DEF Agreeing

(* While rows are cleared the last of the window are behind the last printed to. *)
LEMMA ClearRowAgrees == ASSUME Bounds, Agreeing, ClearRow PROVE Agreeing'
  <1> SUFFICES ASSUME strayed' = {} PROVE Agreeing'
    BY DEF Agreeing
  <1>1. /\ mode = "clear" /\ mode' = "clear" /\ toClear.left > 0
        /\ MakeRoom(screen) /\ buffer' = RowBlanked(RoomBuffer(buffer))
        /\ toClear' = [toClear EXCEPT !.left = @ - 1]
        /\ strayed' = strayed \cup (IF bufRow = ROWS THEN {"full"} ELSE {})
        /\ UNCHANGED <<bufRow, bufCol, linesCleared, saved, lastCol, typed, out>>
    BY DEF ClearRow
  <1>2. strayed = {} /\ bufRow # ROWS
    BY <1>1
  <1>3. /\ Window = scrollMax /\ scrollMax \in Nat /\ bufRow \in Nat /\ bufRow <= ROWS
        /\ screen \in Screens /\ buffer \in Buffers /\ linesCleared \in Nat
        /\ toClear \in [left : 0..Bottom, rows : 0..Bottom]
    BY Standing, Numbers
  <1>4. Room
    BY <1>2, <1>3, Sizes DEF Room
  <1>5. /\ screen' = Up(screen) /\ scrollMax' = scrollMax + 1 /\ scrollPos' = scrollMax + 1
        /\ buffer' = RowBlanked(buffer)
    BY <1>1, <1>3, <1>4 DEF MakeRoom, RoomBuffer
  <1>6. toClear'.left = toClear.left - 1 /\ toClear'.rows = toClear.rows
    BY <1>1, <1>3
  <1>7. /\ scrollMax + toClear.left = bufRow
        /\ linesCleared + toClear.rows - toClear.left <= scrollMax
        /\ \/ scrollMax + toClear.left = linesCleared + toClear.rows
           \/ toClear.rows = Bottom \/ linesCleared >= Bottom
        /\ BlankBehind(buffer, bufRow, bufCol) /\ WindowOn(screen, buffer, scrollPos, bufRow)
    BY <1>1, <1>2 DEF Agreeing, Together, Cleared
  <1>8. scrollPos = scrollMax /\ bufCol = 0
    BY <1>1 DEF Bounds, Saved, Columns
  <1>9. Together' /\ Cleared'
    <2>1. toClear.left \in 0..Bottom /\ toClear.rows \in 0..Bottom
      BY <1>3
    <2>2. scrollMax' + toClear'.left = bufRow'
      BY <1>1, <1>3, <1>5, <1>6, <1>7, <2>1, Sizes
    <2>3. /\ linesCleared' + toClear'.rows - toClear'.left <= scrollMax'
          /\ \/ scrollMax' + toClear'.left = linesCleared' + toClear'.rows
             \/ toClear'.rows = Bottom \/ linesCleared' >= Bottom
      BY <1>1, <1>3, <1>5, <1>6, <1>7, <2>1, Sizes
    <2> QED
      BY <1>1, <2>2, <2>3 DEF Together, Cleared
  <1>10. \A k \in BufCells : Text(buffer[k]) = Text(RowBlanked(buffer)[k])
    <2> TAKE k \in BufCells
    <2>1. CASE RowOf(k) = bufRow
      <3>1. ColOf(k) >= bufCol
        <4>1. k \in Nat /\ ColOf(k) \in 0..W-1
          BY Within, Split
        <4> QED
          BY <1>8, <4>1, Sizes
      <3>2. Text(buffer[k]) = Blank
        BY <1>7, <2>1, <3>1 DEF BlankBehind
      <3> QED
        BY <2>1, <3>2, TextBlank DEF RowBlanked
    <2>2. CASE RowOf(k) # bufRow
      BY <2>2 DEF RowBlanked
    <2> QED
      BY <2>1, <2>2
  <1>11. ASSUME NEW k \in Cells
         PROVE Text(Up(screen)[k]) = IF scrollMax + 1 + RowOf(k) > bufRow THEN Blank
                                     ELSE Text(buffer[(scrollMax + 1) * W + k])
    <2>1. k \in Nat /\ RowOf(k) \in 0..Bottom
      BY <1>3, InWindow
    <2>2. CASE k < Bottom * W
      <3>1. k + W \in Cells /\ RowOf(k + W) = RowOf(k) + 1
        BY <2>2, CellBelow
      <3>2. Up(screen)[k] = screen[k + W]
        BY <2>2 DEF Up
      <3>3. Text(screen[k + W]) = IF scrollMax + RowOf(k + W) > bufRow THEN Blank
                                  ELSE Text(buffer[scrollMax * W + (k + W)])
        BY <1>7, <1>8, <3>1 DEF WindowOn
      <3>4. scrollMax * W + (k + W) = (scrollMax + 1) * W + k
        BY <1>3, <2>1, Sizes
      <3>5. scrollMax + RowOf(k + W) = scrollMax + 1 + RowOf(k)
        BY <1>3, <2>1, <3>1
      <3> QED
        BY <3>2, <3>3, <3>4, <3>5
    <2>3. CASE ~(k < Bottom * W)
      <3>1. ~(RowOf(k) < Bottom)
        BY <2>1, <2>3, Above, Sizes
      <3>2. toClear.left \in 0..Bottom
        BY <1>3
      <3>3. scrollMax + 1 + RowOf(k) > bufRow
        BY <1>3, <1>7, <2>1, <3>1, <3>2, Sizes
      <3>4. Up(screen)[k] = Blank
        BY <2>3 DEF Up
      <3> QED
        BY <3>3, <3>4, TextBlank
    <2> QED
      BY <2>2, <2>3
  <1>12. WindowOn(Up(screen), buffer, scrollMax + 1, bufRow)
    BY <1>11 DEF WindowOn
  <1>13. scrollMax + 1 \in Nat
    BY <1>3
  <1>14. WindowOn(Up(screen), RowBlanked(buffer), scrollMax + 1, bufRow) /\ BlankBehind(RowBlanked(buffer), bufRow, bufCol)
    BY <1>3, <1>7, <1>10, <1>12, <1>13, SameText
  <1>15. BlankBehind(buffer, bufRow, bufCol)' /\ WindowOn(screen, buffer, scrollPos, bufRow)'
    BY <1>1, <1>5, <1>14 DEF BlankBehind, WindowOn, RowOf, ColOf, Text
  <1> QED
    BY <1>9, <1>15 DEF Agreeing

(* After the last row the next character goes to the top of the screen. *)
LEMMA ClearEndsAgrees == ASSUME Bounds, Agreeing, ClearEnds PROVE Agreeing'
  <1> SUFFICES ASSUME strayed' = {} PROVE Agreeing'
    BY DEF Agreeing
  <1>1. /\ mode = "clear" /\ mode' = "output" /\ toClear.left = 0
        /\ cursor' = 0 /\ linesCleared' = linesCleared + toClear.rows
        /\ UNCHANGED <<screen, buffer, bufRow, bufCol, scrollPos, scrollMax, saved, lastCol, typed, out, strayed>>
    BY DEF ClearEnds
  <1>2. strayed = {} /\ saved = None /\ bufCol = 0
    BY <1>1 DEF Bounds, Saved, Columns
  <1>3. RowOf(Here)' = 0 /\ ColOf(Here)' = 0
    <2>1. Here' = 0
      BY <1>1, <1>2 DEF Here, Scrolled
    <2>2. RowOf(Here') = 0 /\ ColOf(Here') = 0
      BY <2>1, AtTop
    <2> QED
      BY <2>2 DEF RowOf, ColOf
  <1>4. /\ scrollMax \in Nat /\ bufRow \in Nat /\ linesCleared \in Nat
        /\ toClear \in [left : 0..Bottom, rows : 0..Bottom]
    BY Standing, Numbers
  <1>5. /\ scrollMax + toClear.left = bufRow
        /\ linesCleared + toClear.rows - toClear.left <= scrollMax
        /\ \/ scrollMax + toClear.left = linesCleared + toClear.rows
           \/ toClear.rows = Bottom \/ linesCleared >= Bottom
        /\ BlankBehind(buffer, bufRow, bufCol) /\ WindowOn(screen, buffer, scrollPos, bufRow)
    BY <1>1, <1>2 DEF Agreeing, Together, Cleared
  <1>6. toClear.rows \in 0..Bottom
    BY <1>4
  <1>7. Together'
    BY <1>1, <1>2, <1>3, <1>4, <1>5 DEF Together
  <1>8. linesCleared' <= scrollMax' /\ (scrollMax' = linesCleared' \/ linesCleared' >= Bottom)
    BY <1>1, <1>4, <1>5, <1>6, Sizes
  <1>9. Cleared'
    BY <1>1, <1>8 DEF Cleared
  <1>10. BlankBehind(buffer, bufRow, bufCol)' /\ WindowOn(screen, buffer, scrollPos, bufRow)'
    BY <1>1, <1>5 DEF BlankBehind, WindowOn, RowOf, ColOf, Text
  <1> QED
    BY <1>7, <1>9, <1>10 DEF Agreeing

(* Scrolling back: the row that comes in at the top is the buffer's. *)
LEMMA PageUpAgrees == ASSUME Bounds, Agreeing, PageUp PROVE Agreeing'
  <1> SUFFICES ASSUME strayed' = {} PROVE Agreeing'
    BY DEF Agreeing
  <1> DEFINE p == scrollPos - 1
  <1>1. /\ mode = "input" /\ scrollPos > 0 /\ scrollPos' = p
        /\ saved' = IF saved = None THEN cursor ELSE saved
        /\ screen' = [k \in Cells |-> IF k < W THEN FromBuffer(p)[k] ELSE screen[k - W]]
        /\ UNCHANGED <<cursor, buffer, bufRow, bufCol, scrollMax, linesCleared, lastCol,
                       mode, typed, toClear, out, strayed>>
    BY DEF PageUp, control
  <1>2. /\ scrollPos \in 0..scrollMax /\ scrollMax \in Nat /\ bufRow \in Nat /\ scrollMax <= bufRow
        /\ bufRow <= ROWS
    BY Standing, Numbers
  <1>3. p \in Nat /\ p < bufRow /\ scrollPos = p + 1
    BY <1>1, <1>2
  <1> HIDE DEF p
  <1>4. Here' = Here /\ RowOf(Here)' = RowOf(Here) /\ ColOf(Here)' = ColOf(Here)
    <2>1. cursor \in Cells /\ None \notin Cells
      BY Within DEF Bounds, TypeOK, None
    <2> QED
      BY <1>1, <2>1 DEF Here, Scrolled, RowOf, ColOf
  <1>5. /\ Together /\ Cleared /\ BlankBehind(buffer, bufRow, bufCol)
        /\ WindowOn(screen, buffer, scrollPos, bufRow)
    BY <1>1 DEF Agreeing
  <1>6. ASSUME NEW k \in Cells
        PROVE Text(screen'[k]) = IF p + RowOf(k) > bufRow THEN Blank ELSE Text(buffer[p * W + k])
    <2>1. k \in Nat /\ RowOf(k) \in Nat /\ RowOf(k) <= Bottom /\ 1 * W = W /\ W \in Nat
      BY Within, Split, Sizes
    <2>2. CASE k < W
      <3>1. RowOf(k) = 0
        <4>1. RowOf(k) < 1
          BY <2>1, <2>2, Above
        <4> QED
          BY <2>1, <4>1
      <3>2. k \in 0..W-1
        BY <2>1, <2>2
      <3>3. screen'[k] = buffer[p * W + k]
        BY <1>1, <2>2, <3>2 DEF FromBuffer
      <3>4. ~(p + RowOf(k) > bufRow)
        BY <1>2, <1>3, <3>1
      <3> QED
        BY <3>3, <3>4
    <2>3. CASE ~(k < W)
      <3> DEFINE j == k - W
      <3>1. j \in Nat /\ k = j + W
        BY <2>1, <2>3
      <3> HIDE DEF j
      <3>2. RowOf(k) = RowOf(j) + 1 /\ RowOf(j) \in Nat
        BY <3>1, OneDown, Split
      <3>3. j \in Cells
        BY <2>1, <3>1, <3>2, Within, Sizes
      <3>4. screen'[k] = screen[j]
        BY <1>1, <2>3 DEF j
      <3>5. Text(screen[j]) = IF scrollPos + RowOf(j) > bufRow THEN Blank ELSE Text(buffer[scrollPos * W + j])
        BY <1>5, <3>3 DEF WindowOn
      <3>6. scrollPos + RowOf(j) = p + RowOf(k)
        BY <1>3, <3>2
      <3>7. scrollPos * W + j = p * W + k
        BY <1>3, <3>1, Sizes
      <3> QED
        BY <3>4, <3>5, <3>6, <3>7
    <2> QED
      BY <2>2, <2>3
  <1>7. WindowOn(screen, buffer, scrollPos, bufRow)'
    BY <1>1, <1>6 DEF WindowOn, RowOf, Text
  <1>8. BlankBehind(buffer, bufRow, bufCol)'
    BY <1>1, <1>5 DEF BlankBehind, RowOf, ColOf, Text
  <1>9. Together' /\ Cleared'
    BY <1>1, <1>4, <1>5 DEF Together, Cleared
  <1> QED
    BY <1>7, <1>8, <1>9 DEF Agreeing

(* What scrolling down blanks of the buffer was blank. *)
LEMMA PagedReadsSame ==
  ASSUME Bounds, Agreeing, strayed = {}, mode # "clear"
  PROVE \A k \in BufCells : Text(buffer[k]) = Text(PagedBuffer[k])
  <1> TAKE k \in BufCells
  <1>1. CASE Ended(k)
    <2>1. /\ bufCol \in 0..W-1 /\ BlankBehind(buffer, bufRow, bufCol) /\ bufRow \in Nat
      BY Agreed, Standing
    <2>2. k \in Nat /\ k >= bufRow*W + bufCol
      <3>1. bufRow * W + bufCol \in Int
        BY <2>1, Sizes
      <3>2. k \in Nat
        BY Within
      <3> QED
        BY <1>1, <3>1, <3>2 DEF Ended
    <2>3. RowOf(k) > bufRow \/ (RowOf(k) = bufRow /\ ColOf(k) >= bufCol)
      BY <2>1, <2>2, Behind
    <2>4. Text(buffer[k]) = Blank
      BY <2>1, <2>3 DEF BlankBehind
    <2>5. PagedBuffer[k] = Blank
      BY <1>1 DEF PagedBuffer
    <2> QED
      BY <2>4, <2>5, TextBlank
  <1>2. CASE ~Ended(k)
    BY <1>2 DEF PagedBuffer
  <1> QED
    BY <1>1, <1>2

(* The row that comes in at the bottom is the one the window then ends with.  *)
(* With nothing cleared it is as far from the last row as the view is from the *)
(* end; with rows cleared it is copied, if the last row is not before it, or   *)
(* blank: then the row it replaces is behind the last one too, or is blanked. *)
LEMMA IncomingRow ==
  ASSUME Bounds, Agreeing, strayed = {}, mode # "clear"
  PROVE /\ Copies => NewRow = NewPos + Bottom /\ NewPos + Bottom <= bufRow
        /\ ~Copies => IF linesCleared = 0 THEN ~Moved /\ ~Blanks ELSE NewPos + Bottom > bufRow
        /\ ~Copies /\ ~Blanks /\ Moved => scrollPos + Bottom > bufRow
  <1>1. /\ scrollPos \in Nat /\ scrollMax \in Nat /\ NewPos \in Nat /\ NewPos <= scrollMax /\ bufRow \in Nat
        /\ (Scrolled => Moved /\ NewPos = scrollPos + 1)
        /\ (~Scrolled => ~Moved /\ NewPos = scrollPos /\ NewPos = scrollMax)
    BY PageDownNumbers
  <1>2. /\ scrollMax + RowOf(Here) = bufRow /\ linesCleared \in Nat /\ linesCleared <= scrollMax
        /\ scrollMax = linesCleared \/ RowOf(Here) = Bottom \/ linesCleared >= Bottom
    BY Agreed
  <1>3. RowOf(Here) \in 0..Bottom /\ Bottom \in Nat /\ Bottom >= 1
    BY Standing, Sizes
  <1>4. Moved => scrollPos < scrollMax
    BY DEF Moved
  <1>5. CASE linesCleared = 0
    <2>1. ~Past /\ ~Blanks /\ (Copies <=> NewPos < scrollMax \/ Scrolled)
      BY <1>5 DEF Past, Blanks, Copies
    <2>2. CASE Scrolled
      <3>1. scrollMax > 0
        BY <1>1, <1>4, <2>2
      <3>2. RowOf(Here) = Bottom
        BY <1>2, <1>3, <1>5, <3>1
      <3> QED
        <4>1. NewRow = NewPos + Bottom
          BY <1>1, <1>2, <1>3, <2>1, <3>2 DEF NewRow
        <4>2. NewPos + Bottom <= bufRow /\ Copies
          BY <1>1, <1>2, <1>3, <2>1, <2>2, <3>2
        <4> QED
          BY <1>5, <4>1, <4>2
    <2>3. CASE ~Scrolled
      BY <1>1, <1>5, <2>1, <2>3
    <2> QED
      BY <2>2, <2>3
  <1>6. CASE linesCleared # 0
    <2>1. linesCleared > 0 /\ scrollMax >= 1 /\ (Copies <=> Past) /\ NewPos >= 1
      BY <1>1, <1>2, <1>6 DEF Copies
    <2>2. Copies => NewRow = NewPos + Bottom /\ NewPos + Bottom <= bufRow
      BY <2>1 DEF NewRow, Past
    <2>3. ~Copies => NewPos + Bottom > bufRow
      BY <1>1, <1>2, <1>3, <2>1 DEF Past
    <2>4. ASSUME ~Copies, ~Blanks, Moved PROVE scrollPos + Bottom > bufRow
      <3>1. NewPos + linesCleared <= scrollMax /\ NewPos = scrollPos + 1
        BY <1>1, <1>2, <2>1, <2>4 DEF Blanks, NewPos
      <3> QED
        BY <1>1, <1>2, <1>3, <1>4, <2>3, <2>4, <3>1
    <2> QED
      BY <1>6, <2>2, <2>3, <2>4
  <1> QED
    BY <1>5, <1>6

(* Scrolling down keeps the window, whether or not it is back at the cursor. *)
LEMMA PageDownAgrees == ASSUME Bounds, Agreeing, PageDown PROVE Agreeing'
  <1> SUFFICES ASSUME strayed' = {} PROVE Agreeing'
    BY DEF Agreeing
  <1>1. /\ mode = "input" /\ scrollPos' = NewPos /\ buffer' = PagedBuffer
        /\ screen' = [k \in Cells |-> PagedCell(k)]
        /\ cursor' = IF BackAgain THEN saved ELSE IF NewPos < scrollMax THEN Bottom * W ELSE cursor
        /\ saved' = IF BackAgain THEN None ELSE saved
        /\ UNCHANGED <<bufRow, bufCol, scrollMax, linesCleared, lastCol, mode, typed, toClear, out, strayed>>
    BY PageDownIs
  <1>2. strayed = {} /\ mode # "clear"
    BY <1>1
  <1>3. /\ scrollPos \in Nat /\ scrollMax \in Nat /\ NewPos \in Nat /\ NewPos <= scrollMax
        /\ NewRow \in Nat /\ bufRow \in Nat /\ bufRow <= ROWS
        /\ (Scrolled => Moved /\ NewPos = scrollPos + 1)
        /\ (~Scrolled => ~Moved /\ NewPos = scrollPos /\ NewPos = scrollMax)
    BY PageDownNumbers, Standing
  <1>4. /\ bufCol = ColOf(Here) /\ scrollMax + RowOf(Here) = bufRow /\ linesCleared \in Nat
        /\ BlankBehind(buffer, bufRow, bufCol) /\ WindowOn(screen, buffer, scrollPos, bufRow)
        /\ RowOf(Here) \in 0..Bottom /\ Together /\ Cleared
    BY <1>2, Agreed, Standing DEF Agreeing
  <1>5. Here' = Here /\ RowOf(Here)' = RowOf(Here) /\ ColOf(Here)' = ColOf(Here)
    <2>1. CASE BackAgain
      BY <1>1, <2>1 DEF Here, Scrolled, BackAgain, RowOf, ColOf
    <2>2. CASE ~BackAgain /\ Scrolled
      BY <1>1, <2>2 DEF Here, Scrolled, RowOf, ColOf
    <2>3. CASE ~Scrolled
      BY <1>1, <1>3, <2>3 DEF Here, Scrolled, BackAgain, RowOf, ColOf
    <2> QED
      BY <2>1, <2>2, <2>3
  <1>6. \A k \in BufCells : Text(buffer[k]) = Text(PagedBuffer[k])
    BY <1>2, PagedReadsSame
  <1>7. ASSUME NEW k \in Cells
        PROVE Text(PagedCell(k)) = IF NewPos + RowOf(k) > bufRow THEN Blank ELSE Text(buffer[NewPos * W + k])
    <2>1. /\ k \in Nat /\ RowOf(k) \in 0..Bottom /\ ColOf(k) \in 0..W-1 /\ NewPos * W + k \in Nat
          /\ RowOf(NewPos * W + k) = NewPos + RowOf(k) /\ ColOf(NewPos * W + k) = ColOf(k)
          /\ NewPos + RowOf(k) <= ROWS => NewPos * W + k \in BufCells
      BY <1>3, InWindow
    <2>2. Text(screen[k]) = IF scrollPos + RowOf(k) > bufRow THEN Blank ELSE Text(buffer[scrollPos * W + k])
      BY <1>4 DEF WindowOn
    <2>3. CASE k < Bottom * W /\ Moved
      <3>1. k + W \in Cells /\ RowOf(k + W) = RowOf(k) + 1
        BY <2>3, CellBelow
      <3>2. PagedCell(k) = screen[k + W]
        BY <2>3, PagedCellIs
      <3>3. Text(screen[k + W]) = IF scrollPos + RowOf(k + W) > bufRow THEN Blank
                                  ELSE Text(buffer[scrollPos * W + (k + W)])
        BY <1>4, <3>1 DEF WindowOn
      <3>4. NewPos = scrollPos + 1
        BY <2>3 DEF NewPos
      <3>5. scrollPos * W + (k + W) = NewPos * W + k
        BY <1>3, <2>1, <3>4, Sizes
      <3>6. scrollPos + RowOf(k + W) = NewPos + RowOf(k)
        BY <1>3, <2>1, <3>1, <3>4
      <3> QED
        BY <3>2, <3>3, <3>5, <3>6
    <2>4. CASE k < Bottom * W /\ ~Moved
      <3>1. PagedCell(k) = screen[k] /\ NewPos = scrollPos
        BY <2>4, PagedCellIs DEF NewPos
      <3> QED
        BY <2>2, <3>1
    <2>5. CASE ~(k < Bottom * W)
      <3>1. RowOf(k) = Bottom
        <4>1. ~(RowOf(k) < Bottom)
          BY <2>1, <2>5, Above, Sizes
        <4> QED
          BY <2>1, <4>1, Sizes
      <3>2. CASE BackAgain /\ ColOf(k) >= SavedCol
        <4>1. PagedCell(k) = Blank
          BY <2>5, <3>2, PagedCellIs
        <4>2. ColOf(k) >= bufCol /\ NewPos = scrollMax
          BY <1>4, <3>2 DEF BackAgain, Here, SavedCol
        <4>3. ~(NewPos + RowOf(k) > bufRow) => NewPos + RowOf(k) = bufRow /\ NewPos * W + k \in BufCells
          BY <1>3, <1>4, <2>1, <3>1, <4>2, Sizes
        <4>4. ~(NewPos + RowOf(k) > bufRow) => Text(buffer[NewPos * W + k]) = Blank
          BY <1>4, <2>1, <4>2, <4>3 DEF BlankBehind
        <4> QED
          BY <4>1, <4>4, TextBlank
      <3>3. CASE ~(BackAgain /\ ColOf(k) >= SavedCol)
        <4>1. PagedCell(k) = BottomCell(k)
          BY <2>5, <3>3, PagedCellIs
        <4>2. CASE Copies
          <5>1. NewRow = NewPos + Bottom /\ ~(NewPos + RowOf(k) > bufRow) /\ NewPos + RowOf(k) <= ROWS
            BY <1>2, <1>3, <2>1, <3>1, <4>2, IncomingRow, Sizes
          <5>2. NewRow * W + ColOf(k) = NewPos * W + k
            BY <2>1, <3>1, <5>1, Split
          <5>3. BottomCell(k) = PagedBuffer[NewPos * W + k]
            BY <4>2, <5>2 DEF BottomCell
          <5> QED
            BY <1>6, <2>1, <4>1, <5>1, <5>3
        <4>3. CASE ~Copies /\ linesCleared = 0
          <5>1. ~Moved /\ ~Blanks
            BY <1>2, <4>3, IncomingRow
          <5>2. BottomCell(k) = screen[k] /\ NewPos = scrollPos
            BY <4>3, <5>1 DEF BottomCell, NewPos
          <5> QED
            BY <2>2, <4>1, <5>2
        <4>4. CASE ~Copies /\ linesCleared # 0
          <5>1. NewPos + RowOf(k) > bufRow
            BY <1>2, <3>1, <4>4, IncomingRow
          <5>2. CASE Blanks
            BY <4>1, <4>4, <5>1, <5>2, TextBlank DEF BottomCell
          <5>3. CASE ~Blanks
            <6>1. BottomCell(k) = screen[k]
              BY <4>4, <5>3 DEF BottomCell
            <6>2. scrollPos + RowOf(k) > bufRow
              <7>1. CASE Moved
                BY <1>2, <3>1, <4>4, <5>3, <7>1, IncomingRow
              <7>2. CASE ~Moved
                BY <5>1, <7>2 DEF NewPos
              <7> QED
                BY <7>1, <7>2
            <6> QED
              BY <2>2, <4>1, <5>1, <6>1, <6>2
          <5> QED
            BY <5>2, <5>3
        <4> QED
          BY <4>2, <4>3, <4>4
      <3> QED
        BY <3>2, <3>3
    <2> QED
      BY <2>3, <2>4, <2>5
  <1>8. WindowOn(screen', buffer, NewPos, bufRow)
    BY <1>1, <1>7 DEF WindowOn
  <1>9. WindowOn(screen', PagedBuffer, NewPos, bufRow) /\ BlankBehind(PagedBuffer, bufRow, bufCol)
    BY <1>3, <1>4, <1>6, <1>8, SameText
  <1>10. BlankBehind(buffer, bufRow, bufCol)' /\ WindowOn(screen, buffer, scrollPos, bufRow)'
    BY <1>1, <1>9 DEF BlankBehind, WindowOn, RowOf, ColOf, Text
  <1>11. Together' /\ Cleared'
    BY <1>1, <1>4, <1>5 DEF Together, Cleared
  <1> QED
    BY <1>10, <1>11 DEF Agreeing

(* Every step keeps screen and buffer in agreement, until one strays. *)
LEMMA AgreesStep == ASSUME Bounds, Agreeing, [Next]_vars PROVE Agreeing'
  <1>1. CASE UNCHANGED vars
    BY <1>1 DEF vars, counters, control, Agreeing, Together, Cleared, BlankBehind, WindowOn, Here, Scrolled,
                RowOf, ColOf, Text
  <1> QED
    BY <1>1, OutputAgrees, OutputLineFeedAgrees, ClearAgrees, ClearRowAgrees, ClearEndsAgrees, PromptAgrees,
       TypeAgrees, BackspaceAgrees, ReturnAgrees, PageUpAgrees, PageDownAgrees, Zenon DEF Next, vga_on_key_pressed

(* Both are blank at first. *)
LEMMA AgreesInit == Init => Agreeing
  <1> SUFFICES ASSUME Init PROVE Agreeing
    OBVIOUS
  <1>1. /\ screen = [k \in Cells |-> Blank] /\ cursor = 0
        /\ buffer = [k \in BufCells |-> IF k < H*W THEN Blank ELSE Unset]
        /\ bufRow = 0 /\ bufCol = 0 /\ scrollPos = 0 /\ scrollMax = 0
        /\ linesCleared = 0 /\ saved = None /\ mode = "output"
    BY DEF Init
  <1>2. Here = 0 /\ RowOf(Here) = 0 /\ ColOf(Here) = 0
    BY <1>1, AtTop DEF Here, Scrolled
  <1>3. Together /\ Cleared
    BY <1>1, <1>2 DEF Together, Cleared
  <1>4. \A k \in BufCells : Text(buffer[k]) = Blank
    BY <1>1, TextBlank
  <1>5. BlankBehind(buffer, bufRow, bufCol)
    BY <1>4 DEF BlankBehind
  <1>6. WindowOn(screen, buffer, scrollPos, bufRow)
    <2>1. ASSUME NEW k \in Cells
          PROVE Text(screen[k]) = IF 0 + RowOf(k) > 0 THEN Blank ELSE Text(buffer[0 * W + k])
      <3>1. Text(screen[k]) = Blank
        BY <1>1, TextBlank
      <3>2. 0 + RowOf(k) <= ROWS => 0 * W + k \in BufCells
        BY InWindow
      <3>3. RowOf(k) \in Nat /\ (~(0 + RowOf(k) > 0) => 0 + RowOf(k) <= ROWS)
        BY Within, Split, Sizes
      <3> QED
        BY <1>4, <3>1, <3>2, <3>3
    <2> QED
      BY <1>1, <2>1 DEF WindowOn
  <1> QED
    BY <1>3, <1>5, <1>6 DEF Agreeing

------------------------------------------------------------------------------
(* The terminal keeps its bounds for ever, and screen and buffer agree until   *)
(* one of the three ways of straying is met.                               *)
THEOREM Invariant == Spec => []IInv
  <1>1. Init => IInv
    BY BoundsInit, AgreesInit DEF IInv
  <1>2. IInv /\ [Next]_vars => IInv'
    BY BoundsStep, AgreesStep DEF IInv
  <1> QED
    BY <1>1, <1>2, PTL DEF Spec

(* Every offset the code computes from its counters stays on the screen or in *)
(* the buffer, even after the counters have come apart.                     *)
THEOREM TypeCorrect == Spec => []TypeOK
  <1>1. IInv => TypeOK
    BY DEF IInv, Bounds
  <1> QED
    BY <1>1, Invariant, PTL

(* The cursor on the screen and the place in the buffer are one place, and a   *)
(* cursor is saved exactly while the view is scrolled back.                  *)
THEOREM Follows == Spec => []CursorFollows
  <1>1. IInv => CursorFollows
    <2> SUFFICES ASSUME Bounds, Agreeing, mode # "clear", strayed = {}
                 PROVE (Scrolled <=> scrollPos < scrollMax) /\ scrollMax * W + Here = bufRow * W + bufCol
      BY DEF IInv, CursorFollows
    <2>1. Scrolled <=> scrollPos < scrollMax
      BY Numbers, Standing DEF Bounds, Saved, Scrolled
    <2> QED
      BY <2>1, NextPlace
  <1> QED
    BY <1>1, Invariant, PTL

(* Whatever has been printed, erased, cleared and scrolled, the screen is a     *)
(* window on the buffer, until the counters come apart.                      *)
THEOREM IsWindow == Spec => []ScreenIsWindow
  <1>1. IInv => ScreenIsWindow
    BY DEF IInv, Agreeing, ScreenIsWindow, ShowsWindow, WindowOn
  <1> QED
    BY <1>1, Invariant, PTL

------------------------------------------------------------------------------
(* The buffer, read row by row, is the roll of rows of Terminal.            *)

Lines == [0..W-1 -> Unset..MaxOut]
RollOf(buf, row) == [r \in 1..row + 1 |-> [c \in 0..W-1 |-> Text(buf[(r - 1) * W + c])]]

(* The rows of a roll, and the cells they are read from. *)
LEMMA RollIs ==
  ASSUME NEW buf \in Buffers, NEW row \in Nat, row <= ROWS
  PROVE /\ RollOf(buf, row) \in Seq(Lines) /\ Len(RollOf(buf, row)) = row + 1 /\ RollOf(buf, row) # <<>>
        /\ \A r \in 1..row + 1, c \in 0..W-1 :
             /\ RollOf(buf, row)[r][c] = Text(buf[(r - 1) * W + c])
             /\ (r - 1) * W + c \in BufCells
             /\ RowOf((r - 1) * W + c) = r - 1 /\ ColOf((r - 1) * W + c) = c
  <1>1. ASSUME NEW r \in 1..row + 1, NEW c \in 0..W-1
        PROVE (r - 1) * W + c \in BufCells /\ RowOf((r - 1) * W + c) = r - 1 /\ ColOf((r - 1) * W + c) = c
    <2>1. r - 1 \in Nat /\ r - 1 <= ROWS
      BY Sizes
    <2>2. /\ (r - 1) * W + c \in Nat /\ RowOf((r - 1) * W + c) = r - 1
          /\ ColOf((r - 1) * W + c) = c
      BY <2>1, Unique
    <2> QED
      BY <2>1, <2>2, Within
  <1>2. ASSUME NEW r \in 1..row + 1, NEW c \in 0..W-1
        PROVE Text(buf[(r - 1) * W + c]) \in Unset..MaxOut
    <2>1. buf[(r - 1) * W + c] \in Unset..MaxOut
      BY <1>1 DEF Buffers
    <2> QED
      BY <2>1, Glyphs DEF Text
  <1>3. ASSUME NEW r \in 1..row + 1 PROVE [c \in 0..W-1 |-> Text(buf[(r - 1) * W + c])] \in Lines
    BY <1>2 DEF Lines
  <1>4. RollOf(buf, row) \in [1..row + 1 -> Lines]
    BY <1>3, Zenon DEF RollOf
  <1>5. RollOf(buf, row) \in Seq(Lines) /\ Len(RollOf(buf, row)) = row + 1
    <2>1. row + 1 \in Nat
      OBVIOUS
    <2>2. RollOf(buf, row) \in Seq(Lines)
      BY <1>4, <2>1, IsASeq
    <2>3. DOMAIN RollOf(buf, row) = 1..row + 1
      BY DEF RollOf
    <2> QED
      BY <2>1, <2>2, <2>3, LenProperties
  <1>6. RollOf(buf, row) # <<>>
    BY <1>5
  <1>7. \A r \in 1..row + 1, c \in 0..W-1 : RollOf(buf, row)[r][c] = Text(buf[(r - 1) * W + c])
    BY Zenon DEF RollOf
  <1> QED
    BY <1>1, <1>5, <1>6, <1>7

(* Rolls of the same cells are the same. *)
LEMMA RollsEqual ==
  ASSUME NEW s \in Seq(Lines), NEW t \in Seq(Lines), Len(s) = Len(t),
         \A r \in 1..Len(s), c \in 0..W-1 : s[r][c] = t[r][c]
  PROVE s = t
  <1>1. ASSUME NEW r \in 1..Len(s) PROVE s[r] = t[r]
    <2>1. s[r] \in Lines /\ t[r] \in Lines
      BY ElementOfSeq
    <2>2. \A c \in 0..W-1 : s[r][c] = t[r][c]
      OBVIOUS
    <2>3. ASSUME NEW f \in Lines, NEW g \in Lines, \A c \in 0..W-1 : f[c] = g[c]
          PROVE f = g
      <3>1. f = [c \in 0..W-1 |-> f[c]] /\ g = [c \in 0..W-1 |-> g[c]]
        BY Zenon DEF Lines
      <3> QED
        BY <2>3, <3>1, Zenon
    <2> QED
      BY <2>1, <2>2, <2>3, Zenon
  <1> QED
    BY <1>1, SeqEqual

(* Buffers that read the same are the same roll. *)
LEMMA SameRoll ==
  ASSUME NEW buf \in Buffers, NEW other \in Buffers, NEW row \in Nat, row <= ROWS,
         \A k \in BufCells : Text(buf[k]) = Text(other[k])
  PROVE RollOf(buf, row) = RollOf(other, row)
  <1>1. /\ RollOf(buf, row) \in Seq(Lines) /\ Len(RollOf(buf, row)) = row + 1
        /\ RollOf(other, row) \in Seq(Lines) /\ Len(RollOf(other, row)) = row + 1
    BY RollIs
  <1>2. ASSUME NEW r \in 1..row + 1, NEW c \in 0..W-1
        PROVE RollOf(buf, row)[r][c] = RollOf(other, row)[r][c]
    <2>1. RollOf(buf, row)[r][c] = Text(buf[(r - 1) * W + c]) /\ (r - 1) * W + c \in BufCells
      BY RollIs
    <2>2. RollOf(other, row)[r][c] = Text(other[(r - 1) * W + c])
      BY RollIs
    <2> QED
      BY <2>1, <2>2, Zenon
  <1> QED
    BY <1>1, <1>2, RollsEqual

(* A cell written to the last row. *)
LEMMA RollWritten ==
  ASSUME NEW buf \in Buffers, NEW row \in Nat, row <= ROWS, NEW col \in 0..W-1, NEW x \in 0..MaxOut
  PROVE RollOf([buf EXCEPT ![row * W + col] = x], row) = [RollOf(buf, row) EXCEPT ![row + 1][col] = x]
  <1> DEFINE b2 == [buf EXCEPT ![row * W + col] = x]
             s == RollOf(buf, row)
             t == [s EXCEPT ![row + 1][col] = x]
  <1>1. x \in Unset..MaxOut /\ Text(x) = x
    BY DEF Unset, Text
  <1>2. b2 \in Buffers
    BY <1>1 DEF Buffers
  <1>3. /\ s \in Seq(Lines) /\ Len(s) = row + 1
        /\ \A r \in 1..row + 1, c \in 0..W-1 :
             /\ s[r][c] = Text(buf[(r - 1) * W + c])
             /\ (r - 1) * W + c \in BufCells
             /\ RowOf((r - 1) * W + c) = r - 1 /\ ColOf((r - 1) * W + c) = c
    BY RollIs
  <1>4. /\ RollOf(b2, row) \in Seq(Lines) /\ Len(RollOf(b2, row)) = row + 1
        /\ \A r \in 1..row + 1, c \in 0..W-1 : RollOf(b2, row)[r][c] = Text(b2[(r - 1) * W + c])
    BY <1>2, RollIs
  <1>5. \A r \in 1..row + 1, c \in 0..W-1 :
          (r - 1) * W + c = row * W + col <=> r = row + 1 /\ c = col
    <2> TAKE r \in 1..row + 1, c \in 0..W-1
    <2>1. RowOf(row * W + col) = row /\ ColOf(row * W + col) = col
      BY Unique
    <2>2. RowOf((r - 1) * W + c) = r - 1 /\ ColOf((r - 1) * W + c) = c
      BY <1>3
    <2>3. r = row + 1 /\ c = col => (r - 1) * W + c = row * W + col
      <3>1. r = row + 1 => r - 1 = row
        OBVIOUS
      <3> QED
        BY <3>1, Zenon
    <2>4. (r - 1) * W + c = row * W + col => r - 1 = row /\ c = col
      BY <2>1, <2>2
    <2> QED
      BY <2>3, <2>4
  <1> HIDE DEF s
  <1>6. row + 1 \in 1..Len(s) /\ s[row + 1] \in Lines
    <2>1. row + 1 \in 1..Len(s)
      BY <1>3
    <2> QED
      BY <1>3, <2>1, ElementOfSeq
  <1>7. t = [s EXCEPT ![row + 1] = [s[row + 1] EXCEPT ![col] = x]] /\ [s[row + 1] EXCEPT ![col] = x] \in Lines
    <2>1. [s[row + 1] EXCEPT ![col] = x] \in Lines
      BY <1>1, <1>6 DEF Lines
    <2> QED
      BY <2>1
  <1>8. /\ t \in Seq(Lines) /\ Len(t) = row + 1
        /\ t[row + 1] = [s[row + 1] EXCEPT ![col] = x]
        /\ \A r \in 1..row + 1 : r # row + 1 => t[r] = s[r]
    BY <1>3, <1>6, <1>7, ExceptSeq
  <1>9. \A r \in 1..row + 1, c \in 0..W-1 : t[r][c] = IF r = row + 1 /\ c = col THEN x ELSE s[r][c]
    <2> TAKE r \in 1..row + 1, c \in 0..W-1
    <2>1. CASE r = row + 1
      <3>1. t[r] = [s[row + 1] EXCEPT ![col] = x] /\ s[row + 1] \in [0..W-1 -> Unset..MaxOut]
        BY <1>6, <1>8, <2>1 DEF Lines
      <3> QED
        BY <2>1, <3>1
    <2>2. CASE r # row + 1
      BY <1>8, <2>2
    <2> QED
      BY <2>1, <2>2
  <1>10. \A r \in 1..row + 1, c \in 0..W-1 :
           Text(b2[(r - 1) * W + c]) = IF r = row + 1 /\ c = col THEN x ELSE s[r][c]
    <2> TAKE r \in 1..row + 1, c \in 0..W-1
    <2>1. CASE r = row + 1 /\ c = col
      <3>1. (r - 1) * W + c = row * W + col /\ (r - 1) * W + c \in BufCells
        BY <1>3, <1>5, <2>1
      <3>2. b2[(r - 1) * W + c] = x
        BY <3>1 DEF Buffers
      <3> QED
        BY <1>1, <2>1, <3>2
    <2>2. CASE ~(r = row + 1 /\ c = col)
      <3>1. (r - 1) * W + c # row * W + col /\ (r - 1) * W + c \in BufCells
        BY <1>3, <1>5, <2>2
      <3>2. b2[(r - 1) * W + c] = buf[(r - 1) * W + c]
        BY <3>1 DEF Buffers
      <3> QED
        BY <1>3, <2>2, <3>2
    <2> QED
      BY <2>1, <2>2
  <1> HIDE DEF b2, t
  <1>11. \A r \in 1..row + 1, c \in 0..W-1 : RollOf(b2, row)[r][c] = t[r][c]
    BY <1>4, <1>9, <1>10
  <1>12. RollOf(b2, row) = t
    BY <1>4, <1>8, <1>11, RollsEqual
  <1> QED
    BY <1>12 DEF b2, s, t

(* A blank row is a row. *)
LEMMA BlankLine == T!BlankRow \in Lines /\ \A c \in 0..W-1 : T!BlankRow[c] = Blank
  BY Glyphs DEF T!BlankRow, Lines

(* A blank row after the last begins the next. *)
LEMMA RollBegun ==
  ASSUME NEW buf \in Buffers, NEW row \in Nat, row < ROWS,
         \A k \in BufCells : RowOf(k) = row + 1 => Text(buf[k]) = Blank
  PROVE RollOf(buf, row + 1) = T!Begin(RollOf(buf, row))
  <1> DEFINE s == RollOf(buf, row)
             t == RollOf(buf, row + 1)
  <1>1. /\ s \in Seq(Lines) /\ Len(s) = row + 1
        /\ \A r \in 1..row + 1, c \in 0..W-1 : s[r][c] = Text(buf[(r - 1) * W + c])
    <2>1. row <= ROWS
      BY Sizes
    <2> QED
      BY <2>1, RollIs
  <1>2. /\ t \in Seq(Lines) /\ Len(t) = row + 2
        /\ \A r \in 1..row + 2, c \in 0..W-1 :
             /\ t[r][c] = Text(buf[(r - 1) * W + c])
             /\ (r - 1) * W + c \in BufCells /\ RowOf((r - 1) * W + c) = r - 1
    <2>1. row + 1 \in Nat /\ row + 1 <= ROWS /\ row + 1 + 1 = row + 2
      BY Sizes
    <2>2. /\ t \in Seq(Lines) /\ Len(t) = row + 1 + 1
          /\ \A r \in 1..row + 1 + 1, c \in 0..W-1 :
               /\ t[r][c] = Text(buf[(r - 1) * W + c])
               /\ (r - 1) * W + c \in BufCells /\ RowOf((r - 1) * W + c) = r - 1
      BY <2>1, RollIs
    <2> QED
      BY <2>1, <2>2
  <1>3. T!Begin(s) = Append(s, T!BlankRow)
    BY <1>1, Sizes DEF T!Begin
  <1> HIDE DEF s, t
  <1>4. /\ Append(s, T!BlankRow) \in Seq(Lines) /\ Len(Append(s, T!BlankRow)) = row + 2
        /\ \A r \in 1..row + 1 : Append(s, T!BlankRow)[r] = s[r]
        /\ Append(s, T!BlankRow)[row + 2] = T!BlankRow
    <2>1. row + 1 + 1 = row + 2
      OBVIOUS
    <2> QED
      BY <1>1, <2>1, BlankLine, AppendProperties
  <1>5. ASSUME NEW r \in 1..row + 2, NEW c \in 0..W-1 PROVE t[r][c] = Append(s, T!BlankRow)[r][c]
    <2>1. CASE r \in 1..row + 1
      BY <1>1, <1>2, <1>4, <2>1
    <2>2. CASE r = row + 2
      <3>1. (r - 1) * W + c \in BufCells /\ RowOf((r - 1) * W + c) = row + 1
        BY <1>2, <2>2
      <3> QED
        BY <1>2, <1>4, <2>2, <3>1, BlankLine
    <2>3. r \in 1..row + 1 \/ r = row + 2
      OBVIOUS
    <2> QED
      BY <2>1, <2>2, <2>3
  <1>6. t = Append(s, T!BlankRow)
    BY <1>2, <1>4, <1>5, RollsEqual
  <1> QED
    BY <1>3, <1>6 DEF s, t

(* A full buffer lifted gives up its oldest row. *)
LEMMA RollLifted ==
  ASSUME NEW buf \in Buffers, bufRow = ROWS
  PROVE RollOf(Lifted(buf), ROWS) = T!Begin(RollOf(buf, ROWS))
  <1> DEFINE s == RollOf(buf, ROWS)
             t == RollOf(Lifted(buf), ROWS)
             u == Tail(s)
  <1>1. ROWS \in Nat /\ ROWS >= 2 /\ Lifted(buf) \in Buffers
    BY Sizes, LiftedType
  <1>2. /\ s \in Seq(Lines) /\ Len(s) = ROWS + 1 /\ s # <<>>
        /\ \A r \in 1..ROWS + 1, c \in 0..W-1 : s[r][c] = Text(buf[(r - 1) * W + c])
    BY <1>1, RollIs
  <1>3. /\ t \in Seq(Lines) /\ Len(t) = ROWS + 1
        /\ \A r \in 1..ROWS + 1, c \in 0..W-1 :
             /\ t[r][c] = Text(Lifted(buf)[(r - 1) * W + c])
             /\ (r - 1) * W + c \in BufCells /\ RowOf((r - 1) * W + c) = r - 1
    BY <1>1, RollIs
  <1>4. T!Begin(s) = Append(u, T!BlankRow)
    BY <1>2 DEF T!Begin
  <1> HIDE DEF s, t
  <1>5. u \in Seq(Lines) /\ Len(u) = ROWS /\ \A r \in 1..ROWS : u[r] = s[r + 1]
    <2>1. Len(u) = ROWS
      BY <1>1, <1>2, HeadTailProperties
    <2> QED
      BY <1>2, <2>1, HeadTailProperties
  <1> HIDE DEF u
  <1>6. /\ Append(u, T!BlankRow) \in Seq(Lines) /\ Len(Append(u, T!BlankRow)) = ROWS + 1
        /\ \A r \in 1..ROWS : Append(u, T!BlankRow)[r] = u[r]
        /\ Append(u, T!BlankRow)[ROWS + 1] = T!BlankRow
    BY <1>5, BlankLine, AppendProperties
  <1>7. ASSUME NEW r \in 1..ROWS + 1, NEW c \in 0..W-1 PROVE t[r][c] = Append(u, T!BlankRow)[r][c]
    <2> DEFINE k == (r - 1) * W + c
    <2>1. t[r][c] = Text(Lifted(buf)[k]) /\ k \in BufCells /\ RowOf(k) = r - 1
      BY <1>3
    <2>2. k \in Nat
      BY <2>1, Within
    <2>3. CASE r \in 1..ROWS
      <3>1. RowOf(k) < bufRow
        BY <1>1, <2>1, <2>3
      <3>2. k < bufRow * W
        BY <1>1, <2>2, <3>1, Above
      <3>3. Lifted(buf)[k] = buf[k + W]
        <4>1. ASSUME NEW n \in BufCells, n < bufRow * W, RowOf(n) # bufRow
              PROVE Lifted(buf)[n] = buf[n + W]
          BY <4>1 DEF Lifted
        <4>2. RowOf(k) # bufRow
          BY <1>1, <2>1, <2>3
        <4> QED
          BY <2>1, <3>2, <4>1, <4>2
      <3>4. r + 1 \in 1..ROWS + 1 /\ k + W = (r + 1 - 1) * W + c
        BY <1>1, <2>3, Sizes
      <3>5. s[r + 1][c] = Text(buf[k + W])
        BY <1>2, <3>4
      <3> QED
        BY <1>5, <1>6, <2>1, <2>3, <3>3, <3>5
    <2>4. CASE r = ROWS + 1
      <3>1. RowOf(k) = bufRow
        BY <1>1, <2>1, <2>4
      <3>2. ~(k < bufRow * W)
        BY <1>1, <2>2, <3>1, Above
      <3>3. Lifted(buf)[k] = Blank
        <4>1. ASSUME NEW n \in BufCells, ~(n < bufRow * W), RowOf(n) = bufRow
              PROVE Lifted(buf)[n] = Blank
          BY <4>1 DEF Lifted
        <4> QED
          BY <2>1, <3>1, <3>2, <4>1
      <3> QED
        BY <1>6, <2>1, <2>4, <3>3, BlankLine, TextBlank
    <2>5. r \in 1..ROWS \/ r = ROWS + 1
      BY <1>1
    <2> QED
      BY <2>3, <2>4, <2>5
  <1>8. t = Append(u, T!BlankRow)
    BY <1>3, <1>6, <1>7, RollsEqual
  <1> QED
    BY <1>4, <1>8 DEF s, t

(* What is read while nothing has strayed. *)
LEMMA Reading ==
  ASSUME Bounds, strayed = {}
  PROVE /\ Readable = RollOf(buffer, bufRow) /\ NextColumn = bufCol
        /\ Readable \in Seq(Lines) /\ ~T!Garbled /\ T!Last = bufRow + 1
  <1>1. Readable = RollOf(buffer, bufRow) /\ NextColumn = bufCol
    BY DEF Readable, NextColumn, Roll, RollOf
  <1>2. bufRow \in Nat /\ bufRow <= ROWS /\ buffer \in Buffers
    BY Standing
  <1>3. Readable \in Seq(Lines) /\ Readable # <<>> /\ Len(Readable) = bufRow + 1
    BY <1>1, <1>2, RollIs
  <1> QED
    BY <1>1, <1>3 DEF T!Garbled, T!Last

(* And what is read next. *)
LEMMA ReadingNext ==
  ASSUME strayed' = {}
  PROVE Readable' = RollOf(buffer', bufRow') /\ NextColumn' = bufCol'
  BY DEF Readable, NextColumn, Roll, RollOf, Text

(* A row that ends begins the next row of the roll. *)
LEMMA NextRowBegins ==
  ASSUME Bounds, mode # "clear", AtFullRow = {},
         NEW scr \in Screens, NEW buf \in Buffers, NextRow(scr, buf),
         \A k \in BufCells : RowOf(k) > bufRow => Text(buf[k]) = Blank
  PROVE bufCol' = 0 /\ RollOf(buffer', bufRow') = T!Begin(RollOf(buf, bufRow))
  <1>1. /\ RowOf(Here) \in 0..Bottom /\ Window = scrollMax /\ bufRow \in Nat /\ bufRow <= ROWS
        /\ Bottom \in Nat /\ ROWS \in Nat
    BY Standing, Sizes
  <1>2. bufCol' = 0 /\ bufRow' = IF bufRow < ROWS THEN bufRow + 1 ELSE bufRow
    BY DEF NextRow, FollowingRow
  <1>3. CASE bufRow < ROWS
    <2>1. buffer' = buf /\ bufRow' = bufRow + 1
      BY <1>2, <1>3 DEF NextRow, RoomBuffer, Room
    <2>2. \A k \in BufCells : RowOf(k) = bufRow + 1 => Text(buf[k]) = Blank
      BY <1>1
    <2>3. RollOf(buf, bufRow + 1) = T!Begin(RollOf(buf, bufRow))
      BY <1>1, <1>3, <2>2, RollBegun
    <2> QED
      BY <1>2, <2>1, <2>3
  <1>4. CASE ~(bufRow < ROWS)
    <2>1. bufRow = ROWS /\ bufRow' = ROWS /\ ~(RowOf(Here) < Bottom)
      BY <1>1, <1>2, <1>4 DEF AtFullRow
    <2>2. buffer' = Lifted(buf)
      BY <1>1, <1>4, <2>1 DEF NextRow, RoomBuffer, Room
    <2>3. RollOf(Lifted(buf), ROWS) = T!Begin(RollOf(buf, ROWS))
      BY <2>1, RollLifted
    <2> QED
      BY <1>2, <2>1, <2>2, <2>3
  <1> QED
    BY <1>3, <1>4

(* Where a character is written, the rows behind stay blank. *)
LEMMA BlankPast ==
  ASSUME Bounds, Agreeing, strayed = {}, mode # "clear", NEW x
  PROVE \A k \in BufCells : RowOf(k) > bufRow => Text([buffer EXCEPT ![bufRow * W + bufCol] = x][k]) = Blank
  <1>1. /\ BlankBehind(buffer, bufRow, bufCol) /\ RowOf(bufRow * W + bufCol) = bufRow
        /\ bufRow \in Nat /\ buffer \in Buffers
    BY Agreed, NextPlace, Standing
  <1>2. ASSUME NEW k \in BufCells, RowOf(k) > bufRow
        PROVE Text([buffer EXCEPT ![bufRow * W + bufCol] = x][k]) = Blank
    <2>1. k # bufRow * W + bufCol
      <3>1. RowOf(k) # bufRow
        BY <1>1, <1>2
      <3> QED
        BY <1>1, <3>1
    <2>2. [buffer EXCEPT ![bufRow * W + bufCol] = x][k] = buffer[k]
      BY <1>1, <2>1 DEF Buffers
    <2>3. Text(buffer[k]) = Blank
      BY <1>1, <1>2 DEF BlankBehind
    <2> QED
      BY <2>2, <2>3
  <1> QED
    BY <1>2

(* A character printed is written to the roll. *)
LEMMA PutWrites ==
  ASSUME Bounds, Agreeing, mode # "clear", NEW c \in 1..MaxOut, Put(c), strayed' = {}
  PROVE T!Write(c)
  <1> DEFINE scr == [Shown EXCEPT ![Here] = c]
             buf == [buffer EXCEPT ![bufRow * W + bufCol] = c]
  <1>1. IF ColOf(Here) + 1 < W
          THEN /\ buffer' = buf /\ bufCol' = bufCol + 1 /\ bufRow' = bufRow
               /\ strayed' = strayed \cup AtBottomCopy
          ELSE /\ NextRow(scr, buf)
               /\ strayed' = strayed \cup AtBottomCopy \cup AtFullRow
    BY Zenon DEF Put
  <1>2. strayed = {} /\ (~(ColOf(Here) + 1 < W) => AtFullRow = {})
    BY <1>1
  <1>3. bufCol = ColOf(Here) /\ bufCol \in 0..W-1 /\ bufRow \in Nat /\ bufRow <= ROWS
        /\ buffer \in Buffers /\ Shown \in Screens
    BY <1>2, Agreed, Standing
  <1>4. scr \in Screens /\ buf \in Buffers
    <2>1. c \in Unset..MaxOut
      BY Glyphs
    <2> QED
      BY <1>3, <2>1 DEF Screens, Buffers
  <1>5. /\ Readable = RollOf(buffer, bufRow) /\ NextColumn = bufCol /\ ~T!Garbled /\ T!Last = bufRow + 1
        /\ Readable' = RollOf(buffer', bufRow') /\ NextColumn' = bufCol'
    BY <1>2, Reading, ReadingNext
  <1>6. RollOf(buf, bufRow) = [RollOf(buffer, bufRow) EXCEPT ![bufRow + 1][bufCol] = c]
    <2>1. c \in 0..MaxOut
      OBVIOUS
    <2> QED
      BY <1>3, <2>1, RollWritten
  <1>7. \A k \in BufCells : RowOf(k) > bufRow => Text(buf[k]) = Blank
    BY <1>2, BlankPast
  <1> HIDE DEF buf, scr
  <1>8. RollOf(buf, bufRow) = [Readable EXCEPT ![T!Last][NextColumn] = c]
    BY <1>5, <1>6
  <1>9. IF NextColumn + 1 < W
          THEN Readable' = RollOf(buf, bufRow) /\ NextColumn' = NextColumn + 1
          ELSE Readable' = T!Begin(RollOf(buf, bufRow)) /\ NextColumn' = 0
    <2>1. CASE ColOf(Here) + 1 < W
      BY <1>1, <1>3, <1>5, <2>1
    <2>2. CASE ~(ColOf(Here) + 1 < W)
      <3>1. bufCol' = 0 /\ RollOf(buffer', bufRow') = T!Begin(RollOf(buf, bufRow))
        BY <1>1, <1>2, <1>4, <1>7, <2>2, NextRowBegins
      <3> QED
        BY <1>3, <1>5, <2>2, <3>1
    <2> QED
      BY <2>1, <2>2
  <1> QED
    BY <1>5, <1>8, <1>9 DEF T!Write

(* A line feed begins a new row. *)
LEMMA LineFeedBegins ==
  ASSUME Bounds, Agreeing, mode # "clear", PutLineFeed, strayed' = {}
  PROVE T!LineFeed
  <1>1. NextRow(Shown, Filled) /\ strayed' = strayed \cup AtBottomCopy \cup AtFullRow
    BY DEF PutLineFeed
  <1>2. strayed = {} /\ AtFullRow = {}
    BY <1>1
  <1>3. bufRow \in Nat /\ bufRow <= ROWS /\ buffer \in Buffers /\ Shown \in Screens /\ Filled \in Buffers
    BY Standing, FilledType
  <1>4. \A k \in BufCells : Text(buffer[k]) = Text(Filled[k])
    BY <1>2, FilledReadsSame
  <1>5. BlankBehind(buffer, bufRow, bufCol)
    BY <1>2, Agreed
  <1>6. \A k \in BufCells : RowOf(k) > bufRow => Text(Filled[k]) = Blank
    BY <1>4, <1>5 DEF BlankBehind
  <1>7. bufCol' = 0 /\ RollOf(buffer', bufRow') = T!Begin(RollOf(Filled, bufRow))
    BY <1>1, <1>2, <1>3, <1>6, NextRowBegins
  <1>8. RollOf(buffer, bufRow) = RollOf(Filled, bufRow)
    BY <1>3, <1>4, SameRoll
  <1> QED
    BY <1>2, <1>7, <1>8, Reading, ReadingNext DEF T!LineFeed

(* A backspace within a row erases the last character of the roll. *)
LEMMA BackspaceErases == ASSUME Bounds, Agreeing, Backspace, strayed' = {} PROVE T!Erase
  <1>1. mode = "input" /\ PutBackspace
    BY DEF Backspace
  <1>2. lastCol # 0
    BY <1>1, Numbers
  <1> DEFINE back == IF bufCol = 0 THEN 0 ELSE bufCol - 1
  <1>3. /\ bufCol' = bufCol - 1 /\ bufRow' = bufRow
        /\ buffer' = [buffer EXCEPT ![bufRow * W + back] = Blank]
        /\ strayed' = strayed \cup AtBottomCopy \cup (IF ColOf(Here) = 0 THEN {"backspace"} ELSE {})
    BY <1>1, <1>2, Zenon DEF PutBackspace
  <1>4. strayed = {} /\ ColOf(Here) # 0
    BY <1>3
  <1>5. bufCol = ColOf(Here) /\ bufCol \in 0..W-1 /\ bufRow \in Nat /\ bufRow <= ROWS /\ buffer \in Buffers
    BY <1>1, <1>4, Agreed, Standing
  <1>6. bufCol > 0 /\ bufCol - 1 \in 0..W-1 /\ back = bufCol - 1
    BY <1>4, <1>5, Sizes
  <1>7. Blank \in 0..MaxOut
    BY Sizes DEF Blank
  <1> HIDE DEF back
  <1>8. RollOf([buffer EXCEPT ![bufRow * W + (bufCol - 1)] = Blank], bufRow)
          = [RollOf(buffer, bufRow) EXCEPT ![bufRow + 1][bufCol - 1] = Blank]
    BY <1>5, <1>6, <1>7, RollWritten
  <1>9. RollOf(buffer', bufRow') = [RollOf(buffer, bufRow) EXCEPT ![bufRow + 1][bufCol - 1] = Blank]
    BY <1>3, <1>6, <1>8
  <1> QED
    BY <1>3, <1>4, <1>6, <1>9, Reading, ReadingNext DEF T!Erase

(* What only moves the view, or clears the screen, leaves the roll alone. *)
LEMMA RollStays ==
  ASSUME Bounds, strayed = {}, strayed' = {}, bufRow' = bufRow, bufCol' = bufCol, buffer' \in Buffers,
         \A k \in BufCells : Text(buffer[k]) = Text(buffer'[k])
  PROVE UNCHANGED T!vars
  <1>1. bufRow \in Nat /\ bufRow <= ROWS /\ buffer \in Buffers
    BY Standing
  <1>2. RollOf(buffer, bufRow) = RollOf(buffer', bufRow)
    BY <1>1, SameRoll
  <1> QED
    BY <1>2, Reading, ReadingNext DEF T!vars

(* The row that clearing blanks was blank. *)
LEMMA ClearRowStays == ASSUME Bounds, Agreeing, ClearRow, strayed = {}, strayed' = {} PROVE UNCHANGED T!vars
  <1>1. /\ mode = "clear" /\ bufRow' = bufRow /\ bufCol' = bufCol
        /\ buffer' = RowBlanked(RoomBuffer(buffer))
        /\ strayed' = strayed \cup (IF bufRow = ROWS THEN {"full"} ELSE {})
    BY DEF ClearRow
  <1>2. bufRow # ROWS
    BY <1>1
  <1>3. bufRow \in Nat /\ bufRow <= ROWS /\ buffer \in Buffers
    BY Standing
  <1>4. buffer' = RowBlanked(buffer)
    BY <1>1, <1>2, <1>3, Sizes DEF RoomBuffer, Room
  <1>5. BlankBehind(buffer, bufRow, bufCol) /\ bufCol = 0
    BY <1>1 DEF Agreeing, Bounds, Columns
  <1>6. \A k \in BufCells : Text(buffer[k]) = Text(buffer'[k])
    <2> TAKE k \in BufCells
    <2>1. CASE RowOf(k) = bufRow
      <3>1. ColOf(k) >= bufCol
        <4>1. k \in Nat /\ ColOf(k) \in 0..W-1
          BY Within, Split
        <4> QED
          BY <1>5, <4>1, Sizes
      <3>2. Text(buffer[k]) = Blank
        BY <1>5, <2>1, <3>1 DEF BlankBehind
      <3>3. buffer'[k] = Blank
        BY <1>4, <2>1 DEF RowBlanked
      <3> QED
        BY <3>2, <3>3, TextBlank
    <2>2. CASE RowOf(k) # bufRow
      BY <1>4, <2>2 DEF RowBlanked
    <2> QED
      BY <2>1, <2>2
  <1>7. buffer' \in Buffers
    BY ClearRowBounds DEF Bounds, TypeOK, Buffers
  <1> QED
    BY <1>1, <1>6, <1>7, RollStays

(* So was what scrolling down blanks. *)
LEMMA PageDownStays == ASSUME Bounds, Agreeing, PageDown, strayed = {}, strayed' = {} PROVE UNCHANGED T!vars
  <1>1. mode = "input" /\ buffer' = PagedBuffer /\ bufRow' = bufRow /\ bufCol' = bufCol
    BY PageDownIs
  <1>2. \A k \in BufCells : Text(buffer[k]) = Text(PagedBuffer[k])
    BY <1>1, PagedReadsSame
  <1> QED
    BY <1>1, <1>2, PagedBufferType, RollStays

(* The other steps do not touch the buffer. *)
LEMMA ViewStays ==
  ASSUME Bounds, Clear \/ ClearEnds \/ Prompt \/ PageUp, strayed = {}, strayed' = {}
  PROVE UNCHANGED T!vars
  <1>1. buffer' = buffer /\ bufRow' = bufRow /\ bufCol' = bufCol
    BY DEF Clear, ClearEnds, Prompt, PageUp, counters
  <1> QED
    BY <1>1, Standing, RollStays

(* What has strayed stays so. *)
LEMMA StrayedStays == ASSUME [Next]_vars PROVE strayed \subseteq strayed'
  <1>1. ASSUME NEW c, Put(c) PROVE strayed \subseteq strayed'
    BY <1>1 DEF Put
  <1>2. PutLineFeed \/ PutBackspace => strayed \subseteq strayed'
    BY DEF PutLineFeed, PutBackspace
  <1>3. CASE UNCHANGED vars
    BY <1>3 DEF vars
  <1>4. Output \/ Type => strayed \subseteq strayed'
    BY <1>1 DEF Output, Type
  <1>5. OutputLineFeed \/ Return \/ Backspace => strayed \subseteq strayed'
    BY <1>2 DEF OutputLineFeed, Return, Backspace
  <1>6. Clear \/ ClearRow \/ ClearEnds \/ Prompt \/ PageUp \/ PageDown => strayed \subseteq strayed'
    BY DEF Clear, ClearRow, ClearEnds, Prompt, PageUp, PageDown
  <1> QED
    BY <1>3, <1>4, <1>5, <1>6 DEF Next, vga_on_key_pressed

(* Each step writes, begins a row, erases, or leaves the roll alone.         *)
LEMMA RefinesStep == ASSUME IInv, [Next]_vars PROVE [T!Next]_(T!vars)
  <1>1. Bounds /\ Agreeing
    BY DEF IInv
  <1>2. CASE strayed' # {}
    BY <1>2 DEF Readable, NextColumn, T!Next, T!Garble
  <1>3. CASE strayed' = {}
    <2>1. strayed = {}
      BY <1>3, StrayedStays
    <2>2. CASE UNCHANGED vars
      BY <2>2 DEF vars, counters, Readable, NextColumn, Roll, Text, T!vars
    <2>3. CASE Output \/ Type
      <3>1. mode # "clear" /\ Put(out + 1) /\ out < MaxOut
        BY <2>3 DEF Output, Type, Ink
      <3>2. out + 1 \in 1..MaxOut
        BY <1>1, <3>1, Numbers, Sizes
      <3>3. T!Write(out + 1)
        BY <1>1, <1>3, <3>1, <3>2, PutWrites
      <3> QED
        BY <3>2, <3>3 DEF T!Next
    <2>4. CASE OutputLineFeed \/ Return
      <3>1. mode # "clear" /\ PutLineFeed
        BY <2>4 DEF OutputLineFeed, Return
      <3> QED
        BY <1>1, <1>3, <3>1, LineFeedBegins DEF T!Next
    <2>5. CASE Backspace
      BY <1>1, <1>3, <2>5, BackspaceErases DEF T!Next
    <2>6. CASE Clear \/ ClearEnds \/ Prompt \/ PageUp
      BY <1>1, <1>3, <2>1, <2>6, ViewStays
    <2>7. CASE ClearRow
      BY <1>1, <1>3, <2>1, <2>7, ClearRowStays
    <2>8. CASE PageDown
      BY <1>1, <1>3, <2>1, <2>8, PageDownStays
    <2> QED
      BY <2>2, <2>3, <2>4, <2>5, <2>6, <2>7, <2>8 DEF Next, vga_on_key_pressed
  <1> QED
    BY <1>2, <1>3

(* At first the roll is one blank row. *)
LEMMA RefinesInit == Init => T!Init
  <1> SUFFICES ASSUME Init PROVE T!Init
    OBVIOUS
  <1>1. strayed = {} /\ bufRow = 0 /\ bufCol = 0 /\ buffer = [k \in BufCells |-> IF k < H*W THEN Blank ELSE Unset]
    BY DEF Init
  <1>2. \A k \in BufCells : Text(buffer[k]) = Blank
    BY <1>1, TextBlank
  <1>3. Bounds
    BY BoundsInit
  <1>4. Readable = RollOf(buffer, bufRow) /\ NextColumn = 0
    BY <1>1, <1>3, Reading
  <1>5. /\ RollOf(buffer, bufRow) \in Seq(Lines) /\ Len(RollOf(buffer, bufRow)) = 1
        /\ \A c \in 0..W-1 : RollOf(buffer, bufRow)[1][c] = Blank
    <2>1. bufRow \in Nat /\ bufRow <= ROWS /\ buffer \in Buffers
      BY <1>3, Standing
    <2>2. /\ RollOf(buffer, bufRow) \in Seq(Lines) /\ Len(RollOf(buffer, bufRow)) = bufRow + 1
          /\ \A r \in 1..bufRow + 1, c \in 0..W-1 :
               /\ RollOf(buffer, bufRow)[r][c] = Text(buffer[(r - 1) * W + c])
               /\ (r - 1) * W + c \in BufCells
      BY <2>1, RollIs
    <2>3. bufRow + 1 = 1 /\ 1 \in 1..bufRow + 1
      BY <1>1
    <2> QED
      BY <1>2, <2>2, <2>3
  <1>6. /\ <<T!BlankRow>> \in Seq(Lines) /\ Len(<<T!BlankRow>>) = 1
        /\ \A c \in 0..W-1 : <<T!BlankRow>>[1][c] = Blank
    BY BlankLine
  <1>7. ASSUME NEW r \in 1..1, NEW c \in 0..W-1 PROVE RollOf(buffer, bufRow)[r][c] = <<T!BlankRow>>[r][c]
    <2>1. r = 1
      OBVIOUS
    <2> QED
      BY <1>5, <1>6, <2>1, Zenon
  <1>8. RollOf(buffer, bufRow) = <<T!BlankRow>>
    BY <1>5, <1>6, <1>7, RollsEqual
  <1> QED
    BY <1>4, <1>8 DEF T!Init

(* To those who print and type, the buffer is an endless roll of rows of       *)
(* which the last stay readable, cleared or not, scrolled or not, until the   *)
(* counters come apart.                                                    *)
THEOREM Refinement == Spec => ImplementsTerminal
  <1>1. Init => T!Init
    BY RefinesInit
  <1>2. IInv /\ [Next]_vars => [T!Next]_(T!vars)
    BY RefinesStep
  <1> QED
    BY <1>1, <1>2, Invariant, PTL DEF Spec, ImplementsTerminal, T!Spec
===============================================================================
