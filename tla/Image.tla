--------------------------------- MODULE Image ---------------------------------
(***************************************************************************)
(* Building the boot floppy, the steps of the Makefile's disk rule:        *)
(*   imagefs c   writes empty sectors            (imagefs/main.c)          *)
(*   imagefs w   writes stage 1 into the first   (imagefs/main.c)          *)
(*   prsfs       writes the file table and the files (prsfs/)              *)
(*                                                                         *)
(* A sector is Block cells.  A cell of a file is named by the file and its *)
(* number; an entry of the table takes one cell.  Writing to the image may *)
(* fail or stay short, at most MaxFaults times; no tool's exit code tells,   *)
(* unless stage 1 cannot be read or sought.                                *)
(***************************************************************************)
EXTENDS Integers, Sequences

CONSTANTS Block,            \* cells of a sector (512)
          TableStart,       \* TABLE_START, sectors before the table
          TableSectors,     \* TABLE_SIZE, sectors of the table
          MaxFiles,         \* MAXFILES
          Sectors,          \* sectors imagefs is asked for
          FileLists,        \* files given to prsfs: sequences of [name, letters, size, missing]
          BootSizes,        \* sizes of stage 1 in cells
          MaxFaults         \* writes that may go wrong

ASSUME ImageAssumption ==
  /\ Block \in Nat \ {0} /\ TableStart \in Nat \ {0} /\ TableSectors \in Nat \ {0}
  /\ MaxFiles \in Nat /\ Sectors \in Nat /\ MaxFaults \in Nat /\ BootSizes \subseteq Nat
  /\ \A list \in FileLists :      \* with fewer letters the code writes past an array
       /\ list \in Seq([name : STRING, letters : 6..8, size : Nat, missing : BOOLEAN])
       /\ Len(list) <= TableSectors * Block

VARIABLES phase,      \* the tool at work
          files, boot,\* the files of the call, and stage 1
          image,      \* the image file, a sequence of cells
          offset,     \* where the next write goes
          table,      \* prsfs: the file table, a sequence of entries
          k,          \* set_info_entry: the name that is opened next
          start,      \* set_info_entry: the first free sector
          i,          \* the entry, or the sector, in turn
          pos,        \* cells of the current file read
          nsect, total,   \* write_table: sectors and cells written of it
          faults,     \* writes gone wrong so far
          damaged     \* the first file a write went wrong in, or 0

imageVars == <<phase, files, boot, image, offset, table, k, start, i, pos, nsect, total,
               faults, damaged>>

Zero == [kind |-> "zero"]
Stage1 == "stage1"
Cell(name, n) == [kind |-> "data", file |-> name, n |-> n]
Entry(filename, first, count) ==
  [kind |-> "entry", filename |-> filename, start |-> first, count |-> count]
TableCells == TableSectors * Block
RoundDown(size) == size \div Block
SectorsOf(size) == IF size % Block = 0 THEN size \div Block ELSE size \div Block + 1

(* Eleven letters of a name with six to eight before the dot: from eight on,  *)
(* the conversion loses the last one behind the dot.                       *)
convert_filename(f) == [name |-> f.name, cut |-> f.letters = 8]

(* A write at an offset: what lies between the end and it reads as zero.    *)
Written(img, at, cells) ==
  [c \in 1..(IF Len(img) > at + Len(cells) THEN Len(img) ELSE at + Len(cells)) |->
     IF c > at /\ c <= at + Len(cells) THEN cells[c - at]
     ELSE IF c <= Len(img) THEN img[c] ELSE Zero]

(* What a write of n cells may answer: n, or with a fault left less or -1.   *)
Answers(n) == IF faults < MaxFaults THEN -1..n ELSE {n}
Store(at, cells, n) ==
  /\ image' = IF n > 0 THEN Written(image, at, SubSeq(cells, 1, n)) ELSE image
  /\ offset' = at + (IF n > 0 THEN n ELSE 0)
  /\ faults' = IF n < Len(cells) THEN faults + 1 ELSE faults

ImageInit ==
  /\ phase = "create" /\ files \in FileLists /\ boot \in BootSizes
  /\ image = <<>> /\ offset = 0 /\ table = <<>> /\ k = 1
  /\ start = (TableStart + TableSectors) /\ i = 0 /\ pos = 0 /\ nsect = 0 /\ total = 0
  /\ faults = 0 /\ damaged = 0

------------------------------------------------------------------------------
(* imagefs *)

\* create_floppy stops at the first write that returns nothing.
CreateFloppy ==
  /\ phase = "create" /\ i < Sectors
  /\ \E n \in Answers(Block) :
       /\ Store(offset, [c \in 1..Block |-> Zero], n)
       /\ i' = IF n > 0 THEN i + 1 ELSE Sectors
  /\ UNCHANGED <<phase, files, boot, table, k, start, pos, nsect, total, damaged>>

CreateEnds ==
  /\ phase = "create" /\ i = Sectors
  /\ phase' = "open_stage1" /\ i' = 0
  /\ UNCHANGED <<files, boot, image, offset, table, k, start, pos, nsect, total, faults, damaged>>

\* write_sectors opens stage 1, seeks to its end and back, and to the first sector
\* of the image; any of these failing, it returns 1 and the build stops.
OpenStage1 ==
  /\ phase = "open_stage1"
  /\ \/ phase' = "stage1" /\ offset' = 0 /\ UNCHANGED faults
     \/ faults < MaxFaults /\ phase' = "failed" /\ faults' = faults + 1 /\ UNCHANGED offset
  /\ UNCHANGED <<files, boot, image, table, k, start, i, pos, nsect, total, damaged>>

\* A file is rounded down to whole sectors, but to one at least.
BootSectors == IF RoundDown(boot) = 0 THEN 1 ELSE RoundDown(boot)
Chunk(name, size, at) ==
  [c \in 1..(IF size - at < Block THEN size - at ELSE Block) |-> Cell(name, at + c - 1)]

\* write_sectors counts every write that does not fail, the short ones too.
WriteSectors ==
  /\ phase = "stage1" /\ i < BootSectors
  /\ LET cells == Chunk(Stage1, boot, pos) IN
       \E n \in Answers(Len(cells)) :
         /\ Store(offset, cells, n)
         /\ pos' = pos + Len(cells) /\ i' = IF n >= 0 THEN i + 1 ELSE i
  /\ UNCHANGED <<phase, files, boot, table, k, start, nsect, total, damaged>>

WriteSectorsEnds ==
  /\ phase = "stage1" /\ i = BootSectors
  /\ IF Len(files) + 1 >= MaxFiles THEN phase' = "failed" /\ UNCHANGED table
     ELSE /\ phase' = "info"
          /\ table' = [f \in 1..Len(files) |-> Entry(convert_filename(files[f]), 0, 0)]
  /\ i' = 1 /\ pos' = 0
  /\ UNCHANGED <<files, boot, image, offset, k, start, nsect, total, faults, damaged>>

------------------------------------------------------------------------------
(* prsfs *)

\* The name opened is the k-th; one that cannot be opened stays in turn for
\* all the entries after it.
SetInfoEntry ==
  /\ phase = "info" /\ i <= Len(table)
  /\ IF files[k].missing THEN UNCHANGED <<table, start, k>>
     ELSE /\ table' = [table EXCEPT ![i] = Entry(@.filename, start, SectorsOf(files[k].size))]
          /\ start' = start + SectorsOf(files[k].size) /\ k' = k + 1
  /\ i' = i + 1
  /\ UNCHANGED <<phase, files, boot, image, offset, pos, nsect, total, faults, damaged>>

WriteTable ==
  /\ phase = "info" /\ i = Len(table) + 1
  /\ \E n \in Answers(TableCells) :
       LET cells == [c \in 1..TableCells |-> IF c <= Len(table) THEN table[c] ELSE Zero] IN
         /\ Store(TableStart * Block, cells, n)
         /\ damaged' = IF n < TableCells /\ damaged = 0 THEN 1 ELSE damaged
         /\ phase' = IF n < 0 THEN "built" ELSE "open"
  /\ i' = 1
  /\ UNCHANGED <<files, boot, table, k, start, pos, nsect, total>>

\* A file that cannot be opened is passed over, and so is its place.
OpenFile ==
  /\ phase = "open" /\ i <= Len(table)
  /\ IF files[i].missing THEN i' = i + 1 /\ UNCHANGED <<phase, pos, nsect, total>>
     ELSE phase' = "copy" /\ pos' = 0 /\ nsect' = 0 /\ total' = 0 /\ UNCHANGED i
  /\ UNCHANGED <<files, boot, image, offset, table, k, start, faults, damaged>>

More == nsect < table[i].count /\ pos < files[i].size
CopyChunk ==
  /\ phase = "copy" /\ More
  /\ LET cells == Chunk(files[i].name, files[i].size, pos) IN
       \E n \in Answers(Len(cells)) :
         /\ Store(offset, cells, n)
         /\ pos' = pos + Len(cells)
         /\ nsect' = IF n > 0 THEN nsect + 1 ELSE nsect
         /\ total' = IF n > 0 THEN total + n ELSE total
         /\ damaged' = IF n < Len(cells) /\ damaged = 0 THEN i ELSE damaged
  /\ UNCHANGED <<phase, files, boot, table, k, start, i>>

\* The rest of the last sector is stepped over.
NoPadding == 0                                         \* mutant: the next file follows at once
Padding == Block * nsect - total
CloseFile ==
  /\ phase = "copy" /\ ~More
  /\ offset' = offset + Padding /\ i' = i + 1 /\ phase' = "open"
  /\ UNCHANGED <<files, boot, image, table, k, start, pos, nsect, total, faults, damaged>>

WriteEnds ==
  /\ phase = "open" /\ i > Len(table) /\ phase' = "built"
  /\ UNCHANGED <<files, boot, image, offset, table, k, start, i, pos, nsect, total, faults, damaged>>

ImageNext ==
  \/ CreateFloppy \/ CreateEnds \/ OpenStage1 \/ WriteSectors \/ WriteSectorsEnds \/ SetInfoEntry
  \/ WriteTable \/ OpenFile \/ CopyChunk \/ CloseFile \/ WriteEnds

------------------------------------------------------------------------------
Holds(f) ==        \* the sectors the table gives for file f hold it
  LET e == table[f] IN
    /\ e.start >= TableStart + TableSectors /\ e.count = SectorsOf(files[f].size)
    /\ \A n \in 0..files[f].size - 1 :
         e.start * Block + n < Len(image) /\ image[e.start * Block + n + 1] = Cell(files[f].name, n)

(* Whatever write went wrong and whatever file was missing, the files written  *)
(* before it are whole and where the table says, and so is the table itself on *)
(* the image; a missing file and all after it have no sectors; and with no     *)
(* write lost, stage 1 stands whole in front of the table, if it is as short *)
(* as that and made of whole sectors or one.                               *)
FirstMissing == CHOOSE f \in 1..Len(files) + 1 :
                  /\ f > Len(files) \/ files[f].missing
                  /\ \A g \in 1..f-1 : ~files[g].missing
TableOnImage ==
  \A c \in 1..TableCells :
    /\ TableStart * Block + c <= Len(image)
    /\ image[TableStart * Block + c] = IF c <= Len(table) THEN table[c] ELSE Zero
Stage1Whole == \A n \in 0..boot-1 : n < Len(image) /\ image[n + 1] = Cell(Stage1, n)
TableTellsTruth ==
  phase = "built" =>
    /\ \A f \in 1..Len(files) : IF f >= FirstMissing THEN table[f].count = 0
                                ELSE damaged = 0 \/ f < damaged => Holds(f)
    /\ damaged # 1 => TableOnImage
    /\ faults = 0 /\ SectorsOf(boot) <= BootSectors /\ BootSectors <= TableStart => Stage1Whole
==============================================================================
