---------------------------------- MODULE Boot ----------------------------------
(***************************************************************************)
(* Starting from the floppy Image builds: stage 1 reads the file table and *)
(* stage 2 sector by sector (boot/stage1.asm, disk.inc), stage 2 reads the  *)
(* kernel with one request (stage2.asm, disk_extended.inc).                *)
(*                                                                         *)
(* Any read may fail.  load_file looks for the end of the table in low     *)
(* memory instead of in the table: where the byte at 16 times the slot is  *)
(* zero, the search stops.                                                 *)
(***************************************************************************)
EXTENDS Image

CONSTANTS Attempts,     \* attempts of a sector in stage 1 (5)
          Wrap,         \* reads of a loop that starts at zero (65536)
          TrackSectors, \* sectors of a track
          ByteValues,   \* values of a register's byte (256)
          Room,         \* sectors between stage 2's place in memory and the table's (56)
          LowZeros      \* sets of slots where the low memory byte is zero

ASSUME BootAssumption ==
  /\ Attempts \in Nat \ {0} /\ Wrap \in Nat \ {0} /\ TrackSectors \in Nat \ {0}
  /\ ByteValues \in Nat /\ TrackSectors < ByteValues /\ Room \in Nat
  /\ \A list \in FileLists : \A f \in 1..Len(list) :
       /\ list[f].name \in {"stage2", "kernel"} => list[f].letters = 6   \* of these names
       /\ list[f].name = "stage2" => list[f].size <= Room * Block  \* a longer one hits the table
  /\ \A zeros \in LowZeros : zeros \subseteq Nat

VARIABLES step,         \* what the processor is at
          lowZero,      \* slots where low memory reads zero
          di,           \* attempts left for a sector
          lba, cx,      \* the sector in turn, and how many are left
          tableMem,     \* the file table in memory
          mem,          \* what has been loaded for the next stage
          a20, a20Said, \* the A20 line, and what stage 2 says of it
          tried         \* reads stage 2 has tried

bootVars == <<step, lowZero, di, lba, cx, tableMem, mem, a20, a20Said, tried>>

BootInit ==
  /\ step = "off" /\ lowZero \in LowZeros /\ di = Attempts /\ lba = 0 /\ cx = 0
  /\ tableMem = <<>> /\ mem = <<>> /\ a20 \in BOOLEAN /\ a20Said = "" /\ tried = 0

(* stage1.asm: the table is iRootSize entries from sector iResSect on.  The BIOS *)
(* starts a floppy that begins with stage 1's sector.                      *)
Stage1At(cells) == Len(cells) >= Block /\ \A n \in 0..Block-1 : cells[n + 1] = Cell(Stage1, n)
LoadTable == step' = "table" /\ lba' = TableStart /\ cx' = TableSectors /\ di' = Attempts
PowerOn ==
  /\ step = "off" /\ phase = "built" /\ Stage1At(image) /\ LoadTable
  /\ UNCHANGED <<lowZero, tableMem, mem, a20, a20Said, tried>>

OnDisk(n) == (n + 1) * Block <= Len(image)
SectorAt(n) == SubSeq(image, n * Block + 1, (n + 1) * Block)

(* read_disk of stage 1: a sector is tried Attempts times, with a reset in   *)
(* between; then the next one.                                             *)
Reads == {"table", "read_stage2"}
TryAgain == di                                          \* mutant: the attempt not counted
FewerAttempts == di - 1

ReadFails ==
  /\ step \in Reads
  /\ di' = FewerAttempts /\ step' = IF di' = 0 THEN "halted" ELSE step
  /\ UNCHANGED <<lowZero, lba, cx, tableMem, mem, a20, a20Said, tried>>

FinishedBefore == cx <= 2                              \* mutant: one sector short
Finished == (IF cx = 0 THEN Wrap ELSE cx) = 1
ReadSector ==
  /\ step \in Reads /\ OnDisk(lba)
  /\ IF step = "table" THEN tableMem' = tableMem \o SectorAt(lba) /\ UNCHANGED mem
                       ELSE mem' = mem \o SectorAt(lba) /\ UNCHANGED tableMem
  /\ lba' = lba + 1 /\ di' = Attempts
  /\ cx' = (IF cx = 0 THEN Wrap ELSE cx) - 1
  /\ step' = IF ~Finished THEN step ELSE IF step = "table" THEN "find_stage2" ELSE "jump"
  /\ UNCHANGED <<lowZero, a20, a20Said, tried>>

(* load_file: the first slot with the name, if no slot up to it stops the     *)
(* search; else both registers keep what the search left in them.          *)
Named(name) == {s \in 1..Len(tableMem) : /\ tableMem[s].kind = "entry"
                                         /\ tableMem[s].filename = [name |-> name, cut |-> FALSE]}
Found(name) == {s \in Named(name) : (\A r \in Named(name) : s <= r) /\ \A z \in lowZero : z > s}
LeftInCx == IF 1 \in lowZero THEN {0} ELSE 0..10
FindStage2 ==
  /\ step = "find_stage2" /\ step' = "read_stage2"
  /\ IF Found("stage2") # {}
       THEN \E s \in Found("stage2") : lba' = tableMem[s].start /\ cx' = tableMem[s].count
       ELSE lba' = 0 /\ cx' \in LeftInCx
  /\ UNCHANGED <<lowZero, di, tableMem, mem, a20, a20Said, tried>>

FilesNamed(name) == {f \in 1..Len(files) : files[f].name = name}
FileOf(name) == CHOOSE f \in FilesNamed(name) : \A g \in FilesNamed(name) : f <= g
Loaded(name) ==
  /\ FilesNamed(name) # {}
  /\ LET size == files[FileOf(name)].size IN
       /\ size > 0 /\ Len(mem) >= size
       /\ \A n \in 0..size-1 : mem[n + 1] = Cell(name, n)

\* a20.inc: function 2400h of int 0x15 switches the line off, if the BIOS has it;
\* the test then takes two addresses that read alike for a line that is on.
a20_bios == {a20, FALSE}
check_a20(on) == IF on THEN "disabled" ELSE "enabled"

(* Stage 1 runs whatever it has read.  Where load_file has found nothing, that   *)
(* is a copy of stage 1: its first instructions jump to the original in front  *)
(* of it (jmp 0:init), and all begins again.                               *)
RunStage2 ==
  /\ step = "jump" /\ Loaded("stage2")
  /\ step' = "find_kernel" /\ mem' = <<>>
  /\ a20' \in a20_bios /\ a20Said' = check_a20(a20')
  /\ UNCHANGED <<lowZero, di, lba, cx, tableMem, tried>>

StartsOver == step = "jump" /\ Stage1At(mem)
StartOver ==
  /\ StartsOver /\ LoadTable /\ tableMem' = <<>> /\ mem' = <<>>
  /\ UNCHANGED <<lowZero, a20, a20Said, tried>>

RunAstray ==
  /\ step = "jump" /\ ~Loaded("stage2") /\ ~Stage1At(mem)
  /\ step' = "crashed" /\ mem' = <<>>
  /\ UNCHANGED <<lowZero, di, lba, cx, tableMem, a20, a20Said, tried>>

FindKernel ==
  /\ step = "find_kernel" /\ step' = "read_kernel"
  /\ IF Found("kernel") # {}
       THEN \E s \in Found("kernel") : lba' = tableMem[s].start /\ cx' = tableMem[s].count
       ELSE lba' = 0 /\ cx' \in LeftInCx
  /\ UNCHANGED <<lowZero, di, tableMem, mem, a20, a20Said, tried>>

(* read_disk of stage 2 ends with the first answer, good or bad: the carry it *)
(* tests after dec is still the one of the read.  The kernel is run anyway. *)
(* The request takes one byte of the count (cl, in al) and one of the sector   *)
(* (dl, in cl); what is over is lost.  The BIOS has no sector 0, no request   *)
(* for none, and no sector behind the track's last: the upper bits of cl, too, *)
(* ask for cylinders a floppy does not have.                               *)
LowByte(n) == n % ByteValues
AskedSector == LowByte(lba + 1)
AskedCount == LowByte(cx)
AskedFrom == AskedSector - 1
OneRequest ==
  /\ AskedSector \in 1..TrackSectors /\ AskedCount > 0
  /\ \A n \in AskedFrom .. AskedFrom + AskedCount - 1 : OnDisk(n)
ReadKernel ==
  /\ step = "read_kernel" /\ step' = "kernel" /\ tried' = tried + 1
  /\ \/ /\ OneRequest
        /\ mem' = SubSeq(image, AskedFrom * Block + 1, (AskedFrom + AskedCount) * Block)
     \/ UNCHANGED mem
  /\ UNCHANGED <<lowZero, di, lba, cx, tableMem, a20, a20Said>>

BootNext == PowerOn \/ ReadFails \/ ReadSector \/ FindStage2 \/ RunStage2 \/ StartOver
            \/ RunAstray \/ FindKernel \/ ReadKernel

(* The floppy is built once, and started. *)
FloppyNext == \/ ImageNext /\ UNCHANGED bootVars
              \/ BootNext /\ UNCHANGED imageVars
FloppySpec == ImageInit /\ BootInit /\ [][FloppyNext]_<<imageVars, bootVars>>

------------------------------------------------------------------------------
(* The file of that name was written before anything went wrong, and no slot  *)
(* up to its own stops load_file.                                          *)
Clean(name) ==
  /\ FilesNamed(name) # {}
  /\ LET f == FileOf(name) IN
       /\ f < FirstMissing /\ (damaged = 0 \/ f < damaged)
       /\ files[f].size > 0 /\ \A z \in lowZero : z > f

InOneByte(n) == n < ByteValues
WholeIfItFits ==
  LET e == table[FileOf("kernel")] IN
    /\ InOneByte(e.start + 1) /\ InOneByte(e.count) => Loaded("kernel")
    /\ ~InOneByte(e.count) => ~Loaded("kernel")

(* However many reads fail, stage 1 never runs a stage 2 it has read in part,  *)
(* nor itself, if the image holds stage 2 and load_file finds it.  If the     *)
(* kernel's one request was answered, all of the kernel is in memory, where   *)
(* its sector and count fit in the bytes they are passed in; a kernel of more  *)
(* sectors than a byte counts is run without its end (stage2.asm:47).      *)
RunsWhatWasBuilt ==
  /\ Clean("stage2") => step # "crashed" /\ ~StartsOver
  /\ step = "kernel" /\ mem # <<>> /\ Clean("kernel") => WholeIfItFits

(* Starting ends if load_file has found a stage 2: in the kernel, in code that  *)
(* is not stage 2, or in the endless loop after a sector's last attempt, also  *)
(* where the count is zero and runs down from 65536.  Stage 1 starts itself    *)
(* over only where load_file has found nothing (and then, as low memory and   *)
(* floppy stay as they are, again and again).                              *)
BootEnds == step = "table" ~> \/ step \in {"kernel", "crashed", "halted"}
                              \/ StartsOver /\ Found("stage2") = {}

(* disk_extended.inc: "retry if reset succeeded".  The kernel is not run after *)
(* a single failed read.                                                   *)
ReadIsRetried == step = "kernel" /\ mem = <<>> => tried > 1
==============================================================================
