----------------------------- MODULE ImageProofs -----------------------------
(***************************************************************************)
(* What the floppy holds when it has been built, and what is in memory when *)
(* a stage runs, for every size of sector, of table and of file, every list *)
(* of files and any number of writes gone wrong.                           *)
(***************************************************************************)
EXTENDS Boot, SequenceTheorems, NaturalsInduction, WellFoundedInduction, TLAPS

File == [name : STRING, letters : 6..8, size : Nat, missing : BOOLEAN]
Filename == [name : STRING, cut : BOOLEAN]
EntryType == [kind : {"entry"}, filename : Filename, start : Nat, count : Nat]
NameType == STRING \cup {Stage1}
DataType == [kind : {"data"}, file : NameType, n : Nat]
CellType == {Zero} \cup EntryType \cup DataType

FirstFree == TableStart + TableSectors          \* the sector behind the table
Filed == {"info", "open", "copy", "built"}      \* phases with a file table
OnImage == {"open", "copy", "built"}            \* and with the table written

ImageTypes ==
  /\ phase \in {"create", "open_stage1", "stage1", "failed"} \cup Filed
  /\ files \in FileLists /\ boot \in BootSizes
  /\ image \in Seq(CellType) /\ table \in Seq(EntryType)
  /\ offset \in Nat /\ start \in Nat /\ i \in Nat /\ pos \in Nat /\ nsect \in Nat
  /\ total \in Nat /\ faults \in Nat /\ damaged \in Nat

Unwritten ==            \* what is still as it was at first
  /\ phase \in {"create", "open_stage1"} => pos = 0
  /\ phase = "open_stage1" => i = 0
  /\ phase \in {"create", "open_stage1", "stage1"} => k = 1 /\ start = FirstFree
  /\ phase \in {"create", "open_stage1", "stage1", "info"} => damaged = 0

(* Stage 1, while it is written and from then on.                          *)
Stage1Fits == SectorsOf(boot) <= BootSectors /\ BootSectors <= TableStart
Stage1Copied ==
  phase = "stage1" =>
    /\ i <= BootSectors /\ pos <= boot
    /\ faults = 0 /\ Stage1Fits =>
         /\ offset = pos /\ pos = IF i < BootSectors THEN i * Block ELSE boot
         /\ \A n \in 0..pos-1 : n < Len(image) /\ image[n + 1] = Cell(Stage1, n)
Stage1Stays == phase \in Filed /\ faults = 0 /\ Stage1Fits => Stage1Whole

(* The file table in memory: up to the first missing file one entry joins    *)
(* the next, and entries not filled in yet, or never, have no sectors.       *)
Filled(f) == f < FirstMissing /\ (phase = "info" => f < i)
FreeFrom(f) == IF f = 1 THEN FirstFree ELSE table[f-1].start + table[f-1].count
RightEntry(f) ==
  /\ table[f].start = FreeFrom(f) /\ table[f].start >= FirstFree
  /\ table[f].count = SectorsOf(files[f].size)
TableRight ==
  phase \in Filed =>
    /\ Len(table) = Len(files)
    /\ \A f \in 1..Len(files) :
         /\ table[f].filename = convert_filename(files[f])
         /\ IF Filled(f) THEN RightEntry(f) ELSE table[f].count = 0
EntryInTurn ==
  phase = "info" =>
    /\ i \in 1..Len(files)+1 /\ k = (IF i < FirstMissing THEN i ELSE FirstMissing)
    /\ start = FreeFrom(k) /\ start >= FirstFree

(* The image: what is behind the writing is whole, as far as it must be.     *)
Whole(f) == f < FirstMissing /\ (damaged = 0 \/ f < damaged)
Passed(f) == phase = "built" \/ f < i
FilesWritten ==
  phase \in OnImage =>
    /\ offset >= TableStart * Block
    /\ damaged # 1 => TableOnImage /\ offset >= FirstFree * Block
    /\ \A f \in 1..Len(files) :
         Whole(f) /\ Passed(f) => Holds(f) /\ table[f].start * Block + files[f].size <= offset
FileInTurn ==
  /\ phase \in {"open", "copy"} => i \in 1..Len(files)+1 /\ damaged <= i
  /\ phase = "open" /\ i <= Len(files) /\ Whole(i) => offset = table[i].start * Block
  /\ phase = "copy" =>
       /\ i <= Len(files) /\ pos <= files[i].size /\ total <= Block * nsect
       /\ Whole(i) =>
            /\ offset = table[i].start * Block + pos /\ total = pos
            /\ pos = IF nsect < table[i].count THEN nsect * Block ELSE files[i].size
            /\ nsect <= table[i].count
            /\ \A n \in 0..pos-1 : /\ table[i].start * Block + n < Len(image)
                                   /\ image[table[i].start * Block + n + 1] = Cell(files[i].name, n)

IInv == /\ ImageTypes /\ Unwritten /\ Stage1Copied /\ Stage1Stays /\ TableRight /\ EntryInTurn
        /\ FilesWritten /\ FileInTurn

(* Starting it. *)
InMemory(m, first, n) ==        \* what the sectors of the image from first to n hold
  /\ m \in Seq(CellType) /\ Len(m) = (n - first) * Block
  /\ \A c \in 1..Len(m) : first * Block + c <= Len(image) /\ m[c] = image[first * Block + c]
OnTheWay(name) ==               \* the file's sectors before lba are in memory
  LET e == table[FileOf(name)] IN
    /\ lba \in Nat /\ cx \in Nat /\ lba + cx = e.start + e.count /\ e.start <= lba
    /\ InMemory(mem, e.start, lba)
BInv ==
  /\ step \in {"off", "table", "find_stage2", "read_stage2", "jump", "find_kernel", "read_kernel",
               "kernel", "crashed", "halted"}
  /\ step # "off" => phase = "built"
  /\ step = "off" => tableMem = <<>>
  /\ step \in {"off", "table", "find_stage2", "find_kernel", "read_kernel"} => mem = <<>>
  /\ lowZero \in LowZeros
  /\ step = "table" => /\ lba \in TableStart..FirstFree-1 /\ cx = FirstFree - lba
                       /\ InMemory(tableMem, TableStart, lba)
  /\ step \in {"find_stage2", "read_stage2", "jump", "find_kernel"} =>
       InMemory(tableMem, TableStart, FirstFree)
  /\ Clean("stage2") =>
       /\ step # "crashed"
       /\ step = "read_stage2" => OnTheWay("stage2") /\ cx > 0
       /\ step = "jump" => OnTheWay("stage2") /\ cx = 0
  /\ Clean("kernel") =>
       /\ step = "read_kernel" => OnTheWay("kernel") /\ lba = table[FileOf("kernel")].start
       /\ step = "kernel" /\ mem # <<>> => WholeIfItFits

------------------------------------------------------------------------------
(* Sectors and cells. *)

(* What the assumption says of the constants, as facts. *)
LEMMA Constants ==
  /\ Block \in Nat /\ Block > 0 /\ TableStart \in Nat /\ TableStart > 0 /\ TableSectors \in Nat
  /\ TableSectors > 0 /\ FirstFree \in Nat /\ TableStart < FirstFree /\ Sectors \in Nat
  /\ MaxFaults \in Nat
  BY ImageAssumption DEF FirstFree

(* Sectors as cells. *)
LEMMA Cells ==
  ASSUME NEW a \in Int, NEW b \in Int
  PROVE /\ a * Block \in Int /\ Block * a = a * Block
        /\ (a + b) * Block = a * Block + b * Block
        /\ (a <= b => a * Block <= b * Block)
        /\ (a < b => a * Block + Block <= b * Block)
  <1>1. Block \in Nat /\ Block > 0
    BY Constants
  <1>2. a * Block \in Int /\ b * Block \in Int /\ Block * a = a * Block
    BY <1>1
  <1>3. (a + b) * Block = a * Block + b * Block
    BY <1>1
  <1>4. ASSUME NEW c \in Int, NEW d \in Nat PROVE c * Block <= (c + d) * Block
    <2>1. (c + d) * Block = c * Block + d * Block /\ d * Block >= 0
      BY <1>1
    <2>2. c * Block \in Int /\ d * Block \in Int
      BY <1>1
    <2> QED
      BY <2>1, <2>2
  <1>5. a <= b => a * Block <= b * Block
    <2>1. SUFFICES ASSUME a <= b PROVE a * Block <= b * Block
      OBVIOUS
    <2>2. b - a \in Nat /\ b = a + (b - a)
      BY <2>1
    <2> QED
      BY <1>4, <2>2
  <1>6. a < b => a * Block + Block <= b * Block
    <2>1. SUFFICES ASSUME a < b PROVE a * Block + Block <= b * Block
      OBVIOUS
    <2>2. b - (a + 1) \in Nat /\ b = (a + 1) + (b - (a + 1)) /\ a + 1 \in Int
      BY <2>1
    <2>3. (a + 1) * Block <= b * Block
      BY <1>4, <2>2
    <2>4. (a + 1) * Block = a * Block + Block
      BY <1>1
    <2> QED
      BY <2>3, <2>4
  <1> QED
    BY <1>2, <1>3, <1>5, <1>6

(* The sectors a file takes are as few as hold it. *)
LEMMA Sectored ==
  ASSUME NEW size \in Nat
  PROVE /\ SectorsOf(size) \in Nat /\ size <= SectorsOf(size) * Block
        /\ (size > 0 => SectorsOf(size) > 0)
        /\ \A n \in Nat : n < SectorsOf(size) => n * Block < size
  <1> DEFINE d == size \div Block
             m == size % Block
  <1>1. Block \in Nat /\ Block > 0
    BY Constants
  <1>2. d \in Nat /\ m \in Nat /\ m < Block /\ size = d * Block + m
    BY <1>1
  <1>3. SectorsOf(size) = IF m = 0 THEN d ELSE d + 1
    BY DEF SectorsOf
  <1> HIDE DEF d, m
  <1>4. (d + 1) * Block = d * Block + Block /\ d * Block \in Nat
    BY <1>1, <1>2
  <1>5. size <= SectorsOf(size) * Block
    BY <1>1, <1>2, <1>3, <1>4
  <1>6. size > 0 => SectorsOf(size) > 0
    <2>1. 0 * Block = 0
      BY <1>1
    <2> QED
      BY <1>2, <1>3, <2>1
  <1>7. ASSUME NEW n \in Nat, n < SectorsOf(size) PROVE n * Block < size
    <2>1. CASE m = 0
      <3>0. n \in Int /\ d \in Int /\ n < d
        BY <1>2, <1>3, <1>7, <2>1
      <3>1. n * Block + Block <= d * Block
        BY <3>0, Cells
      <3>2. n * Block \in Int
        BY Cells
      <3> QED
        BY <1>1, <1>2, <1>4, <2>1, <3>1, <3>2
    <2>2. CASE m # 0
      <3>1. n <= d
        BY <1>2, <1>3, <1>7, <2>2
      <3>2. n \in Int /\ d \in Int
        BY <1>2
      <3>3. n * Block <= d * Block /\ n * Block \in Int
        BY <3>1, <3>2, Cells
      <3> QED
        BY <1>2, <1>4, <2>2, <3>3
    <2> QED
      BY <2>1, <2>2
  <1> QED
    BY <1>2, <1>3, <1>5, <1>6, <1>7

(* So many cells, and a function on the first numbers, are a sequence. *)
LEMMA FunctionIsSeq ==
  ASSUME NEW S, NEW n \in Nat, NEW f \in [1..n -> S]
  PROVE f \in Seq(S) /\ Len(f) = n
  <1>1. f \in Seq(S)
    BY SeqDef
  <1>2. DOMAIN f = 1..n /\ DOMAIN f = 1..Len(f) /\ Len(f) \in Nat
    BY <1>1, LenProperties
  <1> QED
    BY <1>1, <1>2

(* The first cells of a sequence. *)
LEMMA Prefix ==
  ASSUME NEW S, NEW s \in Seq(S), NEW n \in Nat, n <= Len(s)
  PROVE /\ SubSeq(s, 1, n) \in Seq(S) /\ Len(SubSeq(s, 1, n)) = n
        /\ \A c \in 1..n : SubSeq(s, 1, n)[c] = s[c]
  <1>1. Len(s) \in Nat /\ \A c \in 1..n : c \in 1..Len(s)
    BY LenProperties
  <1>2. \A c \in 1..n : s[c] \in S
    BY <1>1, ElementOfSeq
  <1>3. /\ SubSeq(s, 1, n) \in Seq(S)
        /\ Len(SubSeq(s, 1, n)) = IF 1 <= n THEN n - 1 + 1 ELSE 0
        /\ \A c \in 1..(n - 1 + 1) : SubSeq(s, 1, n)[c] = s[1 + c - 1]
    BY <1>2, SubSeqProperties
  <1>4. n - 1 + 1 = n /\ (1 <= n \/ n = 0) /\ \A c \in 1..n : 1 + c - 1 = c
    OBVIOUS
  <1> QED
    BY <1>3, <1>4

(* A write puts its cells where it is told and changes nothing before. *)
LEMMA Writes ==
  ASSUME NEW img \in Seq(CellType), NEW at \in Nat, NEW cells \in Seq(CellType)
  PROVE LET w == Written(img, at, cells) IN
          /\ w \in Seq(CellType) /\ Len(w) >= at + Len(cells)
          /\ \A c \in 1..at : c <= Len(img) => c <= Len(w) /\ w[c] = img[c]
          /\ \A c \in 1..Len(cells) : w[at + c] = cells[c]
  <1> DEFINE I == Len(img)
             C == Len(cells)
             top == IF I > at + C THEN I ELSE at + C
             Of(c) == IF c > at /\ c <= at + C THEN cells[c - at]
                      ELSE IF c <= I THEN img[c] ELSE Zero
             w == [c \in 1..top |-> Of(c)]
  <1>1. Written(img, at, cells) = w
    BY DEF Written
  <1>2. I \in Nat /\ C \in Nat
    BY LenProperties
  <1>3. top \in Nat /\ I <= top /\ at + C <= top
    BY <1>2
  <1>4. ASSUME NEW c \in 1..top PROVE Of(c) \in CellType
    <2>1. CASE c > at /\ c <= at + C
      <3>1. c - at \in 1..C
        BY <1>2, <1>3, <2>1
      <3> QED
        BY <2>1, <3>1, ElementOfSeq
    <2>2. CASE ~(c > at /\ c <= at + C) /\ c <= I
      <3>1. c \in 1..I
        BY <1>2, <1>3, <2>2
      <3> QED
        BY <2>2, <3>1, ElementOfSeq
    <2>3. CASE ~(c > at /\ c <= at + C) /\ ~(c <= I)
      BY <2>3 DEF CellType
    <2> QED
      BY <2>1, <2>2, <2>3
  <1>5. w \in [1..top -> CellType] /\ \A c \in 1..top : w[c] = Of(c)
    BY <1>4
  <1>6. w \in Seq(CellType) /\ Len(w) = top
    <2> HIDE DEF w, top
    <2> QED
      BY <1>3, <1>5, FunctionIsSeq
  <1>7. ASSUME NEW c \in 1..at, c <= I PROVE c <= top /\ w[c] = img[c]
    <2>1. c \in 1..top /\ ~(c > at)
      BY <1>2, <1>3, <1>7
    <2> QED
      BY <1>5, <1>7, <2>1
  <1>8. ASSUME NEW c \in 1..C PROVE w[at + c] = cells[c]
    <2>1. at + c \in 1..top /\ at + c > at /\ at + c <= at + C /\ (at + c) - at = c
      BY <1>2, <1>3
    <2> QED
      BY <1>5, <2>1
  <1> HIDE DEF w, top
  <1> QED
    BY <1>1, <1>3, <1>6, <1>7, <1>8

(* What was on the image before a place is still there after a step. *)
Kept(place) == \A c \in 1..place : c <= Len(image) => c <= Len(image') /\ image'[c] = image[c]

(* A write answers a count or -1, and all of it once no fault is left. *)
LEMMA AnswersBound ==
  ASSUME NEW m \in Nat, NEW n \in Answers(m)
  PROVE n \in Int /\ n <= m /\ -1 <= n /\ (faults < MaxFaults \/ n = m)
  BY DEF Answers

(* A write that answers n: all of it, or a fault. *)
LEMMA Stores ==
  ASSUME ImageTypes, NEW at \in Nat, NEW cells \in Seq(CellType), NEW n \in Answers(Len(cells)),
         Store(at, cells, n)
  PROVE /\ image' \in Seq(CellType) /\ offset' \in Nat /\ faults' \in Nat /\ Kept(at)
        /\ at <= offset'
        /\ faults <= faults' /\ (n < Len(cells) => faults' # 0)
        /\ (n = Len(cells) =>
              /\ offset' = at + Len(cells) /\ faults' = faults
              /\ \A c \in 1..Len(cells) : at + c <= Len(image') /\ image'[at + c] = cells[c])
  <1>1. /\ image' = IF n > 0 THEN Written(image, at, SubSeq(cells, 1, n)) ELSE image
        /\ offset' = at + (IF n > 0 THEN n ELSE 0)
        /\ faults' = IF n < Len(cells) THEN faults + 1 ELSE faults
    BY DEF Store
  <1>2. image \in Seq(CellType) /\ faults \in Nat
    BY DEF ImageTypes
  <1>3. Len(cells) \in Nat /\ n \in Int /\ n <= Len(cells) /\ -1 <= n
    <2>1. Len(cells) \in Nat
      BY LenProperties
    <2> QED
      BY <2>1, AnswersBound
  <1>4. CASE n > 0
    <2> DEFINE part == SubSeq(cells, 1, n)
               w == Written(image, at, part)
    <2>1. n \in Nat /\ n <= Len(cells)
      BY <1>3, <1>4
    <2>2. /\ part \in Seq(CellType) /\ Len(part) = n
          /\ \A c \in 1..n : part[c] = cells[c]
      BY <2>1, Prefix
    <2> HIDE DEF part
    <2>3. /\ w \in Seq(CellType) /\ Len(w) >= at + Len(part)
          /\ \A c \in 1..at : c <= Len(image) => c <= Len(w) /\ w[c] = image[c]
          /\ \A c \in 1..Len(part) : w[at + c] = part[c]
      BY <1>2, <2>2, Writes
    <2>4. image' = w
      BY <1>1, <1>4 DEF part
    <2> HIDE DEF w
    <2>5. Len(w) \in Nat
      BY <2>3, LenProperties
    <2>6. \A c \in 1..n : at + c <= Len(w) /\ w[at + c] = cells[c]
      BY <1>2, <2>1, <2>2, <2>3, <2>5
    <2>7. Kept(at)
      BY <2>3, <2>4 DEF Kept
    <2>8. offset' = at + n /\ offset' \in Nat /\ at <= offset'
      BY <1>1, <1>2, <1>4, <2>1
    <2>9. faults' \in Nat /\ faults <= faults' /\ (n < Len(cells) => faults' # 0)
          /\ (n = Len(cells) => faults' = faults)
      BY <1>1, <1>2, <1>3
    <2>10. n = Len(cells) => \A c \in 1..Len(cells) : /\ at + c <= Len(image')
                                                     /\ image'[at + c] = cells[c]
      BY <2>4, <2>6
    <2> QED
      BY <2>3, <2>4, <2>7, <2>8, <2>9, <2>10
  <1>5. CASE ~(n > 0)
    <2>1. image' = image /\ offset' = at
      BY <1>1, <1>2, <1>5
    <2>2. Kept(at)
      BY <2>1 DEF Kept
    <2>3. n = Len(cells) => Len(cells) = 0
      BY <1>3, <1>5
    <2> QED
      BY <1>1, <1>2, <1>3, <2>1, <2>2, <2>3
  <1> QED
    BY <1>4, <1>5

------------------------------------------------------------------------------
(* The files. *)

(* The files given to prsfs and their table are as the assumption says. *)
LEMMA Files ==
  ASSUME ImageTypes
  PROVE /\ files \in Seq(File) /\ Len(files) \in Nat /\ Len(files) <= TableCells
        /\ boot \in Nat /\ TableCells \in Nat
        /\ \A f \in 1..Len(files) : files[f] \in File /\ files[f].size \in Nat /\ files[f].name \in NameType
                                    /\ convert_filename(files[f]) \in Filename
                                    /\ files[f].missing \in BOOLEAN
  <1>1. files \in FileLists /\ boot \in BootSizes
    BY DEF ImageTypes
  <1>2. files \in Seq(File) /\ Len(files) <= TableSectors * Block /\ boot \in Nat
    BY <1>1, ImageAssumption DEF File
  <1>3. Len(files) \in Nat
    BY <1>2, LenProperties
  <1>4. \A f \in 1..Len(files) : files[f] \in File
    BY <1>2, ElementOfSeq
  <1>5. ASSUME NEW r \in File
        PROVE r.size \in Nat /\ r.name \in NameType /\ convert_filename(r) \in Filename
              /\ r.missing \in BOOLEAN
    BY <1>5 DEF File, Filename, NameType, convert_filename
  <1>6. TableCells \in Nat
    BY Constants DEF TableCells
  <1> QED
    BY <1>2, <1>3, <1>4, <1>5, <1>6 DEF TableCells

(* A set of numbers has a least one. *)
LEMMA Least ==
  ASSUME NEW T \in SUBSET Nat, T # {}
  PROVE \E x \in T : \A y \in T : x <= y
  <1>1. PICK x \in T : \A y \in T : ~(<<y, x>> \in OpToRel(<, Nat))
    BY NatLessThanWellFounded, WFMin
  <1>2. ASSUME NEW y \in T PROVE x <= y
    <2>1. x \in Nat /\ y \in Nat
      OBVIOUS
    <2>2. ~(y < x)
      BY <1>1, <2>1 DEF OpToRel
    <2> QED
      BY <2>1, <2>2
  <1> QED
    BY <1>2

(* FirstMissing is the first file that cannot be opened, or one behind the last. *)
LEMMA FirstMissingOne ==
  ASSUME ImageTypes
  PROVE /\ FirstMissing \in 1..Len(files)+1
        /\ FirstMissing > Len(files) \/ files[FirstMissing].missing
        /\ \A g \in 1..FirstMissing-1 : ~files[g].missing
  <1> DEFINE N == Len(files)
             Stop(f) == f > N \/ files[f].missing
             T == {f \in 1..N+1 : Stop(f)}
  <1>1. N \in Nat
    BY Files
  <1>2. N + 1 \in T /\ T \in SUBSET Nat
    BY <1>1
  <1>3. PICK x \in T : \A y \in T : x <= y
    <2> HIDE DEF T
    <2> QED
      BY <1>2, Least
  <1>4. x \in 1..N+1 /\ Stop(x)
    BY <1>3
  <1>5. ASSUME NEW g \in 1..x-1 PROVE ~files[g].missing
    <2>1. g \in 1..N+1 /\ ~(x <= g)
      BY <1>1, <1>4
    <2>2. g \notin T
      BY <1>3, <2>1
    <2> QED
      BY <2>1, <2>2
  <1>6. \E f \in 1..N+1 : Stop(f) /\ \A g \in 1..f-1 : ~files[g].missing
    BY <1>4, <1>5
  <1> QED
    BY <1>6 DEF FirstMissing

(* The cells of the next sector's worth of a file. *)
LEMMA Chunks ==
  ASSUME NEW name \in NameType, NEW size \in Nat, NEW at \in 0..size
  PROVE /\ Chunk(name, size, at) \in Seq(CellType)
        /\ Len(Chunk(name, size, at)) = IF size - at < Block THEN size - at ELSE Block
        /\ at + Len(Chunk(name, size, at)) \in at..size
        /\ \A c \in 1..Len(Chunk(name, size, at)) : Chunk(name, size, at)[c] = Cell(name, at + c - 1)
  <1> DEFINE n == IF size - at < Block THEN size - at ELSE Block
             f == [c \in 1..n |-> Cell(name, at + c - 1)]
  <1>1. Chunk(name, size, at) = f
    BY DEF Chunk
  <1>2. n \in Nat /\ at + n \in at..size
    BY Constants
  <1>3. ASSUME NEW c \in 1..n PROVE Cell(name, at + c - 1) \in CellType
    <2>1. at + c - 1 \in Nat
      BY <1>2
    <2> QED
      BY <2>1 DEF Cell, CellType, DataType
  <1>4. f \in [1..n -> CellType]
    BY <1>3
  <1>5. f \in Seq(CellType) /\ Len(f) = n
    <2> HIDE DEF f, n
    <2> QED
      BY <1>2, <1>4, FunctionIsSeq
  <1>6. \A c \in 1..n : f[c] = Cell(name, at + c - 1)
    OBVIOUS
  <1> HIDE DEF f
  <1> QED
    BY <1>1, <1>2, <1>5, <1>6

(* write_sectors rounds stage 1 down to whole sectors, at least one. *)
LEMMA BootCount ==
  ASSUME boot \in Nat
  PROVE BootSectors \in Nat /\ BootSectors >= 1 /\ (BootSectors = 1 \/ BootSectors * Block <= boot)
  <1>1. Block \in Nat /\ Block > 0
    BY Constants
  <1>2. RoundDown(boot) \in Nat /\ RoundDown(boot) * Block <= boot
    BY <1>1 DEF RoundDown
  <1> QED
    BY <1>2 DEF BootSectors

------------------------------------------------------------------------------
(* imagefs *)

Early == {"create", "open_stage1", "stage1", "failed"}
(* While imagefs works nothing is said of the file table. *)
LEMMA NotFiled ==
  ASSUME phase' \in Early
  PROVE Stage1Stays' /\ TableRight' /\ EntryInTurn' /\ FilesWritten' /\ FileInTurn'
  BY DEF Early, Filed, OnImage, Stage1Stays, TableRight, EntryInTurn, FilesWritten, FileInTurn

(* The first state. *)
LEMMA Starts == ImageInit => IInv
  <1> SUFFICES ASSUME ImageInit PROVE IInv
    OBVIOUS
  <1>1. /\ phase = "create" /\ files \in FileLists /\ boot \in BootSizes
        /\ image = <<>> /\ offset = 0 /\ table = <<>> /\ k = 1
        /\ start = FirstFree /\ i = 0 /\ pos = 0 /\ nsect = 0 /\ total = 0
        /\ faults = 0 /\ damaged = 0
    BY DEF ImageInit, FirstFree
  <1>2. ImageTypes
    <2>1. image \in Seq(CellType) /\ table \in Seq(EntryType)
      BY <1>1, EmptySeq
    <2> QED
      BY <1>1, <2>1, Constants DEF ImageTypes
  <1>3. Unwritten
    BY <1>1 DEF Unwritten
  <1> QED
    BY <1>1, <1>2, <1>3
       DEF IInv, Filed, OnImage, Stage1Copied, Stage1Stays, TableRight, EntryInTurn, FilesWritten, FileInTurn

(* imagefs c, sector by sector. *)
LEMMA CreateStep ==
  ASSUME IInv, CreateFloppy
  PROVE IInv'
  <1> DEFINE zeros == [c \in 1..Block |-> Zero]
  <1>1. PICK n \in Answers(Block) :
          Store(offset, zeros, n) /\ i' = IF n > 0 THEN i + 1 ELSE Sectors
    BY DEF CreateFloppy
  <1>2. /\ phase = "create" /\ phase' = phase
        /\ UNCHANGED <<files, boot, table, k, start, pos, nsect, total, damaged>>
    BY DEF CreateFloppy
  <1>3. ImageTypes /\ Unwritten
    BY DEF IInv
  <1>4. zeros \in Seq(CellType) /\ Len(zeros) = Block
    <2>1. zeros \in [1..Block -> CellType]
      BY DEF CellType
    <2> HIDE DEF zeros
    <2> QED
      BY <2>1, Constants, FunctionIsSeq
  <1> HIDE DEF zeros
  <1>5. image' \in Seq(CellType) /\ offset' \in Nat /\ faults' \in Nat
    <2>1. offset \in Nat
      BY <1>3 DEF ImageTypes
    <2> QED
      BY <1>1, <1>3, <1>4, <2>1, Stores
  <1>6. ImageTypes'
    <2>1. i' = i + 1 \/ i' = Sectors
      BY <1>1
    <2>2. i \in Nat /\ Sectors \in Nat
      BY <1>3, Constants DEF ImageTypes
    <2>3. i' \in Nat
      BY <2>1, <2>2
    <2> QED
      BY <1>2, <1>3, <1>5, <2>3 DEF ImageTypes
  <1>7. Unwritten' /\ Stage1Copied'
    BY <1>2, <1>3 DEF Unwritten, Stage1Copied
  <1> QED
    BY <1>2, <1>6, <1>7, NotFiled DEF IInv, Early

(* The empty image is done. *)
LEMMA CreateEndsStep ==
  ASSUME IInv, CreateEnds
  PROVE IInv'
  <1>1. /\ phase = "create" /\ phase' = "open_stage1" /\ i' = 0
        /\ UNCHANGED <<files, boot, image, offset, table, k, start, pos, nsect, total, faults, damaged>>
    BY DEF CreateEnds
  <1>2. ImageTypes' /\ Unwritten'
    BY <1>1 DEF IInv, ImageTypes, Unwritten
  <1>3. Stage1Copied'
    BY <1>1 DEF Stage1Copied
  <1> QED
    BY <1>1, <1>2, <1>3, NotFiled DEF IInv, Early

(* imagefs w opens stage 1 and seeks, or the build fails. *)
LEMMA OpenStage1Step ==
  ASSUME IInv, OpenStage1
  PROVE IInv'
  <1>1. /\ phase = "open_stage1"
        /\ UNCHANGED <<files, boot, image, table, k, start, i, pos, nsect, total, damaged>>
        /\ \/ phase' = "stage1" /\ offset' = 0 /\ faults' = faults
           \/ phase' = "failed" /\ faults' = faults + 1 /\ offset' = offset
    BY DEF OpenStage1
  <1>2. ImageTypes'
    <2>1. offset \in Nat /\ faults \in Nat
      BY DEF IInv, ImageTypes
    <2>2. (offset' = 0 /\ faults' = faults) \/ (offset' = offset /\ faults' = faults + 1)
      BY <1>1
    <2>3. offset' \in Nat /\ faults' \in Nat
      BY <2>1, <2>2
    <2>4. phase' \in {"stage1", "failed"}
      BY <1>1
    <2> QED
      BY <1>1, <2>3, <2>4 DEF IInv, ImageTypes
  <1>3. Unwritten'
    BY <1>1 DEF IInv, Unwritten
  <1>4. Stage1Copied'
    <2> SUFFICES ASSUME phase' = "stage1" PROVE Stage1Copied'
      BY DEF Stage1Copied
    <2>1. offset' = 0 /\ pos' = 0 /\ i' = 0
      BY <1>1 DEF IInv, Unwritten
    <2>2. boot' \in Nat /\ BootSectors' \in Nat /\ BootSectors' >= 1
      <3>1. boot \in Nat /\ boot' = boot
        BY <1>1, Files DEF IInv
      <3> QED
        BY <3>1, BootCount DEF BootSectors
    <2>3. 0 * Block = 0
      BY Constants
    <2> QED
      BY <2>1, <2>2, <2>3 DEF Stage1Copied
  <1> QED
    BY <1>1, <1>2, <1>3, <1>4, NotFiled DEF IInv, Early

(* What is written of stage 1 when i of its sectors are. *)
LEMMA Stage1Progress ==
  ASSUME boot \in Nat, i \in Nat, i < BootSectors, pos = i * Block,
         SectorsOf(boot) <= BootSectors
  PROVE pos + (IF boot - pos < Block THEN boot - pos ELSE Block)
          = IF i + 1 < BootSectors THEN (i + 1) * Block ELSE boot
  <1> DEFINE B == BootSectors
  <1>1. Block \in Nat /\ Block > 0
    BY Constants
  <1>2. B \in Nat /\ B >= 1 /\ (B = 1 \/ B * Block <= boot)
    BY BootCount
  <1>3. boot <= B * Block
    <2>1. SectorsOf(boot) \in Nat /\ boot <= SectorsOf(boot) * Block
      BY Sectored
    <2>2. SectorsOf(boot) * Block <= B * Block /\ SectorsOf(boot) * Block \in Int
      BY <1>2, <2>1, Cells
    <2>3. B * Block \in Int
      BY <1>2, Cells
    <2> QED
      BY <2>1, <2>2, <2>3
  <1> HIDE DEF B
  <1>4. (i + 1) * Block = pos + Block /\ pos \in Nat
    BY <1>1
  <1>5. CASE i + 1 < B
    <2>1. (i + 1) * Block + Block <= B * Block
      BY <1>2, <1>5, Cells
    <2>2. B * Block <= boot /\ B * Block \in Int
      BY <1>2, <1>5, Cells
    <2>3. pos + Block <= boot
      BY <1>1, <1>4, <2>1, <2>2
    <2> QED
      BY <1>1, <1>4, <1>5, <2>3 DEF B
  <1>6. CASE ~(i + 1 < B)
    <2>1. i + 1 = B
      BY <1>2, <1>6 DEF B
    <2>2. boot <= pos + Block
      BY <1>3, <1>4, <2>1
    <2> QED
      BY <1>1, <1>4, <1>6, <2>2 DEF B
  <1> QED
    BY <1>5, <1>6

(* imagefs w writes one sector of stage 1. *)
LEMMA WriteSectorsStep ==
  ASSUME IInv, WriteSectors
  PROVE IInv'
  <1> DEFINE cells == Chunk(Stage1, boot, pos)
             len == Len(cells)
             B == BootSectors
  <1>1. PICK n \in Answers(len) :
          Store(offset, cells, n) /\ pos' = pos + len /\ i' = IF n >= 0 THEN i + 1 ELSE i
    BY DEF WriteSectors
  <1>2. /\ phase = "stage1" /\ i < B /\ phase' = phase
        /\ UNCHANGED <<files, boot, table, k, start, nsect, total, damaged>>
    BY DEF WriteSectors
  <1>3. ImageTypes /\ boot \in Nat /\ pos \in Nat /\ i \in Nat /\ offset \in Nat /\ pos <= boot
        /\ faults \in Nat
    BY <1>2, Files DEF IInv, ImageTypes, Stage1Copied
  <1>4. /\ cells \in Seq(CellType) /\ len = IF boot - pos < Block THEN boot - pos ELSE Block
        /\ pos + len \in pos..boot
        /\ \A c \in 1..len : cells[c] = Cell(Stage1, pos + c - 1)
    <2>1. pos \in 0..boot
      BY <1>3
    <2>2. Stage1 \in NameType
      BY DEF NameType
    <2> QED
      BY <1>3, <2>1, <2>2, Chunks
  <1>5. len \in Nat
    BY <1>4, LenProperties
  <1> HIDE DEF cells
  <1>6. n \in Int /\ n <= len /\ -1 <= n
    BY <1>5, AnswersBound
  <1>7. /\ image' \in Seq(CellType) /\ offset' \in Nat /\ faults' \in Nat /\ Kept(offset)
        /\ faults <= faults' /\ (n < len => faults' # 0)
        /\ (n = len =>
              /\ offset' = offset + len /\ faults' = faults
              /\ \A c \in 1..len : offset + c <= Len(image') /\ image'[offset + c] = cells[c])
    BY <1>1, <1>3, <1>4, Stores
  <1>8. pos' \in Nat /\ pos' <= boot /\ (i' = i \/ i' = i + 1) /\ i' \in Nat
    BY <1>1, <1>3, <1>4
  <1>9. ImageTypes'
    BY <1>2, <1>3, <1>7, <1>8 DEF ImageTypes
  <1>10. Unwritten'
    BY <1>2 DEF IInv, Unwritten
  <1>11. B \in Nat /\ BootSectors' = B /\ Stage1Fits' = Stage1Fits
    BY <1>2, <1>3, BootCount DEF BootSectors, Stage1Fits
  <1>12. i' <= B
    BY <1>2, <1>3, <1>8, <1>11
  <1>13. ASSUME faults' = 0, Stage1Fits
         PROVE /\ offset' = pos' /\ pos' = IF i' < B THEN i' * Block ELSE boot
               /\ \A m \in 0..pos'-1 : m < Len(image') /\ image'[m + 1] = Cell(Stage1, m)
    <2>1. faults = 0 /\ n = len
      BY <1>3, <1>5, <1>6, <1>7, <1>13
    <2>2. i' = i + 1
      BY <1>1, <1>5, <2>1
    <2>3. /\ offset = pos /\ pos = i * Block
          /\ \A m \in 0..pos-1 : m < Len(image) /\ image[m + 1] = Cell(Stage1, m)
      BY <1>2, <1>13, <2>1 DEF IInv, Stage1Copied
    <2>4. offset' = pos'
      BY <1>1, <1>7, <2>1, <2>3
    <2>5. pos' = IF i' < B THEN i' * Block ELSE boot
      <3>1. pos + len = IF i + 1 < B THEN (i + 1) * Block ELSE boot
        <4>1. boot \in Nat /\ i \in Nat /\ i < BootSectors /\ pos = i * Block
          BY <1>2, <1>3, <2>3
        <4>2. SectorsOf(boot) <= BootSectors
          BY <1>13 DEF Stage1Fits
        <4>3. pos + (IF boot - pos < Block THEN boot - pos ELSE Block)
                = IF i + 1 < BootSectors THEN (i + 1) * Block ELSE boot
          BY ONLY <4>1, <4>2, Stage1Progress
        <4> QED
          BY <1>4, <4>3
      <3> QED
        BY <1>1, <2>2, <3>1
    <2>6. ASSUME NEW m \in 0..pos'-1
          PROVE m < Len(image') /\ image'[m + 1] = Cell(Stage1, m)
      <3>1. Len(image') \in Nat /\ Len(image) \in Nat
        BY <1>3, <1>7, LenProperties DEF ImageTypes
      <3>2. CASE m < pos
        <4>1. m \in 0..pos-1 /\ m + 1 \in 1..offset
          BY <1>3, <2>3, <2>6, <3>2
        <4>2. m < Len(image) /\ image[m + 1] = Cell(Stage1, m)
          BY <2>3, <4>1
        <4>3. m + 1 <= Len(image)
          BY <3>1, <4>2
        <4>4. m + 1 <= Len(image') /\ image'[m + 1] = image[m + 1]
          BY <1>7, <4>1, <4>3 DEF Kept
        <4> QED
          BY <3>1, <4>2, <4>4
      <3>3. CASE ~(m < pos)
        <4> DEFINE c == m - pos + 1
        <4>1. c \in 1..len /\ offset + c = m + 1 /\ pos + c - 1 = m
          <5>1. pos \in Nat /\ offset = pos /\ pos' = pos + len /\ pos' \in Nat
            BY <1>1, <1>3, <1>8, <2>3
          <5>2. m \in Nat /\ m < pos + len /\ m >= pos
            BY <5>1, <1>5, <2>6, <3>3
          <5> QED
            BY <5>1, <5>2, <1>5
        <4>2. offset + c <= Len(image') /\ image'[offset + c] = cells[c]
          BY <1>7, <2>1, <4>1
        <4>3. cells[c] = Cell(Stage1, pos + c - 1)
          BY <1>4, <4>1
        <4> HIDE DEF c
        <4> QED
          BY <3>1, <4>1, <4>2, <4>3
      <3> QED
        BY <3>2, <3>3
    <2> QED
      BY <2>4, <2>5, <2>6
  <1>14. Stage1Copied'
    BY <1>2, <1>8, <1>11, <1>12, <1>13 DEF Stage1Copied
  <1> QED
    BY <1>2, <1>9, <1>10, <1>14, NotFiled DEF IInv, Early

(* Stage 1 is written; prsfs starts with no entry filled. *)
LEMMA WriteSectorsEndsStep ==
  ASSUME IInv, WriteSectorsEnds
  PROVE IInv'
  <1>1. /\ phase = "stage1" /\ i = BootSectors
        /\ \/ phase' = "failed" /\ UNCHANGED table
           \/ /\ phase' = "info"
              /\ table' = [f \in 1..Len(files) |-> Entry(convert_filename(files[f]), 0, 0)]
        /\ i' = 1 /\ pos' = 0
        /\ UNCHANGED <<files, boot, image, offset, k, start, nsect, total, faults, damaged>>
    BY DEF WriteSectorsEnds
  <1>2. ImageTypes /\ Unwritten /\ Stage1Copied
    BY DEF IInv
  <1>3. boot \in Nat /\ pos \in Nat /\ Len(files) \in Nat /\ BootSectors \in Nat
    BY <1>2, Files, BootCount DEF ImageTypes
  <1>4. CASE phase' = "failed"
    <2>1. table' = table
      BY <1>1, <1>4
    <2>2. ImageTypes'
      BY <1>1, <1>2, <1>4, <2>1 DEF ImageTypes
    <2>3. Unwritten' /\ Stage1Copied'
      BY <1>4 DEF Unwritten, Stage1Copied
    <2> QED
      BY <1>4, <2>2, <2>3, NotFiled DEF IInv, Early
  <1>5. CASE phase' = "info"
    <2> DEFINE new(f) == Entry(convert_filename(files[f]), 0, 0)
    <2>1. table' = [f \in 1..Len(files) |-> new(f)]
      BY <1>1, <1>5
    <2>2. ASSUME NEW f \in 1..Len(files)
          PROVE new(f) \in EntryType /\ new(f).filename = convert_filename(files[f]) /\ new(f).count = 0
      <3>1. convert_filename(files[f]) \in Filename
        BY <1>2, Files
      <3> QED
        BY <3>1 DEF Entry, EntryType
    <2>3. table' \in [1..Len(files) -> EntryType] /\ \A f \in 1..Len(files) : table'[f] = new(f)
      BY <2>1, <2>2
    <2>4. table' \in Seq(EntryType) /\ Len(table') = Len(files)
      BY <1>3, <2>3, FunctionIsSeq
    <2>5. ImageTypes'
      BY <1>1, <1>2, <1>5, <2>4 DEF ImageTypes, Filed
    <2>6. Unwritten' /\ Stage1Copied' /\ FilesWritten' /\ FileInTurn'
      BY <1>1, <1>2, <1>5 DEF Unwritten, Stage1Copied, FilesWritten, FileInTurn, OnImage
    <2>7. Stage1Stays'
      <3> SUFFICES ASSUME faults' = 0, Stage1Fits' PROVE Stage1Whole'
        BY DEF Stage1Stays
      <3>1. Stage1Fits /\ faults = 0
        BY <1>1 DEF Stage1Fits, BootSectors
      <3>2. pos = boot /\ \A m \in 0..pos-1 : m < Len(image) /\ image[m + 1] = Cell(Stage1, m)
        BY <1>1, <1>2, <1>3, <3>1 DEF Stage1Copied
      <3> QED
        BY <1>1, <3>2 DEF Stage1Whole
    <2>8. TableRight'
      <3>1. ASSUME NEW f \in 1..Len(files) PROVE ~Filled(f)'
        BY <1>1, <1>5, <3>1 DEF Filled
      <3>2. \A f \in 1..Len(files) : /\ table'[f].filename = convert_filename(files[f])
                                     /\ table'[f].count = 0
        BY <2>2, <2>3
      <3> QED
        BY <1>1, <2>4, <3>1, <3>2 DEF TableRight, convert_filename
    <2>9. EntryInTurn'
      <3>1. k' = 1 /\ start' = FirstFree /\ FirstFree \in Nat /\ FreeFrom(1)' = FirstFree
        BY <1>1, <1>2, Constants DEF Unwritten, FreeFrom
      <3>2. FirstMissing' \in 1..Len(files')+1 /\ FirstMissing' >= 1 /\ Len(files') = Len(files)
        BY <1>1, <1>2, <1>3, FirstMissingOne DEF FirstMissing
      <3>3. 1 \in 1..Len(files)+1 /\ 1 = IF 1 < FirstMissing' THEN 1 ELSE FirstMissing'
        BY <1>3, <3>2
      <3> QED
        BY <1>1, <3>1, <3>2, <3>3 DEF EntryInTurn
    <2> QED
      BY <2>5, <2>6, <2>7, <2>8, <2>9 DEF IInv
  <1> QED
    BY <1>1, <1>4, <1>5

------------------------------------------------------------------------------
(* prsfs: the table. *)

(* Nothing of these changes with the entry or the file in turn. *)
LEMMA SameFiles ==
  ASSUME UNCHANGED files
  PROVE FirstMissing' = FirstMissing
  BY DEF FirstMissing

(* A write at or behind the table leaves stage 1 whole. *)
LEMMA Stage1Safe ==
  ASSUME ImageTypes, Stage1Stays, phase \in Filed, UNCHANGED boot, faults <= faults', faults' \in Nat,
         Kept(TableStart * Block), image' \in Seq(CellType)
  PROVE Stage1Stays'
  <1> SUFFICES ASSUME faults' = 0, Stage1Fits' PROVE Stage1Whole'
    BY DEF Stage1Stays
  <1>1. boot \in Nat /\ faults \in Nat /\ boot' = boot
    BY Files DEF ImageTypes
  <1>2. Stage1Fits /\ faults = 0
    BY <1>1 DEF Stage1Fits, BootSectors
  <1>3. Stage1Whole
    BY <1>2 DEF Stage1Stays
  <1>4. boot <= TableStart * Block /\ TableStart * Block \in Nat
    <2>1. SectorsOf(boot) \in Nat /\ boot <= SectorsOf(boot) * Block
      BY <1>1, Sectored
    <2>2. SectorsOf(boot) <= TableStart /\ TableStart \in Nat /\ BootSectors \in Nat
      BY <1>1, <1>2, <2>1, BootCount, Constants DEF Stage1Fits
    <2>3. SectorsOf(boot) * Block <= TableStart * Block
      BY <2>1, <2>2, Cells
    <2>4. TableStart * Block \in Nat /\ SectorsOf(boot) * Block \in Nat
      BY <2>1, Constants
    <2> QED
      BY <1>1, <2>1, <2>3, <2>4
  <1>5. ASSUME NEW n \in 0..boot-1 PROVE n < Len(image') /\ image'[n + 1] = Cell(Stage1, n)
    <2>1. n < Len(image) /\ image[n + 1] = Cell(Stage1, n)
      BY <1>3 DEF Stage1Whole
    <2>2. Len(image) \in Nat /\ Len(image') \in Nat
      BY LenProperties DEF ImageTypes
    <2>3. n + 1 \in 1..(TableStart * Block) /\ n + 1 <= Len(image)
      BY <1>1, <1>4, <2>1, <2>2
    <2>4. n + 1 <= Len(image') /\ image'[n + 1] = image[n + 1]
      BY <2>3 DEF Kept
    <2> QED
      BY <2>1, <2>2, <2>4
  <1> QED
    BY <1>1, <1>5 DEF Stage1Whole

(* An image left alone keeps every place. *)
LEMMA Unmoved ==
  ASSUME UNCHANGED image
  PROVE \A place : Kept(place)
  BY DEF Kept

(* prsfs fills the entry in turn, unless a file was missing. *)
LEMMA SetInfoEntryStep ==
  ASSUME IInv, SetInfoEntry
  PROVE IInv'
  <1> DEFINE N == Len(files)
             F == FirstMissing
             count == SectorsOf(files[k].size)
  <1>1. /\ phase = "info" /\ i <= Len(table) /\ phase' = phase /\ i' = i + 1
        /\ UNCHANGED <<files, boot, image, offset, pos, nsect, total, faults, damaged>>
        /\ IF files[k].missing THEN UNCHANGED <<table, start, k>>
           ELSE /\ table' = [table EXCEPT ![i] = Entry(@.filename, start, count)]
                /\ start' = start + count /\ k' = k + 1
    BY DEF SetInfoEntry
  <1>2. ImageTypes /\ Unwritten /\ Stage1Stays /\ TableRight /\ EntryInTurn
    BY DEF IInv
  <1>3. /\ N \in Nat /\ F \in 1..N+1 /\ F' = F
        /\ (F > N \/ files[F].missing) /\ \A g \in 1..F-1 : ~files[g].missing
    BY <1>1, <1>2, Files, FirstMissingOne, SameFiles
  <1>4. /\ Len(table) = N /\ i \in 1..N /\ k = (IF i < F THEN i ELSE F)
        /\ start = FreeFrom(k) /\ start >= FirstFree /\ start \in Nat
        /\ \A f \in 1..N : /\ table[f].filename = convert_filename(files[f])
                           /\ IF Filled(f) THEN RightEntry(f) ELSE table[f].count = 0
    BY <1>1, <1>2, <1>3 DEF TableRight, EntryInTurn, Filed, ImageTypes
  <1>5. Unwritten' /\ Stage1Copied' /\ FilesWritten' /\ FileInTurn'
    BY <1>1, <1>2 DEF Unwritten, Stage1Copied, FilesWritten, FileInTurn, OnImage
  <1>6. Stage1Stays'
    BY <1>1, <1>2 DEF Stage1Stays, Stage1Fits, Stage1Whole, BootSectors
  <1> HIDE DEF F, N
  <1>7. CASE files[k].missing
    <2>1. table' = table /\ start' = start /\ k' = k
      BY <1>1, <1>7
    <2>2. ~(i < F) /\ k = F
      BY <1>3, <1>4, <1>7
    <2>3. ImageTypes'
      BY <1>1, <1>2, <2>1 DEF ImageTypes
    <2>4. EntryInTurn'
      <3>1. i' \in 1..N+1 /\ ~(i' < F) /\ FreeFrom(k)' = FreeFrom(k)
        BY <1>1, <1>3, <1>4, <2>1, <2>2 DEF FreeFrom
      <3> QED
        BY <1>1, <1>3, <1>4, <2>1, <2>2, <3>1 DEF EntryInTurn, N, F
    <2>5. TableRight'
      <3>1. ASSUME NEW f \in 1..N PROVE Filled(f)' <=> Filled(f)
        BY <1>1, <1>3, <1>4, <2>2 DEF Filled, F
      <3>2. \A f \in 1..N : RightEntry(f)' <=> RightEntry(f)
        BY <1>1, <2>1 DEF RightEntry, FreeFrom
      <3> QED
        BY <1>1, <1>4, <2>1, <3>1, <3>2 DEF TableRight, N
    <2> QED
      BY <1>5, <1>6, <2>3, <2>4, <2>5 DEF IInv
  <1>8. CASE ~files[k].missing
    <2>1. i < F /\ k = i
      BY <1>3, <1>4, <1>8
    <2> DEFINE e == Entry(table[i].filename, start, count)
    <2>2. table' = [table EXCEPT ![i] = e] /\ start' = start + count /\ k' = i + 1
      BY <1>1, <1>8, <2>1
    <2>3. count \in Nat
      BY <1>2, <1>4, <2>1, Files, Sectored DEF N
    <2>4. table \in Seq(EntryType) /\ i \in 1..Len(table)
      BY <1>2, <1>4 DEF ImageTypes
    <2>5. /\ e \in EntryType /\ e.filename = table[i].filename /\ e.start = start /\ e.count = count
      <3>1. table[i].filename \in Filename
        BY <1>2, <1>4, Files DEF N
      <3> HIDE DEF count
      <3> QED
        BY <1>4, <2>3, <3>1 DEF Entry, EntryType
    <2> HIDE DEF e
    <2>6. /\ table' \in Seq(EntryType) /\ Len(table') = N
          /\ \A f \in 1..N : table'[f] = IF f = i THEN e ELSE table[f]
      BY <1>4, <2>2, <2>4, <2>5, ExceptSeq
    <2>7. start' \in Nat /\ start' >= start /\ i' \in Nat
      BY <1>1, <1>4, <2>2, <2>3
    <2>8. ImageTypes'
      BY <1>1, <1>2, <2>6, <2>7 DEF ImageTypes
    <2>9. ASSUME NEW f \in 1..i PROVE FreeFrom(f)' = FreeFrom(f)
      <3>1. CASE f = 1
        BY <3>1 DEF FreeFrom
      <3>2. CASE f # 1
        <4>1. f - 1 \in 1..N /\ f - 1 # i
          BY <1>3, <1>4, <3>2
        <4> QED
          BY <2>6, <3>2, <4>1 DEF FreeFrom
      <3> QED
        BY <3>1, <3>2
    <2> PICK j \in 1..N : j = i
      BY <1>4
    <2>10. RightEntry(j)'
      <3>1. table'[j] = e /\ files' = files /\ FreeFrom(j)' = start
        <4>1. j \in 1..i
          BY <1>4
        <4> QED
          BY <1>1, <1>4, <2>1, <2>6, <2>9, <4>1
      <3> QED
        BY <1>4, <2>1, <2>5, <3>1 DEF RightEntry
    <2>11. EntryInTurn'
      <3>1. FreeFrom(j + 1)' = start'
        <4>1. j + 1 # 1 /\ (j + 1) - 1 = j /\ table'[j] = e
          BY <1>3, <2>6
        <4> QED
          BY <2>2, <2>5, <4>1 DEF FreeFrom
      <3>4. FreeFrom(k)' = FreeFrom(j + 1)'
        BY <2>2 DEF FreeFrom
      <3>2. i' \in 1..N+1 /\ k' = IF i' < F THEN i' ELSE F
        BY <1>1, <1>3, <1>4, <2>1, <2>2
      <3>3. start' >= FirstFree /\ FirstFree \in Nat
        BY <1>4, <2>7, Constants
      <3> QED
        BY <1>1, <1>3, <3>1, <3>2, <3>3, <3>4 DEF EntryInTurn, N, F
    <2>12. TableRight'
      <3>1. ASSUME NEW f \in 1..N
            PROVE /\ table'[f].filename = convert_filename(files[f])
                  /\ IF Filled(f)' THEN RightEntry(f)' ELSE table'[f].count = 0
        <4>1. CASE f = i
          <5>1. f = j /\ table'[f] = e /\ Filled(f)' /\ RightEntry(f)'
            BY <1>1, <1>3, <1>4, <2>1, <2>6, <2>10, <4>1 DEF Filled, F
          <5>2. table[f].filename = convert_filename(files[f])
            BY <1>4
          <5> QED
            BY <2>5, <4>1, <5>1, <5>2
        <4>2. CASE f # i
          <5>1. table'[f] = table[f]
            BY <2>6, <4>2
          <5>2. Filled(f)' <=> Filled(f)
            BY <1>1, <1>3, <1>4, <4>2 DEF Filled, F
          <5>3. Filled(f) => FreeFrom(f)' = FreeFrom(f)
            BY <1>1, <1>4, <2>9, <5>2, <4>2 DEF Filled
          <5>4. Filled(f) /\ RightEntry(f) => RightEntry(f)'
            BY <1>1, <5>1, <5>3 DEF RightEntry
          <5> QED
            BY <1>4, <5>1, <5>2, <5>4
        <4> QED
          BY <4>1, <4>2
      <3> QED
        BY <1>1, <2>6, <3>1 DEF TableRight, N, convert_filename
    <2> QED
      BY <1>5, <1>6, <2>8, <2>11, <2>12 DEF IInv
  <1> QED
    BY <1>7, <1>8

------------------------------------------------------------------------------
(* prsfs: the image. *)

(* The table's cells and the sectors behind it. *)
LEMMA Behind ==
  TableStart * Block \in Nat /\ TableCells \in Nat /\ FirstFree * Block \in Nat
  /\ TableStart * Block + TableCells = FirstFree * Block
  <1>1. TableStart \in Int /\ TableSectors \in Int
    BY Constants
  <1>2. (TableStart + TableSectors) * Block = TableStart * Block + TableSectors * Block
    BY <1>1, Cells
  <1>3. TableStart * Block \in Nat /\ TableSectors * Block \in Nat
    BY Constants
  <1>4. FirstFree \in Nat /\ Block \in Nat
    BY Constants
  <1>5. FirstFree * Block \in Nat
    BY <1>4
  <1> QED
    BY <1>2, <1>3, <1>5 DEF TableCells, FirstFree

(* The fields of an entry are numbers. *)
LEMMA Entries ==
  ASSUME ImageTypes, TableRight, phase \in Filed, NEW f \in 1..Len(files)
  PROVE /\ Len(table) = Len(files) /\ table[f] \in EntryType
        /\ table[f].start \in Nat /\ table[f].count \in Nat /\ table[f].start * Block \in Nat
  <1>1. Len(table) = Len(files) /\ table \in Seq(EntryType)
    BY DEF TableRight, ImageTypes
  <1>2. table[f] \in EntryType
    BY <1>1, ElementOfSeq
  <1>3. table[f].start \in Nat /\ table[f].count \in Nat
    BY <1>2 DEF EntryType
  <1>4. \A n \in Nat : n * Block \in Nat
    BY Constants
  <1> QED
    BY <1>1, <1>2, <1>3, <1>4

(* A write behind a file leaves it whole. *)
LEMMA HoldsStays ==
  ASSUME ImageTypes, TableRight, phase \in Filed, UNCHANGED <<files, table>>,
         image' \in Seq(CellType), NEW place \in Nat, Kept(place),
         NEW f \in 1..Len(files), Holds(f), table[f].start * Block + files[f].size <= place
  PROVE Holds(f)'
  <1> DEFINE first == table[f].start * Block
             size == files[f].size
  <1>1. first \in Nat /\ size \in Nat
    BY Entries, Files
  <1>2. Len(image) \in Nat /\ Len(image') \in Nat
    BY LenProperties DEF ImageTypes
  <1>3. ASSUME NEW n \in 0..size-1
        PROVE first + n < Len(image') /\ image'[first + n + 1] = Cell(files[f].name, n)
    <2>1. first + n < Len(image) /\ image[first + n + 1] = Cell(files[f].name, n)
      BY DEF Holds
    <2> HIDE DEF first, size
    <2>2. first + n + 1 \in 1..place /\ first + n + 1 <= Len(image)
      <3>1. first + size <= place
        BY DEF first, size
      <3> QED
        BY <1>1, <1>2, <2>1, <3>1
    <2>3. first + n + 1 <= Len(image') /\ image'[first + n + 1] = image[first + n + 1]
      BY <2>2 DEF Kept
    <2> QED
      BY <1>1, <1>2, <2>1, <2>3
  <1>4. table' = table /\ files' = files
    OBVIOUS
  <1> QED
    BY <1>3, <1>4 DEF Holds

(* A write behind the table leaves it whole. *)
LEMMA TableStays ==
  ASSUME ImageTypes, UNCHANGED table, image' \in Seq(CellType),
         NEW place \in Nat, Kept(place), TableOnImage, FirstFree * Block <= place
  PROVE TableOnImage'
  <1> DEFINE at == TableStart * Block
  <1>1. at \in Nat /\ TableCells \in Nat /\ at + TableCells <= place
    BY Behind
  <1>2. ASSUME NEW c \in 1..TableCells
        PROVE at + c <= Len(image') /\ image'[at + c] = IF c <= Len(table) THEN table[c] ELSE Zero
    <2>1. at + c <= Len(image) /\ image[at + c] = IF c <= Len(table) THEN table[c] ELSE Zero
      BY DEF TableOnImage
    <2>2. at + c \in 1..place
      BY <1>1
    <2>3. at + c <= Len(image') /\ image'[at + c] = image[at + c]
      BY <2>1, <2>2 DEF Kept
    <2> QED
      BY <2>1, <2>3
  <1> QED
    BY <1>2 DEF TableOnImage, TableCells

(* What holds of the table when a step leaves it and the phase keeps it. *)
LEMMA TableKept ==
  ASSUME ImageTypes, TableRight, phase \in OnImage, phase' \in OnImage, UNCHANGED <<files, table>>
  PROVE /\ TableRight' /\ EntryInTurn'
        /\ \A f \in 1..Len(files) : f < FirstMissing => RightEntry(f)
        /\ \A f \in 1..Len(files) : ~(f < FirstMissing) => table[f].count = 0
  <1>1. phase \in Filed /\ phase' \in Filed /\ phase # "info" /\ phase' # "info"
    BY DEF OnImage, Filed
  <1>2. FirstMissing' = FirstMissing
    BY SameFiles
  <1>3. \A f \in 1..Len(files) : /\ Filled(f) <=> f < FirstMissing
                                 /\ Filled(f)' <=> Filled(f)
                                 /\ RightEntry(f)' <=> RightEntry(f)
    BY <1>1, <1>2 DEF Filled, RightEntry, FreeFrom
  <1> QED
    BY <1>1, <1>3 DEF TableRight, EntryInTurn, convert_filename

(* prsfs writes the table, in full, in part or not at all. *)
LEMMA WriteTableStep ==
  ASSUME IInv, WriteTable
  PROVE IInv'
  <1> DEFINE N == Len(files)
             cells == [c \in 1..TableCells |-> IF c <= Len(table) THEN table[c] ELSE Zero]
             at == TableStart * Block
  <1>1. /\ phase = "info" /\ i = Len(table) + 1 /\ i' = 1
        /\ UNCHANGED <<files, boot, table, k, start, pos, nsect, total>>
    BY DEF WriteTable
  <1>2. PICK n \in Answers(TableCells) :
          /\ Store(at, cells, n)
          /\ damaged' = IF n < TableCells /\ damaged = 0 THEN 1 ELSE damaged
          /\ phase' = IF n < 0 THEN "built" ELSE "open"
    BY DEF WriteTable
  <1>3. /\ ImageTypes /\ Unwritten /\ Stage1Stays /\ TableRight /\ damaged = 0
        /\ phase \in Filed /\ boot' = boot
    BY <1>1 DEF IInv, Unwritten, Filed
  <1>4. /\ at \in Nat /\ TableCells \in Nat /\ FirstFree * Block \in Nat
        /\ at + TableCells = FirstFree * Block
    BY Behind
  <1>5. N \in Nat /\ N <= TableCells /\ Len(table) = N /\ i = N + 1
    BY <1>1, <1>3, Files DEF TableRight
  <1>6. /\ cells \in Seq(CellType) /\ Len(cells) = TableCells
        /\ \A c \in 1..TableCells : cells[c] = IF c <= Len(table) THEN table[c] ELSE Zero
    <2>1. ASSUME NEW c \in 1..TableCells
          PROVE (IF c <= Len(table) THEN table[c] ELSE Zero) \in CellType
      <3>1. CASE c <= N
        <4>1. c \in 1..N
          BY <1>5, <3>1
        <4>2. table[c] \in EntryType
          BY <1>3, <4>1, Entries
        <4> QED
          BY <1>5, <3>1, <4>2 DEF CellType
      <3>2. CASE ~(c <= N)
        BY <1>5, <3>2 DEF CellType
      <3> QED
        BY <3>1, <3>2
    <2>2. cells \in [1..TableCells -> CellType]
      BY <2>1
    <2>3. \A c \in 1..TableCells : cells[c] = IF c <= Len(table) THEN table[c] ELSE Zero
      OBVIOUS
    <2> HIDE DEF cells
    <2>4. cells \in Seq(CellType) /\ Len(cells) = TableCells
      BY <1>4, <2>2, FunctionIsSeq
    <2> QED
      BY <2>3, <2>4
  <1> HIDE DEF cells, at
  <1>7. n \in Int /\ n <= TableCells /\ -1 <= n
    BY <1>4, AnswersBound
  <1>8. /\ image' \in Seq(CellType) /\ offset' \in Nat /\ faults' \in Nat /\ Kept(at)
        /\ at <= offset' /\ faults <= faults' /\ (n < TableCells => faults' # 0)
        /\ (n = TableCells =>
              /\ offset' = at + TableCells
              /\ \A c \in 1..TableCells : at + c <= Len(image') /\ image'[at + c] = cells[c])
    BY <1>2, <1>3, <1>4, <1>6, Stores
  <1>9. /\ phase' \in OnImage /\ phase' \in Filed /\ phase' # "info" /\ phase' # "copy"
        /\ phase' # "stage1" /\ (phase' = "open" \/ phase' = "built") /\ damaged' \in {0, 1}
        /\ (damaged' = 0 => n = TableCells)
    BY <1>2, <1>3, <1>4, <1>7 DEF OnImage, Filed
  <1>10. ImageTypes'
    <2>1. damaged' \in Nat /\ i' \in Nat
      BY <1>1, <1>9
    <2> QED
      BY <1>1, <1>3, <1>8, <1>9, <2>1 DEF ImageTypes
  <1>11. Unwritten' /\ Stage1Copied'
    BY <1>9 DEF Unwritten, Stage1Copied, Filed
  <1>12. Stage1Stays'
    BY <1>3, <1>8, Stage1Safe DEF at
  <1>13. FirstMissing' = FirstMissing
    BY <1>1, SameFiles
  <1>14. TableRight' /\ EntryInTurn'
         /\ \A f \in 1..N : f < FirstMissing => RightEntry(f)
    <2>1. ASSUME NEW f \in 1..N
          PROVE /\ Filled(f) <=> f < FirstMissing
                /\ Filled(f)' <=> Filled(f)
                /\ RightEntry(f)' <=> RightEntry(f)
      BY <1>1, <1>5, <1>9, <1>13 DEF Filled, RightEntry, FreeFrom
    <2> QED
      BY <1>1, <1>3, <1>9, <2>1 DEF TableRight, EntryInTurn, convert_filename
  <1>15. FilesWritten'
    <2>1. offset' >= TableStart * Block
      BY <1>4, <1>8 DEF at
    <2>2. damaged' # 1 => TableOnImage' /\ offset' >= FirstFree * Block
      <3> SUFFICES ASSUME damaged' # 1 PROVE TableOnImage' /\ offset' >= FirstFree * Block
        OBVIOUS
      <3>1. n = TableCells
        BY <1>9
      <3>2. \A c \in 1..TableCells : at + c <= Len(image') /\ image'[at + c] = cells[c]
        BY <1>8, <3>1
      <3> QED
        BY <1>1, <1>4, <1>6, <1>8, <3>1, <3>2 DEF TableOnImage, TableCells, at
    <2>3. \A f \in 1..N : ~(Whole(f)' /\ Passed(f)')
      <3> SUFFICES ASSUME NEW f \in 1..N, Whole(f)', Passed(f)' PROVE FALSE
        OBVIOUS
      <3>1. damaged' = 0
        BY <1>9 DEF Whole
      <3>2. ~(n < 0) /\ phase' # "built"
        BY <1>2, <1>4, <1>7, <1>9, <3>1
      <3> QED
        BY <1>1, <3>2 DEF Passed
    <2> QED
      BY <1>1, <2>1, <2>2, <2>3 DEF FilesWritten
  <1>16. FileInTurn'
    <2>1. i' \in 1..N+1 /\ damaged' <= i'
      BY <1>1, <1>5, <1>9
    <2>2. ASSUME 1 <= N, Whole(1)' PROVE offset' = table'[1].start * Block
      <3>1. damaged' = 0 /\ 1 < FirstMissing /\ 1 \in 1..N
        BY <1>5, <1>9, <1>13, <2>2 DEF Whole
      <3>2. table[1].start = FirstFree
        BY <1>14, <3>1 DEF RightEntry, FreeFrom
      <3>3. offset' = FirstFree * Block
        BY <1>4, <1>8, <1>9, <3>1
      <3> QED
        BY <1>1, <3>2, <3>3
    <2>3. i' = 1 /\ (Whole(i)' <=> Whole(1)')
      BY <1>1 DEF Whole
    <2> QED
      BY <1>1, <1>9, <2>1, <2>2, <2>3 DEF FileInTurn
  <1> QED
    BY <1>10, <1>11, <1>12, <1>14, <1>15, <1>16 DEF IInv

(* prsfs takes the next file, or has none left. *)
LEMMA OpenFileStep ==
  ASSUME IInv, OpenFile
  PROVE IInv'
  <1> DEFINE N == Len(files)
  <1>1. /\ phase = "open" /\ i <= Len(table)
        /\ UNCHANGED <<files, boot, image, offset, table, k, start, faults, damaged>>
        /\ IF files[i].missing
             THEN i' = i + 1 /\ phase' = phase /\ pos' = pos /\ nsect' = nsect /\ total' = total
             ELSE phase' = "copy" /\ pos' = 0 /\ nsect' = 0 /\ total' = 0 /\ i' = i
    BY DEF OpenFile
  <1>2. /\ ImageTypes /\ Stage1Stays /\ TableRight /\ FilesWritten /\ FileInTurn
        /\ phase \in Filed /\ phase \in OnImage
    BY <1>1 DEF IInv, Filed, OnImage
  <1>3. /\ N \in Nat /\ Len(table) = N /\ i \in 1..N /\ damaged <= i /\ damaged \in Nat
        /\ offset \in Nat /\ (Whole(i) => offset = table[i].start * Block)
    BY <1>1, <1>2, Files DEF TableRight, FileInTurn, ImageTypes
  <1>4. (phase' = "open" \/ phase' = "copy") /\ phase' \in OnImage /\ phase' \in Filed
    BY <1>1 DEF OnImage, Filed
  <1>5. FirstMissing \in 1..N+1 /\ \A g \in 1..FirstMissing-1 : ~files[g].missing
    BY <1>2, FirstMissingOne
  <1>6. /\ TableRight' /\ EntryInTurn' /\ FirstMissing' = FirstMissing
        /\ \A f \in 1..N : f < FirstMissing => RightEntry(f)
    BY <1>1, <1>2, <1>4, TableKept, SameFiles
  <1>7. Stage1Stays' /\ Unwritten' /\ Stage1Copied'
    BY <1>1, <1>2, <1>4 DEF Unwritten, Stage1Copied, Stage1Stays, Stage1Whole, Stage1Fits, BootSectors
  <1>8. \A f \in 1..N : (Holds(f)' <=> Holds(f)) /\ (Whole(f)' <=> Whole(f))
    BY <1>1, <1>6 DEF Holds, Whole
  <1>9. TableOnImage' <=> TableOnImage
    BY <1>1 DEF TableOnImage
  <1>10. CASE files[i].missing
    <2>1. i' = i + 1 /\ phase' = "open" /\ pos' = pos /\ nsect' = nsect /\ total' = total
      BY <1>1, <1>10
    <2>2. ~(i < FirstMissing)
      BY <1>3, <1>5, <1>10
    <2>3. ImageTypes'
      BY <1>1, <1>2, <2>1 DEF ImageTypes, Filed
    <2>4. FilesWritten'
      <3>1. \A f \in 1..N : Whole(f) /\ Passed(f)' => Passed(f)
        BY <1>1, <1>3, <1>5, <2>1, <2>2 DEF Whole, Passed
      <3> QED
        BY <1>1, <1>2, <1>8, <1>9, <3>1 DEF FilesWritten
    <2>5. FileInTurn'
      <3>1. i' \in 1..N+1 /\ damaged' <= i'
        BY <1>1, <1>3, <2>1
      <3>2. ~Whole(i)'
        BY <1>3, <1>5, <1>6, <2>1, <2>2 DEF Whole
      <3> QED
        BY <1>1, <2>1, <3>1, <3>2 DEF FileInTurn
    <2> QED
      BY <1>6, <1>7, <2>3, <2>4, <2>5 DEF IInv
  <1>11. CASE ~files[i].missing
    <2>1. i' = i /\ phase' = "copy" /\ pos' = 0 /\ nsect' = 0 /\ total' = 0
      BY <1>1, <1>11
    <2>2. ImageTypes'
      BY <1>1, <1>2, <2>1 DEF ImageTypes, Filed
    <2>3. FilesWritten'
      <3>1. \A f \in 1..N : Passed(f)' => Passed(f)
        BY <1>1, <2>1 DEF Passed
      <3> QED
        BY <1>1, <1>2, <1>8, <1>9, <3>1 DEF FilesWritten
    <2>4. FileInTurn'
      <3>1. Block * 0 = 0 /\ 0 * Block = 0
        BY Constants
      <3>2. files[i].size \in Nat /\ table[i].start * Block \in Nat /\ table[i].count \in Nat
        BY <1>2, <1>3, Files, Entries
      <3>3. Whole(i)' <=> Whole(i)
        BY <1>1, <1>6, <2>1 DEF Whole
      <3>4. ASSUME Whole(i)
            PROVE /\ offset = table[i].start * Block + 0
                  /\ 0 = IF 0 < table[i].count THEN 0 * Block ELSE files[i].size
        <4>1. RightEntry(i)
          BY <1>3, <1>6, <3>4 DEF Whole
        <4>2. files[i].size > 0 => table[i].count > 0
          BY <3>2, <4>1, Sectored DEF RightEntry
        <4> QED
          BY <1>3, <3>1, <3>2, <3>4, <4>2
      <3>5. i \in 1..N+1
        BY <1>3
      <3>6. \A n \in 0..0-1 : FALSE
        OBVIOUS
      <3> QED
        BY <1>1, <1>3, <2>1, <3>1, <3>2, <3>3, <3>4, <3>5, <3>6 DEF FileInTurn
    <2> QED
      BY <1>6, <1>7, <2>2, <2>3, <2>4 DEF IInv
  <1> QED
    BY <1>10, <1>11

(* How far a file is copied after one more of its sectors. *)
LEMMA CopyProgress ==
  ASSUME NEW size \in Nat, NEW n \in Nat, n < SectorsOf(size), NEW p, p = n * Block
  PROVE p \in Nat /\ p < size
        /\ p + (IF size - p < Block THEN size - p ELSE Block)
             = IF n + 1 < SectorsOf(size) THEN (n + 1) * Block ELSE size
  <1> DEFINE C == SectorsOf(size)
  <1>1. Block \in Nat /\ Block > 0
    BY Constants
  <1>2. C \in Nat /\ size <= C * Block /\ \A m \in Nat : m < C => m * Block < size
    BY Sectored
  <1> HIDE DEF C
  <1>3. n < C
    BY DEF C
  <1>4. p \in Nat /\ p < size /\ (n + 1) * Block = p + Block
    BY <1>1, <1>2, <1>3
  <1>5. CASE n + 1 < C
    <2>1. p + Block < size
      BY <1>2, <1>4, <1>5
    <2> QED
      BY <1>1, <1>4, <1>5, <2>1 DEF C
  <1>6. CASE ~(n + 1 < C)
    <2>1. C = n + 1
      BY <1>2, <1>3, <1>6
    <2>2. size <= p + Block
      BY <1>2, <1>4, <2>1
    <2> QED
      BY <1>1, <1>4, <1>6, <2>2 DEF C
  <1> QED
    BY <1>4, <1>5, <1>6 DEF C

(* prsfs writes up to a sector of the file in turn. *)
LEMMA CopyChunkStep ==
  ASSUME IInv, CopyChunk
  PROVE IInv'
  <1> DEFINE N == Len(files)
             size == files[i].size
             cells == Chunk(files[i].name, files[i].size, pos)
             len == Len(cells)
             first == table[i].start * Block
             count == table[i].count
  <1>1. /\ phase = "copy" /\ phase' = phase /\ nsect < count /\ pos < size
        /\ UNCHANGED <<files, boot, table, k, start, i>>
    BY DEF CopyChunk, More
  <1>2. PICK n \in Answers(len) :
          /\ Store(offset, cells, n)
          /\ pos' = pos + len
          /\ nsect' = IF n > 0 THEN nsect + 1 ELSE nsect
          /\ total' = IF n > 0 THEN total + n ELSE total
          /\ damaged' = IF n < len /\ damaged = 0 THEN i ELSE damaged
    BY DEF CopyChunk
  <1>3. /\ ImageTypes /\ Stage1Stays /\ TableRight /\ FilesWritten /\ FileInTurn
        /\ phase \in Filed /\ phase \in OnImage
    BY <1>1 DEF IInv, Filed, OnImage
  <1>4. /\ N \in Nat /\ i \in 1..N /\ damaged <= i /\ damaged \in Nat /\ offset \in Nat
        /\ pos \in Nat /\ nsect \in Nat /\ total \in Nat /\ faults \in Nat
        /\ pos <= size /\ total <= Block * nsect
    BY <1>1, <1>3, Files DEF FileInTurn, ImageTypes
  <1>5. size \in Nat /\ first \in Nat /\ count \in Nat /\ table[i] \in EntryType
    BY <1>3, <1>4, Files, Entries
  <1>6. /\ TableRight' /\ EntryInTurn' /\ FirstMissing' = FirstMissing
        /\ \A f \in 1..N : f < FirstMissing => RightEntry(f)
        /\ \A f \in 1..N : ~(f < FirstMissing) => table[f].count = 0
    BY <1>1, <1>3, TableKept, SameFiles
  <1>7. i < FirstMissing /\ RightEntry(i) /\ count = SectorsOf(size)
    BY <1>1, <1>4, <1>5, <1>6 DEF RightEntry
  <1>8. Block \in Nat /\ Block > 0
    BY Constants
  <1>9. /\ cells \in Seq(CellType) /\ len = IF size - pos < Block THEN size - pos ELSE Block
        /\ pos + len \in pos..size
        /\ \A c \in 1..len : cells[c] = Cell(files[i].name, pos + c - 1)
    <2>1. pos \in 0..size /\ files[i].name \in NameType
      BY <1>3, <1>4, <1>5, Files
    <2> QED
      BY <1>5, <2>1, Chunks
  <1> HIDE DEF cells, count, first, size
  <1>10. len \in Nat /\ len > 0 /\ len <= Block
    BY <1>1, <1>4, <1>5, <1>8, <1>9
  <1>11. n \in Int /\ n <= len /\ -1 <= n
    BY <1>10, AnswersBound
  <1>12. /\ image' \in Seq(CellType) /\ offset' \in Nat /\ faults' \in Nat /\ Kept(offset)
         /\ offset <= offset' /\ faults <= faults'
         /\ (n = len =>
              /\ offset' = offset + len
              /\ \A c \in 1..len : offset + c <= Len(image') /\ image'[offset + c] = cells[c])
    BY <1>2, <1>3, <1>4, <1>9, Stores
  <1>13. /\ pos' \in Nat /\ pos' <= size /\ nsect' \in Nat /\ total' \in Nat
         /\ damaged' \in Nat /\ damaged' <= i
    <2>1. pos' \in Nat /\ pos' <= size
      BY <1>2, <1>4, <1>5, <1>9
    <2>2. nsect' \in Nat /\ total' \in Nat
      BY <1>2, <1>4, <1>11
    <2>3. damaged' \in Nat /\ damaged' <= i
      BY <1>2, <1>4
    <2> QED
      BY <2>1, <2>2, <2>3
  <1>14. ImageTypes'
    BY <1>1, <1>3, <1>12, <1>13 DEF ImageTypes
  <1>15. Unwritten' /\ Stage1Copied'
    BY <1>1 DEF Unwritten, Stage1Copied
  <1>16. offset >= TableStart * Block /\ TableStart * Block \in Nat
    BY <1>3, Behind DEF FilesWritten
  <1>17. Stage1Stays'
    <2>1. Kept(TableStart * Block)
      BY <1>4, <1>12, <1>16 DEF Kept
    <2> QED
      BY <1>1, <1>3, <1>12, <2>1, Stage1Safe
  <1>18. FilesWritten'
    <2>1. offset' >= TableStart * Block
      BY <1>4, <1>12, <1>16
    <2>2. damaged' # 1 => TableOnImage' /\ offset' >= FirstFree * Block
      <3> SUFFICES ASSUME damaged' # 1 PROVE TableOnImage' /\ offset' >= FirstFree * Block
        OBVIOUS
      <3>1. damaged # 1
        BY <1>2
      <3>2. TableOnImage /\ offset >= FirstFree * Block /\ FirstFree * Block \in Nat
        BY <1>3, <3>1, Behind DEF FilesWritten
      <3> QED
        BY <1>1, <1>3, <1>4, <1>12, <3>2, TableStays
    <2>3. ASSUME NEW f \in 1..N, Whole(f)', Passed(f)'
          PROVE Holds(f)' /\ table'[f].start * Block + files'[f].size <= offset'
      <3>1. Whole(f)
        BY <1>2, <1>4, <1>6, <2>3 DEF Whole
      <3>2. f < i /\ Passed(f)
        BY <1>1, <2>3 DEF Passed
      <3>3. Holds(f) /\ table[f].start * Block + files[f].size <= offset
        BY <1>3, <3>1, <3>2 DEF FilesWritten
      <3>4. Holds(f)'
        BY <1>1, <1>3, <1>4, <1>12, <3>3, HoldsStays
      <3>5. table[f].start * Block \in Nat /\ files[f].size \in Nat
        BY <1>3, Files, Entries
      <3> DEFINE a == table[f].start * Block
                 s == files[f].size
      <3>6. table'[f].start * Block = a /\ files'[f].size = s
        BY <1>1
      <3>7. a \in Nat /\ s \in Nat /\ a + s <= offset
        BY <3>3, <3>5
      <3> HIDE DEF a, s
      <3>8. a + s <= offset'
        BY <1>4, <1>12, <3>7
      <3> QED
        BY <3>4, <3>6, <3>8
    <2> QED
      BY <1>1, <2>1, <2>2, <2>3 DEF FilesWritten
  <1>19. total' <= Block * nsect'
    <2>1. CASE n > 0
      <3>1. nsect' = nsect + 1 /\ total' = total + n
        BY <1>2, <2>1
      <3>2. Block * (nsect + 1) = Block * nsect + Block /\ Block * nsect \in Int
        BY <1>4, <1>8
      <3> QED
        BY <1>4, <1>8, <1>10, <1>11, <3>1, <3>2
    <2>2. CASE ~(n > 0)
      BY <1>2, <1>4, <2>2
    <2> QED
      BY <2>1, <2>2
  <1>20. ASSUME Whole(i)'
         PROVE /\ offset' = first + pos' /\ total' = pos'
               /\ pos' = IF nsect' < count THEN nsect' * Block ELSE size
               /\ nsect' <= count
               /\ \A m \in 0..pos'-1 : first + m < Len(image')
                                       /\ image'[first + m + 1] = Cell(files[i].name, m)
    <2>1. damaged' = 0
      BY <1>1, <1>4, <1>13, <1>20 DEF Whole
    <2>2. damaged = 0 /\ n = len
      BY <1>2, <1>4, <1>10, <1>11, <2>1
    <2>3. Whole(i)
      BY <1>7, <2>2 DEF Whole
    <2>4. /\ offset = first + pos /\ total = pos /\ pos = nsect * Block
          /\ \A m \in 0..pos-1 : first + m < Len(image) /\ image[first + m + 1] = Cell(files[i].name, m)
      BY <1>1, <1>3, <2>3 DEF FileInTurn, first, count
    <2>11. offset = first + pos
      BY <2>4
    <2>5. nsect' = nsect + 1 /\ total' = total + len /\ pos' = pos + len /\ offset' = offset + len
      BY <1>2, <1>10, <1>12, <2>2
    <2>6. pos + (IF size - pos < Block THEN size - pos ELSE Block)
             = IF nsect + 1 < SectorsOf(size) THEN (nsect + 1) * Block ELSE size
      <3>1. nsect < SectorsOf(size)
        BY <1>1, <1>7
      <3>2. size \in Nat /\ nsect \in Nat /\ pos = nsect * Block
        BY <1>4, <1>5, <2>4
      <3> QED
        BY ONLY <3>1, <3>2, CopyProgress
    <2>7. pos' = IF nsect' < count THEN nsect' * Block ELSE size
      BY <1>7, <1>9, <2>5, <2>6
    <2>8. nsect' <= count
      BY <1>1, <1>4, <1>5, <2>5
    <2>9. offset' = first + pos' /\ total' = pos'
      BY <1>4, <1>5, <1>10, <2>4, <2>5
    <2>10. ASSUME NEW m \in 0..pos'-1
           PROVE first + m < Len(image') /\ image'[first + m + 1] = Cell(files[i].name, m)
      <3>1. Len(image') \in Nat /\ Len(image) \in Nat
        BY <1>3, <1>12, LenProperties DEF ImageTypes
      <3>2. CASE m < pos
        <4>1. m \in 0..pos-1 /\ first + m + 1 \in 1..offset
          BY <1>4, <1>5, <1>13, <2>11, <3>2
        <4>2. first + m < Len(image) /\ image[first + m + 1] = Cell(files[i].name, m)
          BY <2>4, <4>1
        <4>3. first + m + 1 <= Len(image)
          BY <1>5, <3>1, <4>2
        <4>4. first + m + 1 <= Len(image') /\ image'[first + m + 1] = image[first + m + 1]
          BY <1>12, <4>1, <4>3 DEF Kept
        <4> QED
          BY <1>5, <3>1, <4>2, <4>4
      <3>3. CASE ~(m < pos)
        <4> DEFINE c == m - pos + 1
        <4>1. c \in 1..len /\ offset + c = first + m + 1 /\ pos + c - 1 = m
          BY <1>4, <1>5, <1>10, <2>5, <1>13, <2>11, <3>3
        <4>2. offset + c <= Len(image') /\ image'[offset + c] = cells[c]
          BY <1>12, <2>2, <4>1
        <4>3. cells[c] = Cell(files[i].name, pos + c - 1)
          BY <1>9, <4>1
        <4> HIDE DEF c
        <4> QED
          BY <1>5, <3>1, <4>1, <4>2, <4>3
      <3> QED
        BY <3>2, <3>3
    <2> QED
      BY <2>7, <2>8, <2>9, <2>10
  <1>21. FileInTurn'
    <2>1. i' \in 1..N+1 /\ i' <= N /\ damaged' <= i' /\ phase' # "open"
      BY <1>1, <1>4, <1>13
    <2> QED
      BY <1>1, <1>13, <1>19, <1>20, <2>1 DEF FileInTurn, first, count, size
  <1> QED
    BY <1>6, <1>14, <1>15, <1>17, <1>18, <1>21 DEF IInv

(* prsfs pads the file to a whole sector and goes on. *)
LEMMA CloseFileStep ==
  ASSUME IInv, CloseFile
  PROVE IInv'
  <1> DEFINE N == Len(files)
             size == files[i].size
             first == table[i].start * Block
             count == table[i].count
  <1>1. /\ phase = "copy" /\ phase' = "open" /\ i' = i + 1 /\ offset' = offset + Padding
        /\ ~(nsect < count /\ pos < size)
        /\ UNCHANGED <<files, boot, image, table, k, start, pos, nsect, total, faults, damaged>>
    BY DEF CloseFile, More
  <1>2. /\ ImageTypes /\ Stage1Stays /\ TableRight /\ FilesWritten /\ FileInTurn
        /\ phase \in Filed /\ phase \in OnImage /\ phase' \in OnImage
    BY <1>1 DEF IInv, Filed, OnImage
  <1>3. /\ N \in Nat /\ i \in 1..N /\ damaged <= i /\ damaged \in Nat /\ offset \in Nat
        /\ pos \in Nat /\ nsect \in Nat /\ total \in Nat /\ total <= Block * nsect
    BY <1>1, <1>2, Files DEF FileInTurn, ImageTypes
  <1>4. size \in Nat /\ first \in Nat /\ count \in Nat
    BY <1>2, <1>3, Files, Entries
  <1>5. /\ TableRight' /\ EntryInTurn' /\ FirstMissing' = FirstMissing
        /\ \A f \in 1..N : f < FirstMissing => RightEntry(f)
    BY <1>1, <1>2, TableKept, SameFiles
  <1> HIDE DEF size, first, count
  <1>6. Padding \in Nat
    <2>1. Block * nsect \in Int
      BY <1>3, Constants
    <2> DEFINE b == Block * nsect
    <2>2. b \in Int /\ total <= b
      BY <1>3, <2>1
    <2> HIDE DEF b
    <2>3. b - total \in Nat
      BY <1>3, <2>2
    <2> QED
      BY <2>3 DEF Padding, b
  <1>7. offset' \in Nat /\ offset <= offset' /\ i' \in 1..N+1
    BY <1>1, <1>3, <1>6
  <1>8. ImageTypes'
    BY <1>1, <1>2, <1>7 DEF ImageTypes, Filed
  <1>9. Stage1Stays' /\ Unwritten' /\ Stage1Copied'
    BY <1>1, <1>2 DEF Unwritten, Stage1Copied, Stage1Stays, Stage1Whole, Stage1Fits, BootSectors
  <1>10. \A f \in 1..N : /\ Holds(f)' <=> Holds(f)
                         /\ Whole(f)' <=> Whole(f)
                         /\ Passed(f)' => Passed(f) \/ f = i
    BY <1>1, <1>3, <1>5 DEF Holds, Whole, Passed
  <1>11. ASSUME Whole(i)
         PROVE /\ nsect = count /\ pos = size /\ offset = first + size /\ total = size
               /\ count = SectorsOf(size) /\ Holds(i)
    <2>1. /\ offset = first + pos /\ total = pos /\ nsect <= count
          /\ pos = IF nsect < count THEN nsect * Block ELSE size
          /\ \A n \in 0..pos-1 : first + n < Len(image) /\ image[first + n + 1] = Cell(files[i].name, n)
      BY <1>1, <1>2, <1>11 DEF FileInTurn, first, count, size
    <2>2. RightEntry(i)
      BY <1>3, <1>5, <1>11 DEF Whole
    <2>3. count = SectorsOf(size) /\ table[i].start >= FirstFree
      BY <2>2 DEF RightEntry, count, size
    <2>4. nsect < count => nsect * Block < size
      BY <1>3, <1>4, <2>3, Sectored
    <2>5. ~(nsect < count)
      BY <1>1, <2>1, <2>4
    <2>6. nsect = count /\ pos = size
      BY <1>3, <1>4, <2>1, <2>5
    <2>7. Holds(i)
      BY <2>1, <2>3, <2>6 DEF Holds, FirstFree, first, count, size
    <2> QED
      BY <2>1, <2>3, <2>6, <2>7
  <1>12. FilesWritten'
    <2>1. offset' >= TableStart * Block
      BY <1>2, <1>3, <1>7, Behind DEF FilesWritten
    <2>2. damaged' # 1 => TableOnImage' /\ offset' >= FirstFree * Block
      BY <1>1, <1>2, <1>3, <1>7, Behind DEF FilesWritten, TableOnImage
    <2>3. ASSUME NEW f \in 1..N, Whole(f)', Passed(f)'
          PROVE Holds(f)' /\ table'[f].start * Block + files'[f].size <= offset'
      <3> DEFINE a == table[f].start * Block
                 s == files[f].size
      <3>1. a \in Nat /\ s \in Nat
        BY <1>2, Files, Entries
      <3>2. Whole(f) /\ (Passed(f) \/ f = i)
        BY <1>10, <2>3
      <3>4. Holds(f) /\ a + s <= offset
        <4>1. CASE Passed(f)
          BY <1>2, <3>2, <4>1 DEF FilesWritten
        <4>2. CASE f = i
          <5>1. Holds(i) /\ offset = first + size
            BY <1>11, <3>2, <4>2
          <5>2. a = first /\ s = size
            BY <4>2 DEF first, size
          <5> QED
            BY <1>3, <1>4, <4>2, <5>1, <5>2
        <4> QED
          BY <3>2, <4>1, <4>2
      <3>5. table'[f].start * Block = a /\ files'[f].size = s
        BY <1>1
      <3> HIDE DEF a, s
      <3>6. a + s <= offset'
        BY <1>3, <1>7, <3>1, <3>4
      <3> QED
        BY <1>10, <3>4, <3>5, <3>6
    <2> QED
      BY <1>1, <2>1, <2>2, <2>3 DEF FilesWritten
  <1>13. FileInTurn'
    <2>1. damaged' <= i'
      BY <1>1, <1>3
    <2> PICK j \in 1..N+1 : j = i + 1
      BY <1>3
    <2>2. ASSUME j <= N, Whole(j)' PROVE offset' = table[j].start * Block
      <3>1. j \in 1..N /\ Whole(j)
        BY <1>10, <2>2
      <3>2. Whole(i)
        <4>1. FirstMissing \in Nat
          BY <1>2, <1>3, FirstMissingOne
        <4> QED
          BY <1>3, <3>1, <4>1 DEF Whole
      <3>3. /\ nsect = count /\ offset = first + size /\ total = size
        BY <1>11, <3>2
      <3>4. RightEntry(j)
        BY <1>5, <3>1 DEF Whole
      <3>5. j # 1 /\ j - 1 = i
        BY <1>3
      <3>6. table[j].start = table[i].start + count
        BY <3>4, <3>5 DEF RightEntry, FreeFrom, count
      <3>7. table[i].start \in Int /\ count \in Int
        BY <1>2, <1>3, <1>4, Entries
      <3>8. table[j].start * Block = first + count * Block /\ Block * count = count * Block
            /\ count * Block \in Int
        <4> DEFINE st == table[i].start
        <4>1. st \in Int /\ st * Block = first
          BY <3>7 DEF first
        <4>2. table[j].start = st + count
          BY <3>6
        <4> HIDE DEF st
        <4>3. /\ (st + count) * Block = st * Block + count * Block
              /\ count * Block \in Int /\ Block * count = count * Block
          BY <3>7, <4>1, Cells
        <4> QED
          BY <4>1, <4>2, <4>3
      <3> DEFINE b == count * Block
      <3>9. table[j].start * Block = first + b /\ b \in Int /\ Padding = b - size
        BY <3>3, <3>8 DEF Padding
      <3> HIDE DEF b
      <3>10. offset' = first + b
        BY <1>1, <1>4, <3>3, <3>9
      <3> QED
        BY <3>9, <3>10
    <2>3. Whole(i)' <=> Whole(j)'
      BY <1>1 DEF Whole
    <2> QED
      BY <1>1, <1>7, <2>1, <2>2, <2>3 DEF FileInTurn
  <1> QED
    BY <1>5, <1>8, <1>9, <1>12, <1>13 DEF IInv

(* The floppy is built. *)
LEMMA WriteEndsStep ==
  ASSUME IInv, WriteEnds
  PROVE IInv'
  <1>1. /\ phase = "open" /\ i > Len(table) /\ phase' = "built"
        /\ UNCHANGED <<files, boot, image, offset, table, k, start, i, pos, nsect, total, faults, damaged>>
    BY DEF WriteEnds
  <1>2. /\ ImageTypes /\ Stage1Stays /\ TableRight /\ FilesWritten
        /\ phase \in Filed /\ phase \in OnImage /\ phase' \in OnImage
    BY <1>1 DEF IInv, Filed, OnImage
  <1>3. Len(files) \in Nat /\ Len(table) = Len(files) /\ i \in Nat
    BY <1>2, Files DEF TableRight, ImageTypes
  <1>4. TableRight' /\ EntryInTurn' /\ FirstMissing' = FirstMissing
    BY <1>1, <1>2, TableKept, SameFiles
  <1>5. ImageTypes'
    BY <1>1, <1>2 DEF ImageTypes, Filed
  <1>6. Stage1Stays' /\ Unwritten' /\ Stage1Copied' /\ FileInTurn'
    BY <1>1, <1>2 DEF Unwritten, Stage1Copied, Stage1Stays, Stage1Whole, Stage1Fits, BootSectors,
                      FileInTurn
  <1>7. \A f \in 1..Len(files) : /\ Holds(f)' <=> Holds(f)
                                 /\ Whole(f)' <=> Whole(f)
                                 /\ Passed(f)
    BY <1>1, <1>3, <1>4 DEF Holds, Whole, Passed
  <1>8. FilesWritten'
    BY <1>1, <1>2, <1>7 DEF FilesWritten, TableOnImage
  <1> QED
    BY <1>4, <1>5, <1>6, <1>8 DEF IInv

(* Every step of the build keeps the invariant. *)
LEMMA ImageStep ==
  ASSUME IInv, ImageNext
  PROVE IInv'
  BY CreateStep, CreateEndsStep, OpenStage1Step, WriteSectorsStep, WriteSectorsEndsStep,
     SetInfoEntryStep, WriteTableStep, OpenFileStep, CopyChunkStep, CloseFileStep, WriteEndsStep
     DEF ImageNext

(* So does every step that leaves the build alone. *)
LEMMA ImageStays ==
  ASSUME IInv, UNCHANGED imageVars
  PROVE IInv'
  <1>1. UNCHANGED <<phase, files, boot, image, offset, table, k, start, i, pos, nsect, total,
                    faults, damaged>>
    BY DEF imageVars
  <1>2. FirstMissing' = FirstMissing
    BY <1>1, SameFiles
  <1>3. ImageTypes' /\ Unwritten'
    BY <1>1 DEF IInv, ImageTypes, Unwritten
  <1>4. Stage1Copied' /\ Stage1Stays'
    BY <1>1 DEF IInv, Stage1Copied, Stage1Stays, Stage1Whole, Stage1Fits, BootSectors
  <1>5. \A f : /\ RightEntry(f)' <=> RightEntry(f)
               /\ Filled(f)' <=> Filled(f)
               /\ Holds(f)' <=> Holds(f)
               /\ Whole(f)' <=> Whole(f)
               /\ Passed(f)' <=> Passed(f)
    BY <1>1, <1>2 DEF RightEntry, FreeFrom, Filled, Holds, Whole, Passed
  <1>6. TableRight' /\ EntryInTurn'
    BY <1>1, <1>2, <1>5 DEF IInv, TableRight, EntryInTurn, FreeFrom
  <1>7. FilesWritten'
    BY <1>1, <1>5 DEF IInv, FilesWritten, TableOnImage
  <1>8. FileInTurn'
    BY <1>1, <1>2 DEF IInv, FileInTurn, Whole
  <1> QED
    BY <1>3, <1>4, <1>6, <1>7, <1>8 DEF IInv

------------------------------------------------------------------------------
(* Starting it. *)

(* A stretch of the image's sectors. *)
LEMMA Stretch ==
  ASSUME ImageTypes, NEW a \in Nat, NEW b \in Nat, a <= b, b * Block <= Len(image)
  PROVE InMemory(SubSeq(image, a * Block + 1, b * Block), a, b)
  <1> DEFINE l == a * Block
             r == b * Block
             s == SubSeq(image, l + 1, r)
  <1>1. l \in Nat /\ r \in Nat /\ l <= r
    <2>1. a * Block \in Nat /\ b * Block \in Nat
      BY Constants
    <2>2. a * Block <= b * Block
      BY Cells
    <2> QED
      BY <2>1, <2>2
  <1>2. (b - a) * Block = r - l
    <2>1. b - a \in Int /\ a \in Int /\ (b - a) + a = b
      OBVIOUS
    <2> DEFINE d == b - a
    <2>2. d \in Int /\ d + a = b
      BY <2>1
    <2> HIDE DEF d
    <2>3. (d + a) * Block = d * Block + a * Block /\ d * Block \in Int /\ a * Block \in Int
      BY <2>1, <2>2, Cells
    <2> DEFINE p == d * Block
               q == a * Block
    <2>4. b * Block = p + q /\ p \in Int /\ q \in Int
      BY <2>2, <2>3
    <2> HIDE DEF p, q
    <2>5. p = b * Block - q
      BY <2>4
    <2> QED
      BY <2>5 DEF d, p, q
  <1>3. image \in Seq(CellType) /\ Len(image) \in Nat /\ r <= Len(image)
    BY LenProperties DEF ImageTypes
  <1> HIDE DEF l, r
  <1>4. \A c \in l + 1 .. r : image[c] \in CellType
    <2>1. \A c \in l + 1 .. r : c \in 1..Len(image)
      BY <1>1, <1>3
    <2> QED
      BY <1>3, <2>1, ElementOfSeq
  <1>5. /\ s \in Seq(CellType)
        /\ Len(s) = IF l + 1 <= r THEN r - (l + 1) + 1 ELSE 0
        /\ \A c \in 1..r - (l + 1) + 1 : s[c] = image[(l + 1) + c - 1]
    <2>1. l + 1 \in Int /\ r \in Int
      BY <1>1
    <2> QED
      BY <1>4, <2>1, SubSeqProperties
  <1> HIDE DEF s
  <1>6. Len(s) = r - l
    BY <1>1, <1>5
  <1>7. ASSUME NEW c \in 1..Len(s) PROVE l + c <= Len(image) /\ s[c] = image[l + c]
    <2>1. c \in 1..r - (l + 1) + 1 /\ (l + 1) + c - 1 = l + c /\ l + c <= r
      BY <1>1, <1>6
    <2> QED
      BY <1>1, <1>3, <1>5, <2>1
  <1> QED
    BY <1>2, <1>5, <1>6, <1>7 DEF InMemory, l, r, s

(* One more sector of it. *)
LEMMA OneMore ==
  ASSUME ImageTypes, NEW m, NEW a \in Nat, NEW n \in Nat, a <= n, InMemory(m, a, n), OnDisk(n)
  PROVE InMemory(m \o SectorAt(n), a, n + 1)
  <1> DEFINE s == SectorAt(n)
             w == m \o s
             l == a * Block
             h == n * Block
  <1>1. InMemory(s, n, n + 1)
    BY Stretch DEF OnDisk, SectorAt
  <1>2. Block \in Nat /\ l \in Nat /\ h \in Nat
    BY Constants
  <1>3. /\ Len(s) = Block /\ s \in Seq(CellType)
        /\ \A c \in 1..Len(s) : h + c <= Len(image) /\ s[c] = image[h + c]
    <2>1. (n + 1) - n = 1 /\ 1 * Block = Block
      BY <1>2
    <2> QED
      BY <1>1, <2>1 DEF InMemory
  <1> DEFINE d == n - a
  <1>4. /\ m \in Seq(CellType) /\ Len(m) = d * Block
        /\ \A c \in 1..Len(m) : l + c <= Len(image) /\ m[c] = image[l + c]
    BY DEF InMemory
  <1>5. d \in Nat /\ (n + 1) - a = d + 1 /\ d + a = n
    OBVIOUS
  <1> HIDE DEF d, s
  <1>6. /\ (d + 1) * Block = d * Block + Block
        /\ h = d * Block + l
    <2>1. (d + 1) * Block = d * Block + 1 * Block /\ 1 * Block = Block
      BY <1>2, <1>5, Cells
    <2>2. d \in Int /\ a \in Int
      BY <1>5
    <2>3. (d + a) * Block = d * Block + a * Block
      BY <2>2, Cells
    <2> QED
      BY <1>5, <2>1, <2>3
  <1>7. Len(m) \in Nat
    BY <1>4, LenProperties
  <1> HIDE DEF l, h
  <1>8. /\ w \in Seq(CellType) /\ Len(w) = Len(m) + Len(s)
        /\ \A c \in 1..Len(m) + Len(s) : w[c] = IF c <= Len(m) THEN m[c] ELSE s[c - Len(m)]
    <2>1. m \in Seq(CellType) /\ s \in Seq(CellType)
      BY <1>3, <1>4
    <2> QED
      BY <2>1, ConcatProperties
  <1> HIDE DEF w
  <1>9. ASSUME NEW c \in 1..Len(w) PROVE l + c <= Len(image) /\ w[c] = image[l + c]
    <2>1. CASE c <= Len(m)
      <3>1. c \in 1..Len(m) /\ w[c] = m[c]
        BY <1>3, <1>7, <1>8, <2>1
      <3> QED
        BY <1>4, <3>1
    <2>2. CASE ~(c <= Len(m))
      <3> DEFINE x == c - Len(m)
      <3>0. h = Len(m) + l
        BY <1>4, <1>6
      <3>1. x \in 1..Len(s) /\ w[c] = s[x] /\ h + x = l + c
        BY <1>2, <1>3, <1>7, <1>8, <2>2, <3>0
      <3> HIDE DEF x
      <3> QED
        BY <1>3, <3>1
    <2> QED
      BY <2>1, <2>2
  <1>10. Len(w) = ((n + 1) - a) * Block
    <2>1. Len(w) = d * Block + Block
      BY <1>3, <1>4, <1>8
    <2> QED
      BY <1>5, <1>6, <2>1
  <1> QED
    BY <1>8, <1>9, <1>10 DEF InMemory, w, s, l

(* No sector yet is in memory. *)
LEMMA NothingYet ==
  ASSUME NEW a \in Nat
  PROVE InMemory(<<>>, a, a)
  <1>1. <<>> \in Seq(CellType) /\ Len(<<>>) = 0
    BY EmptySeq
  <1>2. a - a = 0 /\ 0 * Block = 0
    BY Constants
  <1>3. \A c \in 1..0 : FALSE
    OBVIOUS
  <1> QED
    BY <1>1, <1>2, <1>3 DEF InMemory

(* The file of a name is the first one of it. *)
LEMMA FirstOfName ==
  ASSUME ImageTypes, NEW name, FilesNamed(name) # {}
  PROVE /\ FileOf(name) \in FilesNamed(name) /\ FileOf(name) \in 1..Len(files)
        /\ files[FileOf(name)].name = name
        /\ \A g \in FilesNamed(name) : FileOf(name) <= g
  <1> DEFINE T == FilesNamed(name)
  <1>1. T \subseteq 1..Len(files) /\ \A f \in T : files[f].name = name
    BY DEF FilesNamed
  <1>2. T \in SUBSET Nat
    BY <1>1, Files
  <1> HIDE DEF T
  <1>3. \E x \in T : \A y \in T : x <= y
    BY <1>2, Least DEF T
  <1>4. FileOf(name) \in T /\ \A g \in T : FileOf(name) <= g
    BY <1>3 DEF FileOf, T
  <1> QED
    BY <1>1, <1>4 DEF T

(* A clean file is on the image, and its entry says where. *)
LEMMA CleanFile ==
  ASSUME IInv, phase = "built", NEW name, Clean(name)
  PROVE LET f == FileOf(name) IN
          /\ f \in 1..Len(files) /\ files[f].name = name /\ f < FirstMissing /\ damaged # 1
          /\ Holds(f) /\ table[f] \in EntryType /\ table[f].start \in Nat
          /\ table[f].count = SectorsOf(files[f].size) /\ table[f].count \in Nat /\ table[f].count > 0
          /\ files[f].size \in Nat /\ files[f].size > 0 /\ \A z \in lowZero : z > f
  <1> DEFINE f == FileOf(name)
  <1>1. /\ ImageTypes /\ TableRight /\ FilesWritten /\ phase \in Filed /\ phase \in OnImage
    BY DEF IInv, Filed, OnImage
  <1>2. /\ FilesNamed(name) # {} /\ f < FirstMissing /\ (damaged = 0 \/ f < damaged)
        /\ files[f].size > 0 /\ \A z \in lowZero : z > f
    BY DEF Clean
  <1>3. f \in 1..Len(files) /\ files[f].name = name
    BY <1>1, <1>2, FirstOfName
  <1> HIDE DEF f
  <1>4. Holds(f) /\ damaged # 1
    <2>1. Whole(f) /\ Passed(f)
      BY <1>2 DEF Whole, Passed
    <2>2. Holds(f)
      BY <1>1, <1>3, <2>1 DEF FilesWritten
    <2> QED
      BY <1>2, <1>3, <2>2
  <1>5. table[f] \in EntryType /\ table[f].start \in Nat /\ table[f].count \in Nat
    BY <1>1, <1>3, Entries
  <1>6. files[f].size \in Nat
    BY <1>1, <1>3, Files
  <1>7. table[f].count = SectorsOf(files[f].size)
    BY <1>4 DEF Holds
  <1>8. table[f].count > 0
    BY <1>2, <1>6, <1>7, Sectored
  <1> QED
    BY <1>2, <1>3, <1>4, <1>5, <1>6, <1>7, <1>8 DEF f

(* load_file finds a clean file's own entry. *)
LEMMA Finds ==
  ASSUME IInv, phase = "built", InMemory(tableMem, TableStart, FirstFree), lowZero \in LowZeros,
         NEW name \in {"stage2", "kernel"}, Clean(name)
  PROVE Found(name) = {FileOf(name)} /\ tableMem[FileOf(name)] = table[FileOf(name)]
  <1> DEFINE f == FileOf(name)
             N == Len(files)
  <1>1. /\ f \in 1..N /\ damaged # 1 /\ \A z \in lowZero : z > f
    BY CleanFile
  <1>2. /\ ImageTypes /\ TableRight /\ FilesWritten /\ phase \in Filed /\ phase \in OnImage
    BY DEF IInv, Filed, OnImage
  <1>3. TableOnImage /\ Len(table) = N /\ N \in Nat /\ N <= TableCells /\ TableCells \in Nat
    BY <1>1, <1>2, Files DEF FilesWritten, TableRight
  <1>4. /\ Len(tableMem) = TableCells
        /\ \A s \in 1..TableCells : tableMem[s] = IF s <= N THEN table[s] ELSE Zero
    <2>1. (FirstFree - TableStart) * Block = TableCells
      <3>1. FirstFree - TableStart = TableSectors
        BY Constants DEF FirstFree
      <3> QED
        BY <3>1 DEF TableCells
    <2>2. Len(tableMem) = TableCells
      BY <2>1 DEF InMemory
    <2>3. \A s \in 1..TableCells : tableMem[s] = image[TableStart * Block + s]
      BY <2>2 DEF InMemory
    <2> QED
      BY <1>3, <2>2, <2>3 DEF TableOnImage
  <1>5. FilesNamed(name) # {}
    BY DEF Clean
  <1>6. f \in FilesNamed(name) /\ \A g \in FilesNamed(name) : f <= g
    BY <1>2, <1>5, FirstOfName
  <1> HIDE DEF f, N
  <1>7. ASSUME NEW s \in 1..TableCells
        PROVE (tableMem[s].kind = "entry" /\ tableMem[s].filename = [name |-> name, cut |-> FALSE])
              <=> s \in FilesNamed(name)
    <2>1. CASE s <= N
      <3>1. s \in 1..N /\ tableMem[s] = table[s]
        BY <1>3, <1>4, <2>1
      <3>2. table[s].kind = "entry"
        <4>1. table[s] \in EntryType
          BY <1>2, <3>1, Entries DEF N
        <4> QED
          BY <4>1 DEF EntryType
      <3>3. table[s].filename = convert_filename(files[s])
        BY <1>2, <3>1 DEF TableRight, N
      <3>4. convert_filename(files[s]) = [name |-> name, cut |-> FALSE] <=> files[s].name = name
        <4>1. ASSUME files[s].name = name PROVE (files[s].letters = 8) = FALSE
          <5>1. files \in FileLists
            BY <1>2 DEF ImageTypes
          <5>2. files[s].letters = 6
            BY <3>1, <4>1, <5>1, BootAssumption DEF N
          <5> QED
            BY <5>2
        <4>2. ASSUME NEW x, NEW y, [name |-> x, cut |-> y] = [name |-> name, cut |-> FALSE]
              PROVE x = name
          <5>1. [name |-> x, cut |-> y].name = [name |-> name, cut |-> FALSE].name
            BY <4>2
          <5> QED
            BY <5>1
        <4>3. convert_filename(files[s]) = [name |-> files[s].name, cut |-> files[s].letters = 8]
          BY DEF convert_filename
        <4>4. files[s].name = name => convert_filename(files[s]) = [name |-> name, cut |-> FALSE]
          BY <4>1, <4>3
        <4>5. convert_filename(files[s]) = [name |-> name, cut |-> FALSE] => files[s].name = name
          BY <4>2, <4>3
        <4> QED
          BY <4>4, <4>5
      <3>5. files[s].name = name <=> s \in FilesNamed(name)
        BY <3>1 DEF FilesNamed, N
      <3> QED
        BY <3>1, <3>2, <3>3, <3>4, <3>5
    <2>2. CASE ~(s <= N)
      <3>1. tableMem[s] = Zero /\ s \notin FilesNamed(name)
        BY <1>3, <1>4, <2>2 DEF FilesNamed, N
      <3> QED
        BY <3>1 DEF Zero
    <2> QED
      BY <2>1, <2>2
  <1>8. Named(name) = FilesNamed(name)
    <2>1. FilesNamed(name) \subseteq 1..TableCells
      BY <1>3 DEF FilesNamed, N
    <2> QED
      BY <1>4, <1>7, <2>1 DEF Named
  <1>9. Found(name) = {s \in FilesNamed(name) : (\A r \in FilesNamed(name) : s <= r)
                                                 /\ \A z \in lowZero : z > s}
    BY <1>8 DEF Found
  <1>10. f \in Found(name)
    BY <1>1, <1>6, <1>9
  <1>11. ASSUME NEW s \in Found(name) PROVE s = f
    <2>1. s \in FilesNamed(name) /\ \A r \in FilesNamed(name) : s <= r
      BY <1>9
    <2>2. s \in Nat /\ f \in Nat
      BY <1>3, <1>6, <2>1 DEF FilesNamed, N
    <2>3. s <= f /\ f <= s
      BY <1>6, <2>1
    <2> QED
      BY <2>2, <2>3
  <1>12. tableMem[f] = table[f]
    BY <1>1, <1>3, <1>4
  <1> QED
    BY <1>10, <1>11, <1>12 DEF f

(* All of its sectors are the file. *)
LEMMA AllOfIt ==
  ASSUME IInv, phase = "built", NEW name, Clean(name),
         NEW e, e = table[FileOf(name)], NEW m, InMemory(m, e.start, e.start + e.count)
  PROVE /\ Len(m) >= files[FileOf(name)].size
        /\ \A n \in 0..files[FileOf(name)].size - 1 : m[n + 1] = Cell(name, n)
  <1> DEFINE f == FileOf(name)
             size == files[f].size
             first == e.start * Block
  <1>1. /\ f \in 1..Len(files) /\ files[f].name = name /\ Holds(f) /\ e.start \in Nat
        /\ e.count = SectorsOf(size) /\ e.count \in Nat /\ size \in Nat
    BY CleanFile
  <1>2. \A n \in 0..size - 1 : image[first + n + 1] = Cell(name, n)
    BY <1>1 DEF Holds
  <1> HIDE DEF f, size
  <1>3. (e.start + e.count) - e.start = e.count
    BY <1>1
  <1>4. /\ m \in Seq(CellType) /\ Len(m) = e.count * Block
        /\ \A c \in 1..Len(m) : m[c] = image[first + c]
    BY <1>3 DEF InMemory
  <1>5. Len(m) \in Nat /\ first \in Nat
    BY <1>1, <1>4, LenProperties, Constants
  <1>6. size <= Len(m)
    BY <1>1, <1>4, Sectored
  <1> HIDE DEF first
  <1>7. ASSUME NEW n \in 0..size - 1 PROVE m[n + 1] = Cell(name, n)
    <2>1. n + 1 \in 1..Len(m) /\ first + (n + 1) = first + n + 1
      BY <1>1, <1>5, <1>6
    <2> QED
      BY <1>2, <1>4, <2>1
  <1> QED
    BY <1>5, <1>6, <1>7, <1>1 DEF size, f

(* A read of a file starts at its first sector. *)
LEMMA Begins ==
  ASSUME IInv, phase = "built", NEW name, Clean(name), mem = <<>>,
         lba = table[FileOf(name)].start, cx = table[FileOf(name)].count
  PROVE OnTheWay(name) /\ cx > 0
  <1> DEFINE e == table[FileOf(name)]
  <1>1. e.start \in Nat /\ e.count \in Nat /\ e.count > 0
    BY CleanFile
  <1>2. InMemory(<<>>, e.start, e.start)
    BY <1>1, NothingYet
  <1> HIDE DEF e
  <1>3. lba = e.start /\ cx = e.count
    BY DEF e
  <1>4. /\ lba \in Nat /\ cx \in Nat /\ lba + cx = e.start + e.count /\ e.start <= lba /\ cx > 0
    BY <1>1, <1>3
  <1>5. InMemory(mem, e.start, lba)
    BY <1>2, <1>3
  <1> QED
    BY <1>4, <1>5 DEF OnTheWay, e

(* What a step of stage 1 or 2 leaves as it is. *)
LEMMA SameImage ==
  ASSUME UNCHANGED <<imageVars, lowZero>>
  PROVE /\ UNCHANGED <<phase, files, image, table, damaged, lowZero>>
        /\ \A name : /\ Clean(name)' <=> Clean(name)
                     /\ FileOf(name)' = FileOf(name)
        /\ \A m, a, b : InMemory(m, a, b)' <=> InMemory(m, a, b)
  <1>1. UNCHANGED <<phase, files, image, table, damaged, lowZero>>
    BY DEF imageVars
  <1>2. FirstMissing' = FirstMissing
    BY <1>1, SameFiles
  <1>3. \A name : FilesNamed(name)' = FilesNamed(name)
    BY <1>1 DEF FilesNamed
  <1>4. \A name : FileOf(name)' = FileOf(name)
    BY <1>3 DEF FileOf
  <1>5. \A name : Clean(name)' <=> Clean(name)
    BY <1>1, <1>2, <1>3, <1>4 DEF Clean
  <1>6. \A m, a, b : InMemory(m, a, b)' <=> InMemory(m, a, b)
    BY <1>1 DEF InMemory
  <1> QED
    BY <1>1, <1>4, <1>5, <1>6

(* The parts of BInv, for the step that is taken. *)
Ready == {"find_stage2", "read_stage2", "jump", "find_kernel"}
Empty == {"off", "table", "find_stage2", "find_kernel", "read_kernel"}

(* The machine is started with a floppy that is built. *)
LEMMA PowerOnStep ==
  ASSUME IInv, BInv, PowerOn, UNCHANGED imageVars
  PROVE BInv'
  <1>1. /\ step = "off" /\ phase = "built" /\ step' = "table" /\ lba' = TableStart
        /\ cx' = TableSectors /\ lowZero' = lowZero /\ tableMem' = tableMem /\ mem' = mem
    BY DEF PowerOn, LoadTable
  <1>2. phase' = phase /\ image' = image
    BY DEF imageVars
  <1>3. tableMem = <<>> /\ mem = <<>> /\ lowZero \in LowZeros
    BY <1>1 DEF BInv
  <1>4. InMemory(tableMem', TableStart, lba')
    BY <1>1, <1>3, Constants, NothingYet
  <1>5. InMemory(tableMem, TableStart, lba)'
    BY <1>2, <1>4 DEF InMemory
  <1>6. lba' \in TableStart..FirstFree-1 /\ cx' = FirstFree - lba'
    BY <1>1, Constants DEF FirstFree
  <1> QED
    BY <1>1, <1>2, <1>3, <1>5, <1>6 DEF BInv

(* Stage 1 has run its own copy, and reads the table again. *)
LEMMA StartOverStep ==
  ASSUME IInv, BInv, StartOver, UNCHANGED imageVars
  PROVE BInv'
  <1>1. /\ step = "jump" /\ step' = "table" /\ lba' = TableStart
        /\ cx' = TableSectors /\ lowZero' = lowZero /\ tableMem' = <<>> /\ mem' = <<>>
    BY DEF StartOver, StartsOver, LoadTable
  <1>2. phase' = phase /\ image' = image
    BY DEF imageVars
  <1>3. phase = "built" /\ lowZero \in LowZeros
    BY <1>1 DEF BInv
  <1>4. InMemory(tableMem', TableStart, lba')
    BY <1>1, Constants, NothingYet
  <1>5. InMemory(tableMem, TableStart, lba)'
    BY <1>2, <1>4 DEF InMemory
  <1>6. lba' \in TableStart..FirstFree-1 /\ cx' = FirstFree - lba'
    BY <1>1, Constants DEF FirstFree
  <1> QED
    BY <1>1, <1>2, <1>3, <1>5, <1>6 DEF BInv

(* A read fails: another attempt, or a halt. *)
LEMMA ReadFailsStep ==
  ASSUME IInv, BInv, ReadFails, UNCHANGED imageVars
  PROVE BInv'
  <1>1. /\ step \in {"table", "read_stage2"} /\ (step' = "halted" \/ step' = step)
        /\ lowZero' = lowZero /\ lba' = lba /\ cx' = cx /\ tableMem' = tableMem /\ mem' = mem
    BY DEF ReadFails, Reads
  <1>2. /\ phase' = phase /\ image' = image /\ table' = table
        /\ \A name : /\ Clean(name)' <=> Clean(name)
                     /\ FileOf(name)' = FileOf(name)
    BY <1>1, SameImage
  <1>3. \A a, b : InMemory(tableMem, a, b)' <=> InMemory(tableMem, a, b)
    BY <1>1, <1>2 DEF InMemory
  <1>4. OnTheWay("stage2")' <=> OnTheWay("stage2")
    BY <1>1, <1>2 DEF InMemory, OnTheWay
  <1>5. phase = "built" /\ lowZero \in LowZeros
    BY <1>1 DEF BInv
  <1>6. CASE step' = "halted"
    BY <1>1, <1>2, <1>5, <1>6 DEF BInv
  <1>7. CASE step = "table" /\ step' = step
    <2>1. /\ lba \in TableStart..FirstFree-1 /\ cx = FirstFree - lba
          /\ InMemory(tableMem, TableStart, lba) /\ mem = <<>>
      BY <1>7 DEF BInv
    <2>2. InMemory(tableMem, TableStart, lba)'
      BY <1>1, <1>2, <2>1 DEF InMemory
    <2> QED
      BY <1>1, <1>2, <1>5, <1>7, <2>1, <2>2 DEF BInv
  <1>8. CASE step = "read_stage2" /\ step' = step
    <2>1. /\ InMemory(tableMem, TableStart, FirstFree)
          /\ Clean("stage2") => OnTheWay("stage2") /\ cx > 0
      BY <1>8 DEF BInv
    <2>2. InMemory(tableMem, TableStart, FirstFree)'
      BY <1>1, <1>2, <2>1 DEF InMemory
    <2> QED
      BY <1>1, <1>2, <1>4, <1>5, <1>8, <2>1, <2>2 DEF BInv
  <1> QED
    BY <1>1, <1>6, <1>7, <1>8

(* Stage 1 reads one more sector of the table. *)
LEMMA ReadTableStep ==
  ASSUME IInv, BInv, ReadSector, UNCHANGED imageVars, step = "table"
  PROVE BInv'
  <1>1. /\ OnDisk(lba) /\ tableMem' = tableMem \o SectorAt(lba) /\ mem' = mem
        /\ lba' = lba + 1 /\ cx' = (IF cx = 0 THEN Wrap ELSE cx) - 1
        /\ step' = IF ~Finished THEN step ELSE "find_stage2"
        /\ lowZero' = lowZero
    BY DEF ReadSector
  <1>2. phase' = phase /\ image' = image
    BY DEF imageVars
  <1>3. /\ phase = "built" /\ mem = <<>> /\ lowZero \in LowZeros
        /\ lba \in TableStart..FirstFree-1 /\ cx = FirstFree - lba
        /\ InMemory(tableMem, TableStart, lba)
    BY DEF BInv
  <1>4. TableStart \in Nat /\ FirstFree \in Nat /\ ImageTypes
    BY Constants DEF IInv
  <1>5. InMemory(tableMem', TableStart, lba + 1)
    <2>1. lba \in Nat /\ TableStart <= lba
      BY <1>3, <1>4
    <2> QED
      BY <1>1, <1>3, <1>4, <2>1, OneMore
  <1>6. InMemory(tableMem, TableStart, lba)'
    BY <1>1, <1>2, <1>5 DEF InMemory
  <1>7. cx # 0 /\ cx \in Nat /\ cx' = cx - 1
    <2>1. cx # 0 /\ cx \in Nat
      BY <1>3, <1>4
    <2> QED
      BY <1>1, <2>1
  <1>8. CASE Finished
    <2>3. cx = 1
      BY <1>7, <1>8 DEF Finished
    <2>1. lba + 1 = FirstFree /\ step' = "find_stage2"
      <3>1. lba + 1 = FirstFree
        BY <1>3, <1>4, <2>3
      <3> QED
        BY <1>1, <1>8, <3>1
    <2>2. InMemory(tableMem, TableStart, FirstFree)'
      BY <1>2, <1>5, <2>1 DEF InMemory, FirstFree
    <2> QED
      BY <1>1, <1>2, <1>3, <2>1, <2>2 DEF BInv
  <1>9. CASE ~Finished
    <2>2. cx # 1
      BY <1>7, <1>9 DEF Finished
    <2>3. lba' \in TableStart..FirstFree-1 /\ cx' = FirstFree - lba'
      BY <1>1, <1>3, <1>4, <1>7, <2>2
    <2>1. step' = "table" /\ lba' \in TableStart..FirstFree-1 /\ cx' = FirstFree - lba'
      BY <1>1, <1>9, <2>3
    <2> QED
      BY <1>1, <1>2, <1>3, <1>6, <2>1 DEF BInv
  <1> QED
    BY <1>8, <1>9

(* Stage 1 reads one more sector of stage 2. *)
LEMMA ReadStage2Step ==
  ASSUME IInv, BInv, ReadSector, UNCHANGED imageVars, step = "read_stage2"
  PROVE BInv'
  <1> DEFINE e == table[FileOf("stage2")]
  <1>1. /\ OnDisk(lba) /\ mem' = mem \o SectorAt(lba) /\ tableMem' = tableMem
        /\ lba' = lba + 1 /\ cx' = (IF cx = 0 THEN Wrap ELSE cx) - 1
        /\ step' = IF ~Finished THEN step ELSE "jump"
        /\ lowZero' = lowZero
    BY DEF ReadSector
  <1>2. /\ phase' = phase /\ image' = image /\ table' = table
        /\ \A name : /\ Clean(name)' <=> Clean(name)
                     /\ FileOf(name)' = FileOf(name)
    BY <1>1, SameImage
  <1>3. /\ phase = "built" /\ lowZero \in LowZeros /\ InMemory(tableMem, TableStart, FirstFree)
        /\ Clean("stage2") => OnTheWay("stage2") /\ cx > 0
    BY DEF BInv
  <1>4. InMemory(tableMem, TableStart, FirstFree)'
    BY <1>1, <1>2, <1>3 DEF InMemory
  <1>5. ASSUME Clean("stage2")
        PROVE OnTheWay("stage2")' /\ (Finished => cx' = 0) /\ (~Finished => cx' > 0)
    <2>1. /\ lba \in Nat /\ cx \in Nat /\ lba + cx = e.start + e.count /\ e.start <= lba
          /\ InMemory(mem, e.start, lba) /\ cx > 0
      BY <1>3, <1>5 DEF OnTheWay
    <2>2. e.start \in Nat /\ e.count \in Nat /\ ImageTypes
      BY <1>3, <1>5, CleanFile DEF IInv
    <2>3. e' = e
      BY <1>2
    <2> HIDE DEF e
    <2>4. InMemory(mem', e.start, lba + 1)
      BY <1>1, <2>1, <2>2, OneMore
    <2> DEFINE s == e.start
               c == e.count
    <2>9. /\ lba \in Nat /\ cx \in Nat /\ cx > 0 /\ lba + cx = s + c /\ s <= lba /\ s \in Nat
          /\ c \in Nat /\ cx' = cx - 1 /\ lba' = lba + 1
      BY <1>1, <2>1, <2>2
    <2> HIDE DEF s, c
    <2>10. /\ cx' \in Nat /\ lba' \in Nat /\ lba' + cx' = s + c /\ s <= lba'
      BY <2>9
    <2>11. Finished => cx' = 0
      BY <2>9 DEF Finished
    <2>12. ~Finished => cx' > 0
      BY <2>9 DEF Finished
    <2>5. /\ cx' \in Nat /\ lba' \in Nat /\ lba' + cx' = e.start + e.count /\ e.start <= lba'
      BY <2>10 DEF s, c
    <2>6. InMemory(mem', e.start, lba')
      BY <1>1, <2>4
    <2>7. e'.start = e.start /\ e'.count = e.count
      BY <2>3
    <2>8. OnTheWay("stage2")'
      BY <1>2, <2>5, <2>6, <2>7 DEF OnTheWay, InMemory, e
    <2> QED
      BY <2>8, <2>11, <2>12
  <1>6. CASE Finished
    <2>1. step' = "jump"
      BY <1>1, <1>6
    <2> QED
      BY <1>1, <1>2, <1>3, <1>4, <1>5, <1>6, <2>1 DEF BInv
  <1>7. CASE ~Finished
    <2>1. step' = "read_stage2"
      BY <1>1, <1>7
    <2>2. Clean("stage2") => cx' > 0
      BY <1>5, <1>7
    <2> QED
      BY <1>1, <1>2, <1>3, <1>4, <1>5, <2>1, <2>2 DEF BInv
  <1> QED
    BY <1>6, <1>7

(* load_file has set the sectors to read, if the file is clean. *)
LEMMA FindStep ==
  ASSUME IInv, BInv, UNCHANGED <<imageVars, lowZero, mem>>, NEW name \in {"stage2", "kernel"},
         step \in Ready, mem = <<>>, Clean(name),
         IF Found(name) # {}
           THEN \E s \in Found(name) : lba' = tableMem[s].start /\ cx' = tableMem[s].count
           ELSE lba' = 0 /\ cx' \in LeftInCx
  PROVE OnTheWay(name)' /\ cx' > 0 /\ lba' = table'[FileOf(name)'].start
  <1> DEFINE f == FileOf(name)
             e == table[f]
  <1>1. phase = "built" /\ InMemory(tableMem, TableStart, FirstFree) /\ lowZero \in LowZeros
    BY DEF BInv, Ready
  <1>2. Found(name) = {f} /\ tableMem[f] = e
    BY <1>1, Finds
  <1>3. lba' = e.start /\ cx' = e.count
    BY <1>2
  <1>4. e.start \in Nat /\ e.count \in Nat /\ e.count > 0
    BY <1>1, CleanFile
  <1>5. table' = table /\ image' = image /\ mem' = mem /\ FileOf(name)' = f
    BY SameImage
  <1> HIDE DEF f
  <1>6. InMemory(<<>>, e.start, e.start)
    BY <1>4, NothingYet
  <1> DEFINE s == e.start
             c == e.count
  <1>7. /\ lba' = s /\ cx' = c /\ s \in Nat /\ c \in Nat /\ c > 0 /\ InMemory(<<>>, s, s)
        /\ table'[FileOf(name)'].start = s /\ table'[FileOf(name)'].count = c
    BY <1>3, <1>4, <1>5, <1>6
  <1> HIDE DEF s, c
  <1>8. /\ lba' \in Nat /\ cx' \in Nat /\ lba' + cx' = s + c /\ s <= lba' /\ cx' > 0
    BY <1>7
  <1>9. InMemory(mem', s, lba')
    BY <1>5, <1>7
  <1> QED
    BY <1>5, <1>7, <1>8, <1>9 DEF OnTheWay, InMemory

(* load_file looks for stage 2. *)
LEMMA FindStage2Step ==
  ASSUME IInv, BInv, FindStage2, UNCHANGED imageVars
  PROVE BInv'
  <1>1. /\ step = "find_stage2" /\ step' = "read_stage2"
        /\ lowZero' = lowZero /\ tableMem' = tableMem /\ mem' = mem
        /\ IF Found("stage2") # {}
             THEN \E s \in Found("stage2") : lba' = tableMem[s].start /\ cx' = tableMem[s].count
             ELSE lba' = 0 /\ cx' \in LeftInCx
    BY DEF FindStage2
  <1>2. /\ phase' = phase /\ image' = image
        /\ \A name : Clean(name)' <=> Clean(name)
    BY <1>1, SameImage
  <1>3. /\ phase = "built" /\ mem = <<>> /\ lowZero \in LowZeros /\ step \in Ready
        /\ InMemory(tableMem, TableStart, FirstFree)
    BY <1>1 DEF BInv, Ready
  <1>4. InMemory(tableMem, TableStart, FirstFree)'
    BY <1>1, <1>2, <1>3 DEF InMemory
  <1>5. Clean("stage2") => OnTheWay("stage2")' /\ cx' > 0
    BY <1>1, <1>3, FindStep
  <1> QED
    BY <1>1, <1>2, <1>3, <1>4, <1>5 DEF BInv

(* A clean stage 2 is in memory when stage 1 jumps to it, and stage 1 is not. *)
LEMMA JumpsToStage2 ==
  ASSUME IInv, BInv, step = "jump", Clean("stage2")
  PROVE Loaded("stage2") /\ ~Stage1At(mem)
  <1> DEFINE e == table[FileOf("stage2")]
  <1>1. phase = "built" /\ OnTheWay("stage2") /\ cx = 0
    BY DEF BInv
  <1>2. /\ e.start \in Nat /\ e.count \in Nat
        /\ files[FileOf("stage2")].size \in Nat /\ files[FileOf("stage2")].size > 0
    BY <1>1, CleanFile
  <1>3. lba \in Nat /\ lba + cx = e.start + e.count /\ InMemory(mem, e.start, lba)
    BY <1>1 DEF OnTheWay
  <1>4. lba = e.start + e.count
    BY <1>1, <1>2, <1>3
  <1>5. InMemory(mem, e.start, e.start + e.count)
    BY <1>3, <1>4
  <1>6. /\ Len(mem) >= files[FileOf("stage2")].size
        /\ \A n \in 0..files[FileOf("stage2")].size - 1 : mem[n + 1] = Cell("stage2", n)
    BY <1>1, <1>5, AllOfIt
  <1>7. FilesNamed("stage2") # {}
    BY DEF Clean
  <1>8. Loaded("stage2")
    BY <1>2, <1>6, <1>7 DEF Loaded
  <1>9. ~Stage1At(mem)
    <2>1. 0 \in 0..files[FileOf("stage2")].size - 1 /\ 0 \in 0..Block-1
      BY <1>2, Constants
    <2>2. mem[0 + 1] = Cell("stage2", 0)
      BY <1>6, <2>1
    <2>3. Cell("stage2", 0).file # Cell(Stage1, 0).file
      BY DEF Cell, Stage1
    <2>4. Cell("stage2", 0) # Cell(Stage1, 0)
      BY <2>3
    <2> QED
      BY <2>1, <2>2, <2>4 DEF Stage1At
  <1> QED
    BY <1>8, <1>9

(* Stage 2 runs; the table is in memory still. *)
LEMMA RunStage2Step ==
  ASSUME IInv, BInv, RunStage2, UNCHANGED imageVars
  PROVE BInv'
  <1>1. /\ step = "jump" /\ step' = "find_kernel" /\ mem' = <<>>
        /\ lowZero' = lowZero /\ tableMem' = tableMem
    BY DEF RunStage2
  <1>2. phase' = phase /\ image' = image
    BY <1>1, SameImage
  <1>3. phase = "built" /\ lowZero \in LowZeros /\ InMemory(tableMem, TableStart, FirstFree)
    BY <1>1 DEF BInv
  <1>4. InMemory(tableMem, TableStart, FirstFree)'
    BY <1>1, <1>2, <1>3 DEF InMemory
  <1> QED
    BY <1>1, <1>2, <1>3, <1>4 DEF BInv

(* Other code is run where stage 2 is not clean only. *)
LEMMA RunAstrayStep ==
  ASSUME IInv, BInv, RunAstray, UNCHANGED imageVars
  PROVE BInv'
  <1>1. step = "jump" /\ step' = "crashed" /\ mem' = <<>> /\ lowZero' = lowZero
    BY DEF RunAstray
  <1>2. phase' = phase /\ \A name : Clean(name)' <=> Clean(name)
    BY <1>1, SameImage
  <1>3. phase = "built" /\ lowZero \in LowZeros
    BY <1>1 DEF BInv
  <1>4. ~Clean("stage2")
    BY <1>1, JumpsToStage2 DEF RunAstray
  <1> QED
    BY <1>1, <1>2, <1>3, <1>4 DEF BInv

(* load_file of stage 2 looks for the kernel. *)
LEMMA FindKernelStep ==
  ASSUME IInv, BInv, FindKernel, UNCHANGED imageVars
  PROVE BInv'
  <1>1. /\ step = "find_kernel" /\ step' = "read_kernel"
        /\ lowZero' = lowZero /\ tableMem' = tableMem /\ mem' = mem
        /\ IF Found("kernel") # {}
             THEN \E s \in Found("kernel") : lba' = tableMem[s].start /\ cx' = tableMem[s].count
             ELSE lba' = 0 /\ cx' \in LeftInCx
    BY DEF FindKernel
  <1>2. /\ phase' = phase /\ image' = image
        /\ \A name : Clean(name)' <=> Clean(name)
    BY <1>1, SameImage
  <1>3. phase = "built" /\ mem = <<>> /\ lowZero \in LowZeros /\ step \in Ready
    BY <1>1 DEF BInv, Ready
  <1>4. ASSUME Clean("kernel")
        PROVE OnTheWay("kernel")' /\ lba' = table'[FileOf("kernel")'].start
    BY <1>1, <1>3, <1>4, FindStep
  <1>5. Clean("kernel")' => OnTheWay("kernel")' /\ (lba = table[FileOf("kernel")].start)'
    BY <1>2, <1>4
  <1> QED
    BY <1>1, <1>2, <1>3, <1>5 DEF BInv

(* The low byte of a number that fits in one is the number. *)
LEMMA LowBytes ==
  ASSUME NEW n \in Nat
  PROVE LowByte(n) \in Nat /\ LowByte(n) < ByteValues /\ (InOneByte(n) => LowByte(n) = n)
  <1> DEFINE q == n \div ByteValues
             m == n % ByteValues
  <1>1. ByteValues \in Nat /\ ByteValues > 0
    BY BootAssumption
  <1>2. q \in Nat /\ m \in Nat /\ m < ByteValues /\ n = q * ByteValues + m
    BY <1>1
  <1> HIDE DEF q, m
  <1>3. ASSUME n < ByteValues PROVE m = n
    <2>1. q = 0 \/ q * ByteValues >= ByteValues
      BY <1>1, <1>2
    <2>2. q = 0
      BY <1>1, <1>2, <1>3, <2>1
    <2> QED
      BY <1>1, <1>2, <2>2
  <1> QED
    BY <1>2, <1>3 DEF LowByte, InOneByte, m

(* Fewer sectors than the file has do not hold it. *)
LEMMA TooFew ==
  ASSUME NEW size \in Nat, NEW n \in Nat, n < SectorsOf(size)
  PROVE n * Block < size
  BY Sectored

(* Stage 2 reads the kernel with one request. *)
LEMMA ReadKernelStep ==
  ASSUME IInv, BInv, ReadKernel, UNCHANGED imageVars
  PROVE BInv'
  <1> DEFINE e == table[FileOf("kernel")]
             size == files[FileOf("kernel")].size
             from == AskedFrom
             count == AskedCount
             r == SubSeq(image, from * Block + 1, (from + count) * Block)
  <1>1. /\ step = "read_kernel" /\ step' = "kernel" /\ lowZero' = lowZero
        /\ (OneRequest /\ mem' = r) \/ mem' = mem
    BY DEF ReadKernel
  <1>2. /\ phase' = phase /\ image' = image /\ files' = files /\ table' = table
        /\ \A name : Clean(name)' <=> Clean(name)
        /\ \A name : FileOf(name)' = FileOf(name)
    BY <1>1, SameImage DEF imageVars
  <1>3. /\ phase = "built" /\ mem = <<>> /\ lowZero \in LowZeros
        /\ Clean("kernel") => OnTheWay("kernel") /\ lba = e.start
    BY <1>1 DEF BInv
  <1>4. ASSUME Clean("kernel"), mem' # <<>> PROVE WholeIfItFits'
    <2>1. OneRequest /\ mem' = r
      BY <1>1, <1>3, <1>4
    <2>2. /\ e.start \in Nat /\ e.count \in Nat /\ e.count > 0 /\ e.count = SectorsOf(size)
          /\ size \in Nat /\ size > 0
      BY <1>3, <1>4, CleanFile
    <2>3. lba \in Nat /\ cx \in Nat /\ lba + cx = e.start + e.count /\ lba = e.start
      BY <1>3, <1>4 DEF OnTheWay
    <2> DEFINE s == e.start
               c == e.count
    <2>4. lba = s /\ cx = c /\ s \in Nat /\ c \in Nat /\ c > 0
      BY <2>2, <2>3
    <2>5. /\ from \in Nat /\ count \in Nat /\ count > 0 /\ count < ByteValues
          /\ (InOneByte(s + 1) => from = s) /\ (InOneByte(c) => count = c)
      <3> HIDE DEF s, c
      <3>1. s + 1 \in Nat
        BY <2>4
      <3>2. AskedSector = LowByte(s + 1) /\ count = LowByte(c)
        BY <2>4 DEF AskedSector, AskedCount
      <3>3. AskedSector \in Nat /\ (InOneByte(s + 1) => AskedSector = s + 1)
        BY <3>1, <3>2, LowBytes
      <3>4. count \in Nat /\ count < ByteValues /\ (InOneByte(c) => count = c)
        BY <2>4, <3>2, LowBytes
      <3>5. AskedSector >= 1 /\ count > 0
        BY <2>1, <3>3 DEF OneRequest
      <3> HIDE DEF count
      <3>6. from \in Nat /\ (InOneByte(s + 1) => from = s)
        BY <2>4, <3>3, <3>5 DEF AskedFrom
      <3> QED
        BY <3>4, <3>5, <3>6
    <2>6. (from + count) * Block <= Len(image)
      <3> HIDE DEF s, c, r
      <3>1. OnDisk((from + count) - 1)
        <4>1. \A n \in from .. from + count - 1 : OnDisk(n)
          BY <2>1 DEF OneRequest
        <4> HIDE DEF from, count
        <4>2. (from + count) - 1 \in from .. from + count - 1
          BY <2>5
        <4> QED
          BY <4>1, <4>2
      <3> HIDE DEF from, count
      <3>2. ((from + count) - 1) + 1 = from + count
        BY <2>5
      <3> QED
        BY <3>1, <3>2 DEF OnDisk
    <2> HIDE DEF s, c, from, count
    <2>7. InMemory(r, from, from + count)
      <3>1. from + count \in Nat /\ from <= from + count /\ ImageTypes
        BY <2>5 DEF IInv
      <3> QED
        BY <2>5, <2>6, <3>1, Stretch
    <2> HIDE DEF r
    <2>8. FilesNamed("kernel") # {} /\ FilesNamed("kernel")' = FilesNamed("kernel")
      BY <1>2, <1>4 DEF Clean, FilesNamed
    <2>9. ASSUME InOneByte(s + 1), InOneByte(c) PROVE Loaded("kernel")'
      <3>1. InMemory(r, s, s + c)
        BY <2>5, <2>7, <2>9
      <3>2. InMemory(r, e.start, e.start + e.count)
        BY <3>1 DEF s, c
      <3>3. /\ Len(r) >= size
            /\ \A n \in 0..size - 1 : r[n + 1] = Cell("kernel", n)
        BY <1>3, <1>4, <3>2, AllOfIt
      <3> QED
        BY <1>2, <2>1, <2>2, <2>8, <3>3 DEF Loaded
    <2>10. ASSUME ~InOneByte(c) PROVE ~Loaded("kernel")'
      <3>1. count < c
        BY <2>4, <2>5, <2>10, BootAssumption DEF InOneByte
      <3>2. count * Block < size
        BY <2>2, <2>5, <3>1, TooFew DEF c
      <3>3. Len(r) = ((from + count) - from) * Block
        BY <2>7 DEF InMemory
      <3>4. (from + count) - from = count
        BY <2>5
      <3>5. Len(r) = count * Block
        BY <3>3, <3>4
      <3>6. count * Block \in Nat
        BY <2>5, Constants
      <3>7. ~(Len(r) >= size)
        BY <2>2, <3>2, <3>5, <3>6
      <3>8. files'[FileOf("kernel")'].size = size /\ mem' = r
        BY <1>2, <2>1
      <3> QED
        BY <3>7, <3>8 DEF Loaded
    <2>11. table'[FileOf("kernel")'].start = s /\ table'[FileOf("kernel")'].count = c
      BY <1>2 DEF s, c
    <2> QED
      BY <2>9, <2>10, <2>11 DEF WholeIfItFits, InOneByte
  <1> QED
    BY <1>1, <1>2, <1>3, <1>4 DEF BInv

(* Every step of the start keeps the invariant. *)
LEMMA BootStep ==
  ASSUME IInv, BInv, BootNext, UNCHANGED imageVars
  PROVE BInv'
  <1>1. ASSUME ReadSector PROVE BInv'
    <2>1. step = "table" \/ step = "read_stage2"
      BY <1>1 DEF ReadSector, Reads
    <2> QED
      BY <1>1, <2>1, ReadTableStep, ReadStage2Step
  <1> QED
    BY <1>1, PowerOnStep, ReadFailsStep, FindStage2Step, RunStage2Step, StartOverStep,
       RunAstrayStep, FindKernelStep, ReadKernelStep DEF BootNext

(* While the floppy is built, nothing is started. *)
LEMMA BuildStep ==
  ASSUME IInv, BInv, ImageNext, UNCHANGED bootVars
  PROVE BInv'
  <1>1. phase # "built"
    BY DEF ImageNext, CreateFloppy, CreateEnds, OpenStage1, WriteSectors, WriteSectorsEnds,
           SetInfoEntry, WriteTable, OpenFile, CopyChunk, CloseFile, WriteEnds
  <1>2. step = "off"
    BY <1>1 DEF BInv
  <1>3. step' = step /\ lowZero' = lowZero /\ tableMem' = tableMem /\ mem' = mem
    BY DEF bootVars
  <1> QED
    BY <1>2, <1>3 DEF BInv

(* A stutter leaves what is said of the start. *)
LEMMA BootStays ==
  ASSUME BInv, UNCHANGED <<imageVars, bootVars>>
  PROVE BInv'
  <1>1. UNCHANGED <<step, lowZero, di, lba, cx, tableMem, mem, a20, a20Said, tried>>
    BY DEF bootVars
  <1>2. /\ UNCHANGED <<phase, files, image, table>>
        /\ \A name : /\ Clean(name)' <=> Clean(name)
                     /\ FileOf(name)' = FileOf(name)
    BY <1>1, SameImage
  <1>3. \A a, b : InMemory(tableMem, a, b)' <=> InMemory(tableMem, a, b)
    BY <1>1, <1>2 DEF InMemory
  <1>4. InMemory(tableMem, TableStart, lba)' <=> InMemory(tableMem, TableStart, lba)
    BY <1>1, <1>2 DEF InMemory
  <1>5. InMemory(tableMem, TableStart, FirstFree)' <=> InMemory(tableMem, TableStart, FirstFree)
    BY <1>1, <1>2 DEF InMemory
  <1>6. \A name : OnTheWay(name)' <=> OnTheWay(name)
    BY <1>1, <1>2 DEF OnTheWay, InMemory
  <1>7. \A name : Loaded(name)' <=> Loaded(name)
    BY <1>1, <1>2 DEF Loaded, FilesNamed
  <1>8. /\ table[FileOf("kernel")].start' = table[FileOf("kernel")].start
        /\ table[FileOf("kernel")].count' = table[FileOf("kernel")].count
    BY <1>2
  <1>9. WholeIfItFits' <=> WholeIfItFits
    BY <1>7, <1>8 DEF WholeIfItFits, InOneByte
  <1> QED
    BY <1>1, <1>2, <1>4, <1>5, <1>6, <1>8, <1>9 DEF BInv

------------------------------------------------------------------------------
(* The two together are an inductive invariant of building the floppy and     *)
(* starting from it.                                                       *)
THEOREM Invariant == FloppySpec => [](IInv /\ BInv)
  <1>1. ImageInit /\ BootInit => IInv /\ BInv
    <2> SUFFICES ASSUME ImageInit, BootInit PROVE IInv /\ BInv
      OBVIOUS
    <2>1. IInv
      BY Starts
    <2>2. step = "off" /\ lowZero \in LowZeros /\ tableMem = <<>> /\ mem = <<>>
      BY DEF BootInit
    <2> QED
      BY <2>1, <2>2 DEF BInv
  <1>2. IInv /\ BInv /\ [FloppyNext]_<<imageVars, bootVars>> => (IInv /\ BInv)'
    <2> SUFFICES ASSUME IInv, BInv, [FloppyNext]_<<imageVars, bootVars>> PROVE (IInv /\ BInv)'
      OBVIOUS
    <2>1. CASE ImageNext /\ UNCHANGED bootVars
      BY <2>1, ImageStep, BuildStep
    <2>2. CASE BootNext /\ UNCHANGED imageVars
      BY <2>2, ImageStays, BootStep
    <2>3. CASE UNCHANGED <<imageVars, bootVars>>
      BY <2>3, ImageStays, BootStays
    <2> QED
      BY <2>1, <2>2, <2>3 DEF FloppyNext
  <1> QED
    BY <1>1, <1>2, PTL DEF FloppySpec

(* Whatever write went wrong and whatever file was missing: the files before  *)
(* it are whole where the file table says, the table is on the image as it   *)
(* was in prsfs's memory, and stage 1 is whole in front of it.             *)
THEOREM FloppyAsBuilt == FloppySpec => []TableTellsTruth
  <1>1. IInv => TableTellsTruth
    <2> SUFFICES ASSUME IInv, phase = "built" PROVE TableTellsTruth
      BY DEF TableTellsTruth
    <2>1. /\ ImageTypes /\ Stage1Stays /\ TableRight /\ FilesWritten
          /\ phase \in Filed /\ phase \in OnImage
      BY DEF IInv, Filed, OnImage
    <2>2. ASSUME NEW f \in 1..Len(files)
          PROVE IF f >= FirstMissing THEN table[f].count = 0
                ELSE damaged = 0 \/ f < damaged => Holds(f)
      <3>1. FirstMissing \in Nat /\ f \in Nat
        BY <2>1, Files, FirstMissingOne
      <3>2. CASE f >= FirstMissing
        <4>1. ~(f < FirstMissing)
          BY <3>1, <3>2
        <4> QED
          BY <2>1, <3>2, <4>1 DEF TableRight, Filled
      <3>3. CASE ~(f >= FirstMissing)
        <4>1. f < FirstMissing
          BY <3>1, <3>3
        <4>2. damaged = 0 \/ f < damaged => Whole(f) /\ Passed(f)
          BY <4>1 DEF Whole, Passed
        <4> QED
          BY <2>1, <3>3, <4>2 DEF FilesWritten
      <3> QED
        BY <3>2, <3>3
    <2>3. damaged # 1 => TableOnImage
      BY <2>1 DEF FilesWritten
    <2>4. faults = 0 /\ SectorsOf(boot) <= BootSectors /\ BootSectors <= TableStart => Stage1Whole
      BY <2>1 DEF Stage1Stays, Stage1Fits
    <2> QED
      BY <2>2, <2>3, <2>4 DEF TableTellsTruth
  <1> QED
    BY <1>1, Invariant, PTL

(* However many reads fail and whatever lies in low memory: stage 1 runs no     *)
(* stage 2 but the whole one the image holds, and not itself, if load_file is  *)
(* not stopped in front of it; and a kernel in memory is the whole kernel     *)
(* where its sector and count fit in a byte, and never where the count does not. *)
THEOREM StagesRunWhole == FloppySpec => []RunsWhatWasBuilt
  <1>1. IInv /\ BInv => RunsWhatWasBuilt
    <2> SUFFICES ASSUME IInv, BInv PROVE RunsWhatWasBuilt
      OBVIOUS
    <2>1. ASSUME Clean("stage2") PROVE step # "crashed" /\ ~StartsOver
      BY <2>1, JumpsToStage2 DEF BInv, StartsOver
    <2>2. step = "kernel" /\ mem # <<>> /\ Clean("kernel") => WholeIfItFits
      BY DEF BInv
    <2> QED
      BY <2>1, <2>2 DEF RunsWhatWasBuilt
  <1> QED
    BY <1>1, Invariant, PTL
==============================================================================
