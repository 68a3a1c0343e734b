-------------------------------- MODULE KHeap --------------------------------
(***************************************************************************)
(* The kernel heap, kernel/memory/kheap.c, behind kmalloc and kfree.       *)
(*                                                                         *)
(* The heap is a list of blocks laid one after the other from heapStart-   *)
(* Address up.  A block is a packed header (a next pointer, a flags byte   *)
(* whose bit 0 says in use), its data, and one spare byte:                 *)
(*                                                                         *)
(*      b          b+H                     b+H+size   nextBlock = b+H+size+1*)
(*      | header   | data (size bytes)     | spare    | next header ...    *)
(*                                                                         *)
(* kheap_addBlock searches the list for a free block, joining runs of free *)
(* blocks when one alone is too small, and otherwise grows the heap past   *)
(* the last block.  The two loops of the search are the actions below, one *)
(* action per iteration; the kernel is single threaded here and no         *)
(* interrupt handler allocates, so nothing else runs between them.         *)
(*                                                                         *)
(* The inner loop can step past lastBlock and read a header nobody wrote.  *)
(* What it finds there is any member of Garbage, and if the search then    *)
(* joins that phantom block to a real one the model stops in pc =          *)
(* "corrupt": the code goes on, over a list that no longer is one.         *)
(***************************************************************************)
EXTENDS Integers, FiniteSets, FiniteSetsExt

CONSTANTS H,          \* blockHeaderSize
          HeapStart,  \* heapStartAddress
          WORD,       \* size_t arithmetic is modulo WORD (2^32)
          Sizes,      \* the sizes callers ask for
          Modes,      \* the <<reuseFreeBlocks, mergeFreeBlocks>> callers pass
          Garbage,    \* what RAM past the last block may hold, read as a header
          MemTop      \* bound: callers never push the heap past this address

Header == [next : Nat, used : BOOLEAN]

Totals == [blockCount : Int, heapSpaceAllocated : Int, heapSpaceUsed : Int,
           heapMemAllocated : Int, heapMemUsed : Int]

ASSUME KHeapAssumption ==
  /\ H \in Nat \ {0} /\ HeapStart \in Nat /\ WORD \in Nat /\ MemTop \in Nat
  /\ HeapStart <= MemTop /\ MemTop + H + 1 < WORD
  /\ Sizes \subseteq Nat
  /\ Modes \subseteq BOOLEAN \X BOOLEAN
  /\ Garbage \subseteq Header

VARIABLES
  hdr,              \* the headers of the blocks of the list: address -> header
  heapInitialized, firstBlock, lastBlock,
  kheapMem,         \* the five counters of HeapMem_t
  live,             \* what callers hold: data pointer -> size they asked for
  pc,               \* where kheap_addBlock is
  req,              \* its arguments
  found, inc,       \* isReuseBlock, allocatedSizeToIncrement
  cur,              \* currentBlock, then the block the search returned
  nxt, nxtHdr,      \* currentNextBlock and the header read there
  sum, count        \* sizeOfAllFreeBlocks, countOfAllFreeMergeBlocks

list   == <<hdr, heapInitialized, firstBlock, lastBlock>>
inner  == <<nxt, nxtHdr, sum, count>>
locals == <<req, found, inc, cur, inner>>
vars   == <<list, kheapMem, live, pc, locals>>

------------------------------------------------------------------------------
Blocks == DOMAIN hdr

\* size_t addition and kheap_getMemBlockDataSize, both modulo WORD.
Plus(a, b) == IF a + b < WORD THEN a + b ELSE a + b - WORD
SignedDataSize(b, h) == h.next - (b + H + 1)            \* mutant: no wrap
DataSize(b, h) == IF b + H + 1 <= h.next THEN h.next - (b + H + 1)
                                         ELSE h.next + WORD - (b + H + 1)
SizeOf(b) == DataSize(b, hdr[b])

DataAddress(b) == b + H                     \* kheap_getMemBlockDataAddress
NextFor(b, size) == b + H + size + 1        \* createNextBlock

\* Where the next new block goes: past the last one.
OntoLast == IF heapInitialized THEN lastBlock ELSE HeapStart       \* mutant
Frontier == IF heapInitialized THEN hdr[lastBlock].next ELSE HeapStart

ReadHeader(a) == IF a \in Blocks THEN {hdr[a]} ELSE Garbage

NoHeader == [next |-> 0, used |-> FALSE]
NoRequest == [size |-> 0, reuse |-> FALSE, merge |-> FALSE]

\* Locals exist only while their function runs.
InnerDead == nxt' = 0 /\ nxtHdr' = NoHeader /\ sum' = 0 /\ count' = 0
LocalsDead == /\ req' = NoRequest /\ found' = FALSE /\ inc' = 0 /\ cur' = 0
              /\ InnerDead

Init ==
  /\ hdr = [b \in {} |-> NoHeader]
  /\ heapInitialized = FALSE /\ firstBlock = 0 /\ lastBlock = 0
  /\ kheapMem = [blockCount |-> 0, heapSpaceAllocated |-> 0, heapSpaceUsed |-> 0,
                 heapMemAllocated |-> 0, heapMemUsed |-> 0]
  /\ live = [p \in {} |-> 0]
  /\ pc = "idle"
  /\ req = NoRequest /\ found = FALSE /\ inc = 0 /\ cur = 0
  /\ nxt = 0 /\ nxtHdr = NoHeader /\ sum = 0 /\ count = 0

------------------------------------------------------------------------------
(* kheap_addBlock up to the search.  The search runs only on a heap that   *)
(* exists and for a caller that reuses; the caller's mergeFreeBlocks is    *)
(* kept in req but the search never sees it: line 148 passes true.         *)
AddBlock(size, reuse, merge) ==
  /\ pc = "idle"
  /\ NextFor(Frontier, size) <= MemTop
  /\ req' = [size |-> size, reuse |-> reuse, merge |-> merge]
  /\ IF heapInitialized /\ reuse /\ kheapMem.blockCount # 0
       THEN pc' = "scan" /\ cur' = firstBlock
       ELSE pc' = "place" /\ cur' = cur
  /\ UNCHANGED <<list, kheapMem, live, found, inc, inner>>

(* The outer loop: stop past lastBlock, take a free block that is large    *)
(* enough, start joining from one that is not, skip one in use.            *)
ShortOfLast == cur < lastBlock                          \* mutant: off by one
Scanning == cur <= lastBlock
FitsOverHeader(b) == SizeOf(b) + H >= req.size          \* mutant
Fits(b) == SizeOf(b) >= req.size
StayPut == cur                                          \* mutant: no advance
Following == hdr[cur].next

ScanEnd ==
  /\ pc = "scan" /\ ~Scanning
  /\ pc' = "place" /\ cur' = 0
  /\ UNCHANGED <<list, kheapMem, live, req, found, inc, inner>>

ScanFit ==
  /\ pc = "scan" /\ Scanning
  /\ ~hdr[cur].used /\ Fits(cur)
  /\ pc' = "place" /\ found' = TRUE
  /\ UNCHANGED <<list, kheapMem, live, req, inc, cur, inner>>

ScanSmall ==
  /\ pc = "scan" /\ Scanning
  /\ ~hdr[cur].used /\ ~Fits(cur)
  /\ pc' = "merge"
  /\ nxt' = cur /\ nxtHdr' = hdr[cur] /\ sum' = SizeOf(cur) /\ count' = 0
  /\ UNCHANGED <<list, kheapMem, live, req, found, inc, cur>>

ScanUsed ==
  /\ pc = "scan" /\ Scanning
  /\ hdr[cur].used
  /\ cur' = Following
  /\ UNCHANGED <<list, kheapMem, live, pc, req, found, inc, inner>>

------------------------------------------------------------------------------
(* The inner loop.  Its condition is tested on the block reached so far,   *)
(* so from lastBlock it takes one step more, to the header at the frontier.*)
JoiningUsed == nxt <= lastBlock /\ sum < req.size        \* mutant: flag ignored
Joining == nxt <= lastBlock /\ sum < req.size /\ ~nxtHdr.used

MergeStep ==
  /\ pc = "merge" /\ Joining
  /\ nxt' = nxtHdr.next
  /\ \E h \in ReadHeader(nxtHdr.next) :
       /\ nxtHdr' = h
       /\ IF h.used THEN UNCHANGED <<sum, count>>
                    ELSE /\ sum' = Plus(sum, DataSize(nxtHdr.next, h))
                         /\ count' = count + 1
  /\ UNCHANGED <<list, kheapMem, live, pc, req, found, inc, cur>>

(* The run is large enough: the blocks up to nxt become part of cur.  When *)
(* nxt is the last block the size is computed afresh, without the spare    *)
(* bytes of the joined blocks, and the frontier moves down.                *)
Joined == {b \in Blocks : cur < b /\ b <= nxt}
JoinGainSpare == count * (H + 1)                        \* mutant: spare bytes too
JoinGain == count * H
JoinedNext == IF nxt = lastBlock THEN NextFor(cur, sum + JoinGain) ELSE nxtHdr.next

MergeJoin ==
  /\ pc = "merge" /\ ~Joining /\ sum >= req.size
  /\ nxt \in Blocks
  /\ hdr' = [b \in Blocks \ Joined |->
               IF b = cur THEN [hdr[cur] EXCEPT !.next = JoinedNext] ELSE hdr[b]]
  /\ lastBlock' = IF nxt = lastBlock THEN cur ELSE lastBlock
  /\ kheapMem' = [kheapMem EXCEPT !.blockCount = @ - count]
  /\ inc' = JoinGain
  /\ found' = TRUE /\ pc' = "place"
  /\ UNCHANGED <<heapInitialized, firstBlock, live, req, cur, inner>>

(* The same statements when the run was completed by the phantom block.    *)
MergePhantom ==
  /\ pc = "merge" /\ ~Joining /\ sum >= req.size
  /\ nxt \notin Blocks
  /\ hdr' = [hdr EXCEPT ![cur].next = nxtHdr.next]
  /\ kheapMem' = [kheapMem EXCEPT !.blockCount = @ - count]
  /\ inc' = JoinGain
  /\ found' = TRUE /\ pc' = "corrupt"
  /\ UNCHANGED <<heapInitialized, firstBlock, lastBlock, live, req, cur, inner>>

MergeGiveUp ==
  /\ pc = "merge" /\ ~Joining /\ sum < req.size
  /\ pc' = "scan" /\ cur' = Following
  /\ InnerDead
  /\ UNCHANGED <<list, kheapMem, live, req, found, inc>>

------------------------------------------------------------------------------
(* kheap_addBlock after the search: mark the block, account, return.       *)
Hold(b) == live' = [p \in DOMAIN live \cup {DataAddress(b)} |->
                      IF p = DataAddress(b) THEN req.size ELSE live[p]]

PlaceNew ==
  /\ pc = "place" /\ ~found
  /\ hdr' = [b \in Blocks \cup {Frontier} |->
               IF b = Frontier THEN [next |-> NextFor(Frontier, req.size), used |-> TRUE]
                               ELSE hdr[b]]
  /\ heapInitialized' = TRUE
  /\ firstBlock' = IF heapInitialized THEN firstBlock ELSE Frontier
  /\ lastBlock' = Frontier
  /\ kheapMem' =
       [blockCount         |-> kheapMem.blockCount + 1,
        heapSpaceAllocated |-> kheapMem.heapSpaceAllocated + req.size,
        heapSpaceUsed      |-> kheapMem.heapSpaceUsed + req.size,
        heapMemAllocated   |-> kheapMem.heapMemAllocated + H + req.size,
        heapMemUsed        |-> kheapMem.heapMemUsed + H + req.size]
  /\ Hold(Frontier)
  /\ pc' = "idle" /\ LocalsDead

PlaceReused ==
  /\ pc = "place" /\ found
  /\ hdr' = [hdr EXCEPT ![cur].used = TRUE]
  /\ kheapMem' = [kheapMem EXCEPT !.heapSpaceAllocated = @ + inc,
                                  !.heapSpaceUsed = @ + SizeOf(cur),
                                  !.heapMemUsed = @ + SizeOf(cur) - inc]
  /\ Hold(cur)
  /\ pc' = "idle" /\ LocalsDead
  /\ UNCHANGED <<heapInitialized, firstBlock, lastBlock>>

(* kheap_freeBlock, for a pointer its caller holds. *)
FreeBlock(p) ==
  /\ pc = "idle" /\ p \in DOMAIN live
  /\ hdr' = [hdr EXCEPT ![p - H].used = FALSE]
  /\ kheapMem' = [kheapMem EXCEPT !.heapSpaceUsed = @ - SizeOf(p - H),
                                  !.heapMemUsed = @ - SizeOf(p - H)]
  /\ live' = [q \in DOMAIN live \ {p} |-> live[q]]
  /\ UNCHANGED <<heapInitialized, firstBlock, lastBlock, pc, locals>>

Search == \/ ScanEnd \/ ScanFit \/ ScanSmall \/ ScanUsed
          \/ MergeStep \/ MergeJoin \/ MergePhantom \/ MergeGiveUp

Kernel == Search \/ PlaceNew \/ PlaceReused

Next == \/ Kernel
        \/ \E size \in Sizes, m \in Modes : AddBlock(size, m[1], m[2])
        \/ \E p \in DOMAIN live : FreeBlock(p)

Spec == Init /\ [][Next]_vars

\* The processor keeps executing kheap_addBlock once it has been called.
FairSpec == Spec /\ WF_vars(Kernel)
------------------------------------------------------------------------------
(* Correctness.  Everything below is about a list that is still one:       *)
(* pc # "corrupt".                                                         *)

TypeOK ==
  /\ DOMAIN hdr \subseteq Nat /\ \A b \in DOMAIN hdr : hdr[b] \in Header
  /\ hdr = [b \in DOMAIN hdr |-> hdr[b]]
  /\ heapInitialized \in BOOLEAN /\ firstBlock \in Nat /\ lastBlock \in Nat
  /\ kheapMem \in Totals
  /\ DOMAIN live \subseteq Nat /\ \A p \in DOMAIN live : live[p] \in Sizes
  /\ pc \in {"idle", "scan", "merge", "place", "corrupt"}
  /\ req \in [size : Nat, reuse : BOOLEAN, merge : BOOLEAN]
  /\ found \in BOOLEAN /\ inc \in Nat /\ cur \in Nat
  /\ nxt \in Nat /\ nxtHdr \in Header /\ sum \in Nat /\ count \in Nat

\* The bytes a caller asked for are touched by no header of the list and by no
\* other caller's bytes: not before, during or after blocks are joined.
NoOverlap ==
  pc # "corrupt" =>
    \A p \in DOMAIN live :
      /\ \A b \in Blocks : DataAddress(b) <= p \/ p + live[p] <= b
      /\ \A q \in DOMAIN live : p # q => p + live[p] <= q \/ q + live[q] <= p

\* A block is marked in use exactly while a caller holds it, and is never
\* smaller than what that caller asked for.
HeldIsInUse ==
  pc # "corrupt" =>
    /\ {DataAddress(b) : b \in {x \in Blocks : hdr[x].used}} = DOMAIN live
    /\ \A p \in DOMAIN live : live[p] <= SizeOf(p - H)

SumOfSizes(headers, S) == MapThenSumSet(LAMBDA b : DataSize(b, headers[b]), S)
TotalSize(S) == SumOfSizes(hdr, S)

\* Between calls the totals that `memusage` prints add up: the used space is the
\* space of the blocks in use, headers are counted once per block, and the
\* allocated space never exceeds what the blocks hold.
TotalsAddUp ==
  pc = "idle" =>
    /\ kheapMem.blockCount = Cardinality(Blocks)
    /\ kheapMem.heapSpaceUsed = TotalSize({b \in Blocks : hdr[b].used})
    /\ kheapMem.heapMemUsed = kheapMem.heapSpaceUsed + H * kheapMem.blockCount
    /\ kheapMem.heapMemAllocated = kheapMem.heapSpaceAllocated + H * kheapMem.blockCount
    /\ kheapMem.heapSpaceAllocated <= TotalSize(Blocks)

\* cmd_memusage (shell.c) walks the list between calls: from firstBlock along the
\* next pointers while the data address is not past that of lastBlock.
ShortOfTheLast(b) == DataAddress(b) < DataAddress(lastBlock)      \* mutant: < for <=
WalkGoesOn(b) == DataAddress(b) <= DataAddress(lastBlock)

\* What it prints is the heap: it starts at the lowest block, goes from each block
\* to the one above it, never to an address that is no block, and stops at the top.
MemusageShowsAll ==
  pc = "idle" /\ kheapMem.blockCount > 0 =>
    /\ firstBlock \in Blocks /\ \A b \in Blocks : firstBlock <= b
    /\ WalkGoesOn(firstBlock)
    /\ \A b \in Blocks :
         IF WalkGoesOn(hdr[b].next)
           THEN hdr[b].next \in Blocks /\ \A c \in Blocks : b < c => hdr[b].next <= c
           ELSE \A c \in Blocks : c <= b

\* The heap grows only when it must: the search returns NULL only when no run
\* of neighbouring free blocks holds the request.
FreeRun(b, c) == {x \in Blocks : b <= x /\ x <= c}
GrowsOnlyWhenFull ==
  pc = "place" /\ ~found /\ req.reuse /\ heapInitialized =>
    \A b, c \in Blocks :
      b <= c /\ (\A x \in FreeRun(b, c) : ~hdr[x].used) => TotalSize(FreeRun(b, c)) < req.size

\* No step moves, resizes or frees a block in use except the kfree of its holder.
HeldStep ==
  \A b \in Blocks :
    hdr[b].used /\ pc # "corrupt" =>
      \/ b \in DOMAIN hdr' /\ hdr'[b] = hdr[b]
      \/ pc = "idle" /\ DOMAIN live' = DOMAIN live \ {DataAddress(b)}
HeldUntouched == [][HeldStep]_vars

\* Every kmalloc returns: the two loops of the search end, whatever the layout.
Answered == pc # "idle" ~> pc \in {"idle", "corrupt"}

\* To its callers the heap is the abstract allocator; searching is invisible.
A == INSTANCE Allocator WITH Pointers <- HeapStart..MemTop, Sizes <- Sizes, live <- live
ImplementsAllocator == A!Spec

------------------------------------------------------------------------------
(* What the comments of kheap.c say and the code does not do.              *)

\* kheap.c:50-51: blocks are joined when "the sum of all free blocks is >=
\* required size".
JoinsEnough ==
  pc = "merge" /\ ~Joining /\ sum >= req.size =>
    TotalSize({b \in FreeRun(cur, nxt) : ~hdr[b].used}) >= req.size

------------------------------------------------------------------------------
(* The inductive invariant: ListInv is behind NoOverlap and HeldIsInUse,       *)
(* CountsInv behind TotalsAddUp and GrowsOnlyWhenFull.                      *)

\* The blocks lie one after the other, each next pointer names the next of them.
Chain ==
  /\ heapInitialized <=> Blocks # {}
  /\ heapInitialized => /\ firstBlock = HeapStart
                        /\ firstBlock \in Blocks /\ lastBlock \in Blocks
  /\ \A b \in Blocks : /\ firstBlock <= b /\ b <= lastBlock
                       /\ b + H + 1 <= hdr[b].next /\ hdr[b].next <= MemTop
                       /\ b # lastBlock => hdr[b].next \in Blocks
  /\ \A b, c \in Blocks : b < c => hdr[b].next <= c

\* Callers hold exactly the blocks in use, with room for what they asked for.
Holders ==
  /\ \A p \in DOMAIN live : /\ p - H \in Blocks /\ hdr[p - H].used
                            /\ p + live[p] < hdr[p - H].next
  /\ \A b \in Blocks : hdr[b].used => b + H \in DOMAIN live

\* What the search has established where it stands.  The run from cur to nxt is
\* free, and sum leaves out of it the count headers and spare bytes inside.
SearchOK ==
  /\ IF pc = "idle" THEN ~found ELSE req.size \in Sizes
  /\ (pc # "idle" /\ ~found) => NextFor(Frontier, req.size) <= MemTop
  /\ pc \in {"scan", "merge"} => heapInitialized /\ ~found
  /\ pc = "scan" => cur \in Blocks \cup {Frontier}
  /\ pc = "merge" =>
       /\ cur \in Blocks /\ cur <= nxt
       /\ nxt \in Blocks => nxtHdr = hdr[nxt]
       /\ nxt \notin Blocks => nxt = Frontier
       /\ \A b \in Blocks : cur <= b /\ b <= nxt => ~hdr[b].used \/ b = nxt
       /\ nxtHdr.used => sum < req.size
       /\ nxt \in Blocks /\ ~nxtHdr.used =>
            NextFor(cur, sum + count * (H + 1)) = nxtHdr.next
  /\ (pc = "place" /\ found) =>
       /\ cur \in Blocks /\ ~hdr[cur].used
       /\ NextFor(cur, req.size) <= hdr[cur].next

ListInv == TypeOK /\ (pc # "corrupt" => Chain /\ Holders /\ SearchOK)

\* sum and count are the run of free blocks from cur to where the inner loop
\* stands; past the last block it is known to be too small.
Run == {b \in FreeRun(cur, nxt) : ~hdr[b].used}
RunSummed ==
  pc = "merge" =>
    /\ ~hdr[cur].used
    /\ nxt \in Blocks => sum = TotalSize(Run) /\ count = Cardinality(Run \ {cur})
    /\ nxt \notin Blocks => TotalSize(Run) < req.size

\* No run of free blocks that begins before cur holds the request.
Misses(b) ==
  \A c \in Blocks :
    b <= c /\ (\A x \in FreeRun(b, c) : ~hdr[x].used) => TotalSize(FreeRun(b, c)) < req.size
Searched ==
  /\ pc \in {"scan", "merge"} => \A b \in Blocks : b < cur => Misses(b)
  /\ pc = "place" /\ ~found /\ req.reuse /\ heapInitialized => \A b \in Blocks : Misses(b)

\* The totals at every step: a join took count headers out of the count of
\* blocks, and only with the block reused do they appear as space.
Accounts ==
  /\ ~found => inc = 0
  /\ kheapMem.blockCount = Cardinality(Blocks)
  /\ kheapMem.heapSpaceUsed = TotalSize({b \in Blocks : hdr[b].used})
  /\ kheapMem.heapMemUsed = kheapMem.heapSpaceUsed + H * kheapMem.blockCount + inc
  /\ kheapMem.heapMemAllocated = kheapMem.heapSpaceAllocated + H * kheapMem.blockCount + inc
  /\ kheapMem.heapSpaceAllocated + inc <= TotalSize(Blocks)

CountsInv == pc # "corrupt" => RunSummed /\ Searched /\ Accounts

IInv == ListInv /\ CountsInv
==============================================================================
