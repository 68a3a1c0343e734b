\* Every way to allocate and free blocks of three sizes in a small heap, over
\* RAM that holds anything past the last block.
CONSTANTS
  H = 5
  HeapStart = 10
  WORD = 256
  Sizes = {1, 3, 9}
  Modes <- AllModes
  Garbage <- AnyRAM
  MemTop = 54
SPECIFICATION FairSpec
INVARIANTS IInv NoOverlap TotalsAddUp MemusageShowsAll GrowsOnlyWhenFull
PROPERTIES HeldUntouched Answered ImplementsAllocator
\* MemTop stops the requests, and pc = "corrupt" is where the model ends.
CHECK_DEADLOCK FALSE
