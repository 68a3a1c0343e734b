\* kmalloc as it is called, over the zeroed RAM a machine starts with.
CONSTANTS
  H = 5
  HeapStart = 10
  WORD = 256
  Sizes = {1, 3}
  Modes <- Kmalloc
  Garbage <- ZeroRAM
  MemTop = 50
SPECIFICATION Spec
INVARIANT JoinsEnough
CHECK_DEADLOCK FALSE
