------------------------------- MODULE MCKHeap -------------------------------
(***************************************************************************)
(* Instances of KHeap for TLC.  Headers keep their real five bytes; sizes  *)
(* and the heap are small, large enough for six minimal blocks.            *)
(***************************************************************************)
EXTENDS KHeap

Kmalloc == {<<TRUE, TRUE>>}                     \* kmalloc.c:11
AllModes == BOOLEAN \X BOOLEAN

ZeroRAM == {[next |-> 0, used |-> FALSE]}
\* Anything a stale byte can suggest: nothing, a block in use, a block of one
\* byte, a block larger than any request.
AnyRAM == {[next |-> n, used |-> u] : n \in {0, MemTop - 1, MemTop}, u \in BOOLEAN}
==============================================================================
