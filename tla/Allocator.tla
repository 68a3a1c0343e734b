------------------------------ MODULE Allocator ------------------------------
(***************************************************************************)
(* What kmalloc and kfree promise the rest of the kernel, and nothing of   *)
(* how: an allocation is a pointer into the heap and a number of bytes the *)
(* caller may use, no two outstanding allocations share a byte or a        *)
(* pointer, and only the caller's own kfree ends one.                      *)
(***************************************************************************)
EXTENDS Naturals

CONSTANTS Pointers,   \* the addresses an allocation may start at, numbers
          Sizes       \* the sizes that are asked for, numbers

VARIABLE live         \* outstanding allocations: pointer -> size asked for

Apart(p, m, q, n) == p # q /\ (p + m <= q \/ q + n <= p)

Init == live = [p \in {} |-> 0]

Alloc(p, n) ==
  /\ p \notin DOMAIN live
  /\ \A q \in DOMAIN live : Apart(p, n, q, live[q])
  /\ live' = [q \in DOMAIN live \cup {p} |-> IF q = p THEN n ELSE live[q]]

Free(p) ==
  /\ p \in DOMAIN live
  /\ live' = [q \in DOMAIN live \ {p} |-> live[q]]

Next == \E p \in Pointers : Free(p) \/ \E n \in Sizes : Alloc(p, n)

Spec == Init /\ [][Next]_live
==============================================================================
