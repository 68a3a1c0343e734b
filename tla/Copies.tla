-------------------------------- MODULE Copies --------------------------------
(***************************************************************************)
(* The copies of MemUtils against what a copy is for.  A call is one record *)
(* of arguments: the memory it runs in, which reaches up to top, both      *)
(* addresses and the size.                                                 *)
(***************************************************************************)
EXTENDS MemUtils

CONSTANT CopyCalls       \* the calls tried: [dst, src, size, top]

\* The memory holds what a call touches; memcpy_16 touches up to twice the size.
ASSUME CopiesAssumption ==
  \A c \in CopyCalls :
    /\ {c.dst, c.src, c.size, c.top} \subseteq Nat
    /\ c.dst + 2 * c.size <= c.top + 1 /\ c.src + 2 * c.size <= c.top + 1

VARIABLE given           \* the call at hand

(* A memory whose every byte holds its own address, so that a copy shows where *)
(* each byte came from.                                                    *)
Memory == [a \in 0..given.top |-> a]
Moved(dst, src, n) ==
  [a \in DOMAIN Memory |-> IF a \in dst .. dst + n - 1 THEN Memory[src + a - dst] ELSE Memory[a]]
Apart(dst, src, n) == dst + n <= src \/ src + n <= dst

(* memcpy copies as if it read everything first, also inside one region if it *)
(* moves down; memcpy_16 copies double what is not copied in words;         *)
(* memcpy_def replaces zeros there only.  memcpy_r, given the last bytes of  *)
(* regions it may move up, agrees unless both are aligned, where it starts  *)
(* with the three bytes behind them.  memcmp finds a copy equal.            *)
MemoryMoves ==
  LET d == given.dst  s == given.src  n == given.size
      inWords == IF Aligned(d, s) THEN n - (n % Word) ELSE 0
      units == n - inWords
      copy == memcpy(Memory, d, s, n) IN
    /\ d <= s \/ Apart(d, s, n) =>
         /\ copy = Moved(d, s, n)
         /\ memcpy_def(Memory, d, s, <<99>>, n) =
              [a \in DOMAIN Memory |->
                 IF a \in d + inWords .. d + n - 1 /\ copy[a] = 0 THEN 99 ELSE copy[a]]
    /\ d <= s \/ Apart(d, s, n + units) =>
         memcpy_16(Memory, d, s, n) = Moved(d, s, n + units)
    /\ Apart(d, s, n) => memcmp(copy, d, s, n) = 0
    /\ (d >= s \/ Apart(d, s, n)) /\ n > 0 /\ (~Aligned(d + n - 1, s + n - 1) \/ n < Word)
         => memcpy_r(Memory, d + n - 1, s + n - 1, n) = Moved(d, s, n)

CopiesInit == given \in CopyCalls
==============================================================================
