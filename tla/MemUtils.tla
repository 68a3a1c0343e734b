------------------------------- MODULE MemUtils -------------------------------
(***************************************************************************)
(* The copies, comparison and dump of kernel/memory/memutils.c over        *)
(* a memory m, a function from addresses to values.                          *)
(*                                                                         *)
(* A copy is the sequence of its stores, each of which reads when its turn *)
(* comes, so overlapping regions behave as in the code.  If both addresses *)
(* are aligned the loops move words first and single units for the rest.   *)
(***************************************************************************)
EXTENDS Integers, Sequences, SequencesExt

Word == 4
Aligned(dst, src) == dst % Word = 0 /\ src % Word = 0

LeftOverPreDecremented(size, words) == size - Word * words - 1    \* mutant: while (--size)
LeftOver(size, words) == size - Word * words

(* The stores of a copy that moves by dir (1 up, -1 down): the aligned words *)
(* of size, then its rest in units of unit bytes.                          *)
Stores(dst, src, size, dir, unit) ==
  LET words == IF Aligned(dst, src) THEN size \div Word ELSE 0
      At(a, i) == IF i <= words THEN a + dir * Word * (i - 1)
                  ELSE a + dir * (Word * words + unit * (i - words - 1)) IN
    [i \in 1..(words + LeftOver(size, words)) |->
       [dst |-> At(dst, i), src |-> At(src, i), len |-> IF i <= words THEN Word ELSE unit,
        word |-> i <= words]]

Covered(st) == st.dst .. st.dst + st.len - 1
Store(m, st) == [a \in DOMAIN m |-> IF a \in Covered(st) THEN m[st.src + a - st.dst] ELSE m[a]]

memcpy(m, dst, src, size) == FoldLeft(Store, m, Stores(dst, src, size, 1, 1))
memcpy_r(m, dst, src, size) == FoldLeft(Store, m, Stores(dst, src, size, -1, 1))
memcpy_16(m, dst, src, size) == FoldLeft(Store, m, Stores(dst, src, size, 1, 2))

(* A unit that reads as zero is stored as def, a sequence of its bytes; a   *)
(* word is stored as it is.                                                *)
StoreDefault(m, st, def) ==
  IF ~st.word /\ \A i \in 0..st.len-1 : m[st.src + i] = 0
    THEN [a \in DOMAIN m |-> IF a \in Covered(st) THEN def[a - st.dst + 1] ELSE m[a]]
    ELSE Store(m, st)
memcpy_def(m, dst, src, def, size) ==
  FoldLeft(LAMBDA mem, st : StoreDefault(mem, st, def), m, Stores(dst, src, size, 1, 1))
memcpy_16_def(m, dst, src, def, size) ==
  FoldLeft(LAMBDA mem, st : StoreDefault(mem, st, def), m, Stores(dst, src, size, 1, 2))

(* The difference of the first two bytes that differ, or 0. *)
memcmp(m, s1, s2, n) ==
  LET differ == {i \in 0..n-1 : m[s1 + i] # m[s2 + i]} IN
    IF differ = {} THEN 0
    ELSE LET i == CHOOSE i \in differ : \A j \in differ : i <= j IN m[s1 + i] - m[s2 + i]

(* hexDump prints perLine bytes on a line, behind the offset of the first, and *)
(* collects their characters in buff, which ends where a NUL was stored last. *)
PerLine(perLine) == IF perLine < 4 \/ perLine > 64 THEN 16 ELSE perLine
EndOfText == -1
Collected(buff) ==
  LET n == CHOOSE n \in DOMAIN buff : buff[n] = EndOfText /\ \A k \in 0..n-1 : buff[k] # EndOfText IN
    [k \in 1..n |-> buff[k - 1]]
Shows(dump, buff) ==
  IF dump = <<>> THEN dump ELSE [dump EXCEPT ![Len(dump)].text = Collected(buff)]
DumpByte(st, i, byte, per) ==
  LET lines == IF i % per # 0 THEN st.lines
               ELSE Append(Shows(st.lines, st.buff), [offset |-> i % 65536, hex |-> <<>>, text |-> <<>>]) IN
    [lines |-> [lines EXCEPT ![Len(lines)].hex = Append(@, byte)],
     buff  |-> [st.buff EXCEPT ![i % per] = byte, ![(i % per) + 1] = EndOfText]]
hexDump(bytes, perLine) ==
  LET per == PerLine(perLine)
      all == FoldLeft(LAMBDA st, i : DumpByte(st, i - 1, bytes[i], per),
                      [lines |-> <<>>, buff |-> [k \in 0..per |-> EndOfText]],
                      [i \in 1..Len(bytes) |-> i]) IN
    Shows(all.lines, all.buff)
==============================================================================
