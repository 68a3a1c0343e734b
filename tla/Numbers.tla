------------------------------- MODULE Numbers --------------------------------
(***************************************************************************)
(* Numbers to text and back: ultoa, ltoa, itoa_s2, u64toa and atoi of      *)
(* kernel/common/helper.c and kstr_toupper of kstring.c.                   *)
(*                                                                         *)
(* Text is a sequence of characters.  itoa_s2 moves characters inside its  *)
(* buffer with memcpy_r, so there the text is memory that starts at Str.   *)
(***************************************************************************)
EXTENDS MemUtils

CONSTANTS UINT,       \* values of an unsigned int and of an unsigned long (2^32)
          Str         \* address of the buffer of 32 characters a number is built in

ASSUME NumbersAssumption == UINT \in Nat \ {0, 1} /\ Str \in Nat

NUL == "nul"
Numerals == <<"0", "1", "2", "3", "4", "5", "6", "7", "8", "9", "a", "b", "c", "d", "e", "f">>
Capitals == <<"0", "1", "2", "3", "4", "5", "6", "7", "8", "9", "A", "B", "C", "D", "E", "F">>
Decimal == {Numerals[i] : i \in 1..10}
ValueOf(c) == (CHOOSE i \in 1..16 : Numerals[i] = c) - 1

(* ultoa and u64toa: the digits of a number, most significant first. *)
ultoa(value, radix) ==
  LET text[v \in 0..value] ==
        IF v < radix THEN <<Numerals[v + 1]>>
                     ELSE Append(text[v \div radix], Numerals[(v % radix) + 1]) IN text[value]

(* ltoa: a sign in base ten only; what it returns does not count the sign.  *)
ltoa(value, radix) ==
  IF value < 0 /\ radix = 10 THEN <<"-">> \o ultoa(-value, radix) ELSE ultoa(value % UINT, radix)
Written(value, radix) ==
  Len(IF value < 0 /\ radix = 10 THEN ultoa(-value, radix) ELSE ultoa(value % UINT, radix))

BufferSize == 32
InBuffer(text) == [a \in Str .. Str + BufferSize - 1 |->
                     IF a - Str < Len(text) THEN text[a - Str + 1] ELSE NUL]
Text(m) == LET n == CHOOSE n \in 0..BufferSize :
                      m[Str + n] = NUL /\ \A i \in 0..n-1 : m[Str + i] # NUL
           IN [i \in 1..n |-> m[Str + i - 1]]

(* itoa_s2: the written characters that end at the last digit are moved up,  *)
(* the gap filled with lead and the text ended after the count.            *)
itoa_s2(value, radix, lead, count) ==
  LET text == ltoa(value, radix)
      w == Written(value, radix)
      gap == count - w
      moved == memcpy_r(InBuffer(text), Str + w - 1 + gap, Str + w - 1, w) IN
    IF w < count /\ w < BufferSize - 1
      THEN Text([a \in DOMAIN moved |-> IF a - Str < gap THEN lead
                                        ELSE IF a - Str = w + gap THEN NUL ELSE moved[a]])
      ELSE text

kstr_toupper(text) ==
  [i \in 1..Len(text) |-> IF \E d \in 11..16 : text[i] = Numerals[d]
                            THEN Capitals[ValueOf(text[i]) + 1] ELSE text[i]]

(* atoi of a text that is all digits. *)
atoi(text) == FoldLeft(LAMBDA num, c : num * 10 + ValueOf(c), 0, text)
==============================================================================
