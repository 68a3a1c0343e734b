--------------------------------- MODULE Bytes ---------------------------------
(***************************************************************************)
(* The bit operations of kernel/common/bitwise.c, the checksums of         *)
(* checksum.c and the fills of memory/memutils.c, each against what it is   *)
(* for, as is the dump of MemUtils.                                        *)
(*                                                                         *)
(* A bool array is a function from bit positions; a call is one record of  *)
(* arguments, and the properties hold of every call in Inputs.             *)
(***************************************************************************)
EXTENDS MemUtils, FiniteSets, Bitwise

CONSTANTS Inputs,     \* the arguments tried
          Bits        \* bits of a byte (8)

ASSUME BytesAssumption == Bits \in Nat \ {0}

VARIABLE input        \* the arguments of the call at hand

------------------------------------------------------------------------------
(* Bits *)

Bit(value, n) == (value \div 2 ^ n) % 2
uint8_t_getbit(value, bitPos) == Bit(value, bitPos)
uint8_t_setbit(value, bitPos, bitVal) == value + ((bitVal - Bit(value, bitPos)) * 2 ^ bitPos)
uint8_t_tobin(in) == [n \in 0..Bits-1 |-> Bit(in, n)]

(* binary_sum adds a byte to an array of size1 bits in place: a byte's worth of *)
(* positions, and on while there is a carry, past the end of the array if   *)
(* need be (where it reads 0 and writes what is not the caller's).          *)
BitAt(bin, size, i) == IF i < size THEN bin[i] ELSE 0
CarryDropped(bin1, size1, bin2) == [i \in Nat |-> 0]                 \* mutant: no carry
Carries(bin1, size1, bin2) ==
  LET carry[i \in Nat] ==
        IF i = 0 THEN 0
        ELSE (BitAt(bin1, size1, i - 1) + BitAt(bin2, Bits, i - 1) + carry[i - 1]) \div 2 IN carry

Summed(bin1, size1, bin2) ==          \* how many positions the loop writes
  CHOOSE n \in Bits .. size1 + 1 :
    LET carry == Carries(bin1, size1, bin2) IN
      carry[n] = 0 /\ \A i \in Bits .. n-1 : carry[i] > 0
binary_sum(bin1, size1, bin2) ==
  LET n == Summed(bin1, size1, bin2)
      carry == Carries(bin1, size1, bin2) IN
    [i \in DOMAIN bin1 \cup 0..n-1 |->
       IF i < n THEN (BitAt(bin1, size1, i) + BitAt(bin2, Bits, i) + carry[i]) % 2 ELSE bin1[i]]
binary_sum_uint8_t_array(sumBuffer, buffSize, arr) ==
  FoldLeft(LAMBDA sum, byte : binary_sum(sum, buffSize, uint8_t_tobin(byte)), sumBuffer, arr)

bin_to_string(bin, binSize) ==
  [i \in 1..binSize |-> IF bin[binSize - i] = 1 THEN "1" ELSE "0"]

ValueOfBits(bin, size) ==
  FoldLeft(LAMBDA v, i : v + bin[i - 1] * 2 ^ (i - 1), 0, [i \in 1..size |-> i])

------------------------------------------------------------------------------
(* Checksums: the bytes whose index is not on a list. *)

SumOf(buffer, ignored) ==
  FoldLeft(LAMBDA sum, i : IF (i - 1) \in ignored THEN sum ELSE sum + buffer[i], 0,
           [i \in 1..Len(buffer) |-> i])
checksum_8bit(buffer, ignored) == 255 - (SumOf(buffer, ignored) % 256)
FromOne(buffer, ignored) == SumOf(buffer, {i - 1 : i \in ignored}) % 256   \* mutant: counts from 1
checksum_8bit_mod256(buffer, ignored) == SumOf(buffer, ignored) % 256

------------------------------------------------------------------------------
(* Fills *)

(* memset: bytes take the low byte of val, aligned words the or of val and of *)
(* val shifted left by one, two and three bytes.                           *)
Byte(v) == v % 256
WordByte(val, i) == FoldLeft(LAMBDA w, k : w | Byte(val \div 256 ^ k), 0, [k \in 1..i+1 |-> k - 1])
memset(m, dst, val, size) ==
  LET words == IF dst % Word = 0 THEN Word * (size \div Word) ELSE 0 IN
    [a \in DOMAIN m |-> IF a \in dst .. dst + words - 1 THEN WordByte(val, (a - dst) % Word)
                        ELSE IF a \in dst + words .. dst + size - 1 THEN Byte(val) ELSE m[a]]
memsetw(m, dst, val, len) ==
  [a \in DOMAIN m |-> IF a \in dst .. dst + len - 1 THEN Byte(val) ELSE m[a]]

------------------------------------------------------------------------------
Addresses == [a \in 0..input.top |-> a]          \* every byte holds its own address

(* memset gives every byte the low byte of its value, unless that is no byte and *)
(* it stores words.  A dump shows every byte once, in hex and as text, on the  *)
(* line of its offset.                                                     *)
FillsAndDumps ==
  input.kind = "fill" =>
    LET d == input.dst  n == input.size IN
      /\ \A val \in {5, 512 + 5} :
           \A a \in d .. d + n - 1 :
             memset(Addresses, d, val, n)[a] = 5 <=> val < 256 \/ n < Word \/ d % Word # 0
                                                 \/ (a - d) % Word = 0 \/ a - d >= n - (n % Word)
      /\ \A perLine \in {3, 4} :
           LET bytes == SubSeq([a \in 1..input.top |-> a], d, d + n - 1)
               per == IF perLine = 3 THEN 16 ELSE perLine
               dump == hexDump(bytes, perLine) IN
             /\ Len(dump) = (n + per - 1) \div per
             /\ \A l \in 1..Len(dump) :
                  LET shown == SubSeq(bytes, per * (l - 1) + 1, IF per * l < n THEN per * l ELSE n) IN
                    dump[l] = [offset |-> per * (l - 1), hex |-> shown, text |-> shown]

(* Adding bytes one after the other in binary gives their sum, as long as the *)
(* array has room for it; if it has not, bits are written past its end.  A   *)
(* checksum tells apart two buffers that differ in one byte, unless it is an *)
(* ignored one, and both checksums are two views of one sum.                *)
SumsAddUp ==
  input.kind = "sum" =>
    LET zero == [i \in 0..input.width-1 |-> 0]
        sum == binary_sum_uint8_t_array(zero, input.width, input.bytes)
        total == SumOf(input.bytes, {}) IN
      /\ total < 2 ^ input.width => ValueOfBits(sum, input.width) = total
      /\ DOMAIN sum = DOMAIN zero <=> total < 2 ^ input.width
      /\ \A i \in 1..Len(input.bytes), v \in 0..2 ^ Bits - 1, ignored \in SUBSET {0, 2} :
           LET other == [input.bytes EXCEPT ![i] = v]
               mod256(b) == checksum_8bit_mod256(b, ignored) IN
             /\ mod256(other) = mod256(input.bytes) <=> (v = input.bytes[i] \/ (i - 1) \in ignored)
             /\ checksum_8bit(other, ignored) + mod256(other) = 255

(* The helpers on bytes do what their names say, with the exceptions named.     *)
BytesAddUp == FillsAndDumps /\ SumsAddUp

BytesInit == input \in Inputs
==============================================================================
