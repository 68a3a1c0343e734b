---------------------------- MODULE ImgWriteProofs ----------------------------
(***************************************************************************)
(* What imgwrite's "Successfully copied and verified." is worth, for every  *)
(* buffer size and every size of the image.                                 *)
(***************************************************************************)
EXTENDS ImgWrite, SequenceTheorems, TLAPS

(* The device holds the beginning of the image, to some byte.               *)
Begins(s, t) == Len(s) <= Len(t) /\ \A b \in 1..Len(s) : s[b] = t[b]

Types ==
  /\ doing \in {"copy", "verify", "success", "failure"}
  /\ input \in Seq(Nat) /\ output \in Seq(Nat)
  /\ inAt \in Nat /\ outAt \in Nat /\ total_bytes \in Nat /\ total_checked \in Nat
  /\ errors \in Nat

(* The two files are at one position, behind which the device holds the      *)
(* image; only a failing read ends the copying early; what was compared to   *)
(* the image's end is the image.                                           *)
IInv ==
  /\ Types
  /\ Begins(output, input) /\ inAt = outAt /\ inAt <= Len(output)
  /\ errors <= MaxErrors
  /\ doing = "copy" => errors = 0 /\ total_bytes = inAt
  /\ doing = "verify" /\ errors = 0 => Len(output) = Len(input)
  /\ doing = "success" /\ errors <= 1 => Len(output) = Len(input)

------------------------------------------------------------------------------
(* Pieces of files.                                                        *)

(* The bytes m + 1 to n of a file. *)
LEMMA Piece ==
  ASSUME NEW s \in Seq(Nat), NEW m \in Nat, NEW n \in Nat, n <= Len(s)
  PROVE /\ SubSeq(s, m + 1, n) \in Seq(Nat)
        /\ Len(SubSeq(s, m + 1, n)) = IF m < n THEN n - m ELSE 0
        /\ \A x \in 1..(n - m) : SubSeq(s, m + 1, n)[x] = s[m + x]
  <1>1. m + 1 \in Int /\ n \in Int
    OBVIOUS
  <1>2. \A i \in (m + 1)..n : s[i] \in Nat
    <2>1. \A i \in (m + 1)..n : i \in 1..Len(s)
      OBVIOUS
    <2> QED
      BY <2>1, ElementOfSeq
  <1> DEFINE p == SubSeq(s, m + 1, n)
  <1>3. /\ p \in Seq(Nat)
        /\ Len(p) = IF m + 1 <= n THEN n - (m + 1) + 1 ELSE 0
        /\ \A i \in 1..(n - (m + 1) + 1) : p[i] = s[(m + 1) + i - 1]
    BY <1>1, <1>2, SubSeqProperties
  <1> HIDE DEF p
  <1>4. (m + 1 <= n <=> m < n) /\ n - (m + 1) + 1 = n - m
    OBVIOUS
  <1>5. ASSUME NEW x \in 1..(n - m) PROVE p[x] = s[m + x]
    <2>1. (m + 1) + x - 1 = m + x
      OBVIOUS
    <2> QED
      BY <1>3, <1>4, <2>1
  <1>6. Len(p) = IF m < n THEN n - m ELSE 0
    BY <1>3, <1>4
  <1> QED
    BY <1>3, <1>5, <1>6 DEF p

(* fread gives the bytes behind the position, as many as there are. *)
LEMMA FreadGives ==
  ASSUME NEW s \in Seq(Nat), NEW at \in Nat, at <= Len(s), NEW n \in Nat, n > 0
  PROVE \E m \in Nat :
          /\ at <= m /\ m <= Len(s) /\ (m = at => at = Len(s)) /\ (at + n < Len(s) => m = at + n)
          /\ Fread(s, at, n) \in Seq(Nat) /\ Len(Fread(s, at, n)) = m - at
          /\ \A x \in 1..(m - at) : Fread(s, at, n)[x] = s[at + x]
  <1> DEFINE m == IF at + n < Len(s) THEN at + n ELSE Len(s)
  <1>1. Len(s) \in Nat
    BY LenProperties
  <1>2. m \in Nat /\ at <= m /\ m <= Len(s) /\ (m = at => at = Len(s)) /\ (at + n < Len(s) => m = at + n)
    BY <1>1
  <1>3. Fread(s, at, n) = SubSeq(s, at + 1, m)
    BY DEF Fread
  <1> HIDE DEF m
  <1>4. /\ SubSeq(s, at + 1, m) \in Seq(Nat)
        /\ Len(SubSeq(s, at + 1, m)) = IF at < m THEN m - at ELSE 0
        /\ \A x \in 1..(m - at) : SubSeq(s, at + 1, m)[x] = s[at + x]
    BY <1>2, Piece
  <1>5. Len(SubSeq(s, at + 1, m)) = m - at
    BY <1>2, <1>4
  <1> QED
    BY <1>2, <1>3, <1>4, <1>5

(* Two files put together keep their bytes at their places. *)
LEMMA Joined ==
  ASSUME NEW s \in Seq(Nat), NEW t \in Seq(Nat)
  PROVE /\ s \o t \in Seq(Nat) /\ Len(s \o t) = Len(s) + Len(t)
        /\ \A n \in 1..Len(s) : (s \o t)[n] = s[n]
        /\ \A n \in 1..Len(t) : (s \o t)[Len(s) + n] = t[n]
  BY ConcatProperties

(* fwrite of the image's next bytes, on a device that holds its beginning. *)
LEMMA OverBegins ==
  ASSUME NEW s \in Seq(Nat), NEW f \in Seq(Nat), NEW d \in Seq(Nat), NEW at \in Nat,
         at <= Len(f), Begins(f, s), at + Len(d) <= Len(s),
         \A x \in 1..Len(d) : d[x] = s[at + x]
  PROVE LET r == Over(f, at, d) IN
          r \in Seq(Nat) /\ Begins(r, s) /\ Len(r) >= at + Len(d) /\ Len(r) >= Len(f)
  <1> DEFINE F == Len(f)
             D == Len(d)
             a == SubSeq(f, 1, at)
             c == SubSeq(f, at + D + 1, F)
             u == a \o d
             r == u \o c
  <1>1. F \in Nat /\ D \in Nat /\ Len(s) \in Nat /\ F <= Len(s) /\ at + D <= Len(s)
    BY LenProperties DEF Begins
  <1>2. /\ a \in Seq(Nat) /\ Len(a) = at
        /\ \A x \in 1..at : a[x] = f[x]
    <2>1. /\ SubSeq(f, 0 + 1, at) \in Seq(Nat)
          /\ Len(SubSeq(f, 0 + 1, at)) = IF 0 < at THEN at - 0 ELSE 0
          /\ \A x \in 1..(at - 0) : SubSeq(f, 0 + 1, at)[x] = f[0 + x]
      BY Piece
    <2>2. 0 + 1 = 1 /\ (at - 0 = at) /\ (\A x \in 1..at : 0 + x = x) /\ (IF 0 < at THEN at - 0 ELSE 0) = at
      OBVIOUS
    <2> QED
      BY <2>1, <2>2
  <1>3. /\ c \in Seq(Nat) /\ Len(c) = IF at + D < F THEN F - (at + D) ELSE 0
        /\ \A x \in 1..(F - (at + D)) : c[x] = f[(at + D) + x]
    <2>1. at + D \in Nat /\ F <= Len(f)
      BY <1>1
    <2> QED
      BY <1>1, <2>1, Piece
  <1>4. Over(f, at, d) = r
    BY DEF Over
  <1> HIDE DEF F, D, a, c, u, r
  <1>5. /\ u \in Seq(Nat) /\ Len(u) = at + D
        /\ (\A n \in 1..at : u[n] = a[n]) /\ \A n \in 1..D : u[at + n] = d[n]
    BY <1>2, Joined, ZenonT(30) DEF u, D
  <1>6. /\ r \in Seq(Nat) /\ Len(r) = at + D + Len(c)
        /\ (\A n \in 1..(at + D) : r[n] = u[n]) /\ \A n \in 1..Len(c) : r[at + D + n] = c[n]
    <2>1. u \in Seq(Nat) /\ c \in Seq(Nat)
      BY <1>3, <1>5
    <2>2. /\ u \o c \in Seq(Nat) /\ Len(u \o c) = Len(u) + Len(c)
          /\ (\A n \in 1..Len(u) : (u \o c)[n] = u[n]) /\ \A n \in 1..Len(c) : (u \o c)[Len(u) + n] = c[n]
      BY <2>1, Joined
    <2> QED
      BY <1>5, <2>2, Zenon DEF r
  <1>7. Len(c) = (IF at + D < F THEN F - (at + D) ELSE 0) /\ Len(r) = at + D + Len(c) /\ at <= F
    BY <1>3, <1>6 DEF F
  <1>8. Len(r) <= Len(s) /\ Len(r) >= at + D /\ Len(r) >= F
    BY <1>1, <1>7, SMTT(30)
  <1>9. ASSUME NEW n \in 1..Len(r) PROVE r[n] = s[n]
    <2>0. \A b \in 1..F : f[b] = s[b]
      BY DEF Begins, F
    <2>1. CASE n <= at
      <3>1. n \in 1..at /\ n \in 1..(at + D) /\ n \in 1..F
        BY <1>1, <1>7, <2>1
      <3> QED
        BY <1>2, <1>5, <1>6, <2>0, <3>1, Zenon
    <2>2. CASE at < n /\ n <= at + D
      <3>1. PICK x \in 1..D : n = at + x
        <4>1. n - at \in 1..D /\ n = at + (n - at)
          BY <1>1, <2>2
        <4> QED
          BY <4>1
      <3>2. n \in 1..(at + D)
        BY <1>1, <2>2
      <3>3. r[n] = d[x]
        BY <1>5, <1>6, <3>1, <3>2, Zenon
      <3>4. d[x] = s[at + x]
        BY <3>1 DEF D
      <3> QED
        BY <3>1, <3>3, <3>4, Zenon
    <2>3. CASE at + D < n
      <3>1. PICK x \in 1..Len(c) : n = at + D + x
        <4>1. n - (at + D) \in 1..Len(c) /\ n = at + D + (n - (at + D))
          BY <1>1, <1>7, <2>3
        <4> QED
          BY <4>1
      <3>2. x \in 1..(F - (at + D)) /\ (at + D) + x = n /\ n \in 1..F
        BY <1>1, <1>7, <3>1
      <3>3. r[n] = c[x]
        BY <1>6, <3>1, Zenon
      <3>4. c[x] = f[n]
        BY <1>3, <3>2, Zenon
      <3> QED
        BY <2>0, <3>2, <3>3, <3>4, Zenon
    <2> QED
      BY <1>1, <2>1, <2>2, <2>3
  <1> QED
    BY <1>4, <1>6, <1>8, <1>9 DEF Begins, F, D

------------------------------------------------------------------------------
(* The steps.                                                              *)

(* A chunk fetched for the device is what the image has behind the position. *)
LEMMA FetchedGives ==
  ASSUME IInv
  PROVE /\ Fetched \in Seq(Nat) /\ inAt + Len(Fetched) <= Len(input)
        /\ \A x \in 1..Len(Fetched) : Fetched[x] = input[inAt + x]
        /\ Fetched = <<>> => inAt = Len(input)
  <1>1. /\ input \in Seq(Nat) /\ inAt \in Nat /\ Len(output) \in Nat /\ Len(input) \in Nat
        /\ inAt <= Len(output) /\ Len(output) <= Len(input)
    BY LenProperties DEF IInv, Types, Begins
  <1>2. inAt <= Len(input) /\ MAXBUF - 1 \in Nat /\ MAXBUF - 1 > 0
    BY <1>1, ImgWriteAssumption
  <1>3. PICK m \in Nat :
          /\ inAt <= m /\ m <= Len(input) /\ (m = inAt => inAt = Len(input))
          /\ Fetched \in Seq(Nat) /\ Len(Fetched) = m - inAt
          /\ \A x \in 1..(m - inAt) : Fetched[x] = input[inAt + x]
    <2>1. /\ input \in Seq(Nat) /\ inAt \in Nat /\ inAt <= Len(input)
          /\ MAXBUF - 1 \in Nat /\ MAXBUF - 1 > 0
      BY <1>1, <1>2
    <2> QED
      BY <2>1, FreadGives, ZenonT(30) DEF Fetched
  <1>4. Fetched = <<>> => Len(Fetched) = 0
    BY EmptySeq
  <1>5. inAt + Len(Fetched) <= Len(input) /\ (Len(Fetched) = 0 => m = inAt)
    BY <1>1, <1>3
  <1> QED
    BY <1>3, <1>4, <1>5, Zenon

(* A chunk written as a whole. *)
LEMMA WholeStep == IInv /\ CopyWhole => IInv'
  <1> SUFFICES ASSUME IInv, CopyWhole PROVE IInv'
    OBVIOUS
  <1> DEFINE d == Fetched
  <1>1. /\ d \in Seq(Nat) /\ inAt + Len(d) <= Len(input)
        /\ \A x \in 1..Len(d) : d[x] = input[inAt + x]
    BY FetchedGives
  <1>2. /\ doing = "copy" /\ output' = Over(output, outAt, d)
        /\ inAt' = inAt + Len(d) /\ outAt' = outAt + Len(d) /\ total_bytes' = total_bytes + Len(d)
        /\ UNCHANGED <<doing, input, total_checked, errors>>
    BY DEF CopyWhole
  <1> HIDE DEF d
  <1>3. /\ input \in Seq(Nat) /\ output \in Seq(Nat) /\ inAt \in Nat /\ outAt = inAt
        /\ inAt <= Len(output) /\ Begins(output, input)
    BY DEF IInv, Types
  <1>4. /\ output' \in Seq(Nat) /\ Begins(output', input) /\ Len(output') >= inAt + Len(d)
    BY <1>1, <1>2, <1>3, OverBegins
  <1>5. Len(d) \in Nat /\ inAt + Len(d) \in Nat /\ errors = 0 /\ total_bytes = inAt /\ errors <= MaxErrors
    BY <1>1, <1>2, <1>3, LenProperties DEF IInv
  <1>6. inAt' = outAt' /\ inAt' \in Nat /\ total_bytes' = inAt' /\ errors' = 0
    BY <1>2, <1>3, <1>5
  <1>7. inAt' <= Len(output')
    <2>1. Len(output') \in Nat
      BY <1>4, LenProperties
    <2> QED
      BY <1>2, <1>3, <1>4, <1>5, <2>1
  <1>8. Types'
    BY <1>2, <1>4, <1>6 DEF IInv, Types
  <1>9. doing' = "copy" /\ errors' <= MaxErrors /\ Begins(output', input')
    BY <1>2, <1>4, <1>5
  <1> QED
    BY <1>6, <1>7, <1>8, <1>9 DEF IInv

(* A chunk whose write stays short: both files go back. *)
LEMMA ShortStep == IInv /\ CopyShort => IInv'
  <1> SUFFICES ASSUME IInv, CopyShort PROVE IInv'
    OBVIOUS
  <1>1. /\ Fetched \in Seq(Nat) /\ inAt + Len(Fetched) <= Len(input)
        /\ \A x \in 1..Len(Fetched) : Fetched[x] = input[inAt + x]
    BY FetchedGives
  <1>2. PICK n \in 0..Len(Fetched) - 1 : output' = Over(output, outAt, SubSeq(Fetched, 1, n))
    BY DEF CopyShort
  <1>3. /\ doing = "copy" /\ inAt' = inAt /\ outAt' = outAt
        /\ UNCHANGED <<doing, input, total_bytes, total_checked, errors>>
    BY DEF CopyShort, Back
  <1>4. /\ input \in Seq(Nat) /\ output \in Seq(Nat) /\ inAt \in Nat /\ outAt = inAt
        /\ inAt <= Len(output) /\ Begins(output, input)
    BY DEF IInv, Types
  <1> DEFINE d == SubSeq(Fetched, 1, n)
  <1>5. /\ d \in Seq(Nat) /\ Len(d) = n
        /\ \A x \in 1..n : d[x] = Fetched[x]
    <2>1. n \in Nat /\ n <= Len(Fetched) /\ 0 \in Nat
      BY <1>1, LenProperties
    <2>2. /\ SubSeq(Fetched, 0 + 1, n) \in Seq(Nat)
          /\ Len(SubSeq(Fetched, 0 + 1, n)) = IF 0 < n THEN n - 0 ELSE 0
          /\ \A x \in 1..(n - 0) : SubSeq(Fetched, 0 + 1, n)[x] = Fetched[0 + x]
      BY <1>1, <2>1, Piece
    <2>3. 0 + 1 = 1 /\ n - 0 = n /\ (\A x \in 1..n : 0 + x = x) /\ (IF 0 < n THEN n - 0 ELSE 0) = n
      BY <2>1
    <2> QED
      BY <2>2, <2>3
  <1> HIDE DEF d
  <1>6. inAt + Len(d) <= Len(input) /\ \A x \in 1..Len(d) : d[x] = input[inAt + x]
    <2>1. n \in Nat /\ n <= Len(Fetched) /\ Len(Fetched) \in Nat /\ Len(input) \in Nat
      BY <1>1, <1>4, LenProperties
    <2>2. inAt + n <= Len(input) /\ \A x \in 1..n : x \in 1..Len(Fetched)
      BY <1>1, <1>4, <2>1, SMTT(30)
    <2> QED
      BY <1>1, <1>5, <2>2
  <1>7. /\ output' \in Seq(Nat) /\ Begins(output', input) /\ Len(output') >= Len(output)
    BY <1>2, <1>4, <1>5, <1>6, OverBegins DEF d
  <1>8. inAt' <= Len(output')
    <2>1. Len(output') \in Nat /\ Len(output) \in Nat
      BY <1>4, <1>7, LenProperties
    <2> QED
      BY <1>3, <1>4, <1>7, <2>1
  <1>9. Types'
    BY <1>3, <1>7 DEF IInv, Types
  <1>10. inAt' = outAt' /\ Begins(output', input')
    BY <1>3, <1>4, <1>7
  <1>11. doing' = "copy" /\ errors' <= MaxErrors /\ errors' = 0 /\ total_bytes' = inAt'
    BY <1>3 DEF IInv
  <1> QED
    BY <1>8, <1>9, <1>10, <1>11 DEF IInv

(* The copying ends at the image's end. *)
LEMMA EndsStep == IInv /\ CopyEnds => IInv'
  <1> SUFFICES ASSUME IInv, CopyEnds PROVE IInv'
    OBVIOUS
  <1>1. /\ inAt = Len(input) /\ doing' = "verify" /\ inAt' = 0 /\ outAt' = 0
        /\ UNCHANGED <<input, output, total_bytes, total_checked, errors>>
    BY FetchedGives DEF CopyEnds
  <1>2. Len(output) \in Nat /\ Len(input) \in Nat /\ inAt <= Len(output) /\ Len(output) <= Len(input)
    BY LenProperties DEF IInv, Types, Begins
  <1>3. Len(output) = Len(input) /\ 0 <= Len(output)
    BY <1>1, <1>2
  <1>4. Types'
    BY <1>1 DEF IInv, Types
  <1> QED
    BY <1>1, <1>3, <1>4 DEF IInv

(* Two chunks of one length are equal, and the image's end is reached only    *)
(* with the whole image on the device.                                     *)
LEMMA VerifyStep == IInv /\ Verify => IInv'
  <1> SUFFICES ASSUME IInv, Verify PROVE IInv'
    OBVIOUS
  <1> DEFINE read == Fread(input, inAt, MAXBUF)
             written == Fread(output, outAt, MAXBUF)
  <1>1. /\ input \in Seq(Nat) /\ output \in Seq(Nat) /\ inAt \in Nat /\ outAt = inAt
        /\ Len(output) \in Nat /\ Len(input) \in Nat
        /\ inAt <= Len(output) /\ Len(output) <= Len(input)
        /\ \A b \in 1..Len(output) : output[b] = input[b]
    BY LenProperties DEF IInv, Types, Begins
  <1>2. inAt <= Len(input) /\ MAXBUF \in Nat /\ MAXBUF > 0
    BY <1>1, ImgWriteAssumption
  <1>3. PICK m \in Nat :
          /\ inAt <= m /\ m <= Len(input) /\ (m = inAt => inAt = Len(input))
          /\ read \in Seq(Nat) /\ Len(read) = m - inAt
          /\ \A x \in 1..(m - inAt) : read[x] = input[inAt + x]
    <2>1. input \in Seq(Nat) /\ inAt \in Nat /\ inAt <= Len(input) /\ MAXBUF \in Nat /\ MAXBUF > 0
      BY <1>1, <1>2
    <2> QED
      BY <2>1, FreadGives, Zenon
  <1>4. PICK w \in Nat :
          /\ inAt <= w /\ w <= Len(output)
          /\ written \in Seq(Nat) /\ Len(written) = w - inAt
          /\ \A x \in 1..(w - inAt) : written[x] = output[inAt + x]
    <2>1. output \in Seq(Nat) /\ inAt \in Nat /\ inAt <= Len(output) /\ MAXBUF \in Nat /\ MAXBUF > 0
      BY <1>1, <1>2
    <2>2. written = Fread(output, inAt, MAXBUF)
      BY <1>1
    <2>3. \E w \in Nat :
            /\ inAt <= w /\ w <= Len(output)
            /\ Fread(output, inAt, MAXBUF) \in Seq(Nat) /\ Len(Fread(output, inAt, MAXBUF)) = w - inAt
            /\ \A x \in 1..(w - inAt) : Fread(output, inAt, MAXBUF)[x] = output[inAt + x]
      BY <2>1, FreadGives, ZenonT(30)
    <2> HIDE DEF written
    <2> QED
      BY <2>2, <2>3, Zenon
  <1>5. /\ doing = "verify"
        /\ IF NoneLeft(read) \/ (Len(read) = Len(written) /\ read # written)
             THEN doing' = Result /\ UNCHANGED <<inAt, outAt, total_checked>>
           ELSE IF Len(read) # Len(written) THEN UNCHANGED <<doing, inAt, outAt, total_checked>>
           ELSE /\ total_checked' = total_checked + Len(read)
                /\ inAt' = inAt + Len(read) /\ outAt' = outAt + Len(read)
                /\ UNCHANGED doing
        /\ UNCHANGED <<input, output, total_bytes, errors>>
    BY DEF Verify
  <1> HIDE DEF read, written
  <1>6. Len(read) = Len(written) => read = written
    <2> SUFFICES ASSUME Len(read) = Len(written) PROVE read = written
      OBVIOUS
    <2>4. \A a, b \in Nat, c \in Nat : a - c = b - c => a = b
      OBVIOUS
    <2>1. m = w
      <3>1. m - inAt = w - inAt /\ inAt \in Nat
        BY <1>1, <1>3, <1>4, Zenon
      <3> QED
        BY <2>4, <3>1, Zenon
    <2>5. \A a, b, c \in Nat : a <= b /\ b <= c => \A x \in 1..(b - a) : a + x \in 1..c
      OBVIOUS
    <2>2. ASSUME NEW x \in 1..(m - inAt) PROVE read[x] = written[x]
      <3>1. inAt + x \in 1..Len(output)
        BY <1>1, <1>4, <2>1, <2>5, Zenon
      <3> QED
        BY <1>1, <1>3, <1>4, <2>1, <3>1
    <2>3. \A x \in 1..Len(read) : read[x] = written[x]
      BY <1>3, <2>2
    <2> QED
      BY <1>3, <1>4, <2>3, SeqEqual
  <1>7. CASE NoneLeft(read)
    <2>1. Len(read) = 0
      BY <1>7, EmptySeq DEF NoneLeft
    <2>2. Len(output) = Len(input)
      BY <1>1, <1>3, <2>1
    <2>3. doing' = Result /\ UNCHANGED <<inAt, outAt, total_checked, input, output, total_bytes, errors>>
      BY <1>5, <1>7
    <2>4. doing' \in {"success", "failure"}
      BY <2>3 DEF Result
    <2>5. Types'
      BY <2>3, <2>4 DEF IInv, Types
    <2> QED
      BY <2>2, <2>3, <2>4, <2>5 DEF IInv, Begins
  <1>8. CASE ~NoneLeft(read) /\ Len(read) # Len(written)
    <2>1. UNCHANGED writeVars
      BY <1>5, <1>8 DEF writeVars
    <2> QED
      BY <2>1 DEF writeVars, IInv, Types, Begins
  <1>9. CASE ~NoneLeft(read) /\ Len(read) = Len(written)
    <2>1. /\ total_checked' = total_checked + Len(read)
          /\ inAt' = inAt + Len(read) /\ outAt' = outAt + Len(read)
          /\ UNCHANGED <<doing, input, output, total_bytes, errors>>
      BY <1>5, <1>6, <1>9, Zenon
    <2>2. inAt + Len(read) \in Nat /\ inAt + Len(read) <= Len(output) /\ Len(read) \in Nat
      BY <1>1, <1>3, <1>4, <1>9
    <2>3. total_checked' \in Nat
      <3>1. total_checked \in Nat
        BY DEF IInv, Types
      <3> QED
        BY <2>1, <2>2, <3>1
    <2>4. inAt' \in Nat /\ outAt' = inAt' /\ inAt' <= Len(output')
      BY <1>1, <2>1, <2>2, Zenon
    <2>5. Types'
      BY <2>1, <2>3, <2>4 DEF IInv, Types
    <2> QED
      BY <1>5, <2>1, <2>4, <2>5 DEF IInv, Begins
  <1> QED
    BY <1>7, <1>8, <1>9

(* A read that fails: it ends the copying early, or a comparison; the first    *)
(* one cannot do both.                                                     *)
LEMMA ErrorStep == IInv /\ ReadError => IInv'
  <1> SUFFICES ASSUME IInv, ReadError PROVE IInv'
    OBVIOUS
  <1>1. errors \in Nat /\ MaxErrors \in Nat /\ errors < MaxErrors /\ errors' = errors + 1
    BY ImgWriteAssumption DEF ReadError, IInv, Types
  <1>2. /\ errors' \in Nat /\ errors' <= MaxErrors /\ errors' # 0
        /\ errors' <= 1 => errors = 0
    BY <1>1
  <1>3. UNCHANGED <<input, output, total_bytes, total_checked>>
    BY DEF ReadError
  <1>4. CASE doing = "copy" /\ doing' = "verify" /\ inAt' = 0 /\ outAt' = 0
    <2>1. Len(output) \in Nat
      BY LenProperties DEF IInv, Types
    <2>2. 0 <= Len(output) /\ 0 \in Nat
      BY <2>1
    <2>3. Types'
      BY <1>2, <1>3, <1>4, <2>2 DEF IInv, Types
    <2> QED
      BY <1>2, <1>3, <1>4, <2>2, <2>3 DEF IInv, Begins
  <1>5. CASE doing = "verify" /\ doing' = Result /\ UNCHANGED <<inAt, outAt>>
    <2>1. errors' <= 1 => Len(output) = Len(input)
      BY <1>2, <1>5 DEF IInv
    <2>2. doing' \in {"success", "failure"}
      BY <1>5 DEF Result
    <2>3. Types'
      BY <1>2, <1>3, <1>5, <2>2 DEF IInv, Types
    <2> QED
      BY <1>2, <1>3, <1>5, <2>1, <2>2, <2>3 DEF IInv, Begins
  <1> QED
    BY <1>4, <1>5 DEF ReadError

------------------------------------------------------------------------------
(* The inductive invariant holds in every reachable state. *)
THEOREM Invariant == WriteSpec => []IInv
  <1>1. WriteInit => IInv
    <2> SUFFICES ASSUME WriteInit PROVE IInv
      OBVIOUS
    <2>1. PICK n \in Sizes : input = [b \in 1..n |-> b]
      BY DEF WriteInit
    <2>2. n \in Nat
      BY ImgWriteAssumption
    <2>3. input \in Seq(Nat) /\ Len(input) = n
      BY <2>1, <2>2
    <2>4. /\ doing = "copy" /\ output = <<>> /\ inAt = 0 /\ outAt = 0 /\ total_bytes = 0 /\ total_checked = 0
          /\ errors = 0
      BY DEF WriteInit
    <2>5. output \in Seq(Nat) /\ Len(output) = 0
      BY <2>4
    <2>6. Begins(output, input)
      BY <2>2, <2>3, <2>5 DEF Begins
    <2>7. Types
      BY <2>3, <2>4, <2>5 DEF Types
    <2>8. errors <= MaxErrors
      BY <2>4, ImgWriteAssumption
    <2> QED
      BY <2>4, <2>5, <2>6, <2>7, <2>8 DEF IInv
  <1>2. IInv /\ [WriteNext]_writeVars => IInv'
    <2>1. IInv /\ UNCHANGED writeVars => IInv'
      BY DEF writeVars, IInv, Types, Begins
    <2> QED
      BY <2>1, WholeStep, ShortStep, EndsStep, VerifyStep, ErrorStep DEF WriteNext, WriteRuns
  <1> QED
    BY <1>1, <1>2, PTL DEF WriteSpec

(* imgwrite says "Successfully copied and verified." only of a device that     *)
(* holds the image, however often a write stays short, unless two reads      *)
(* failed: the second may end a comparison of what the first left short.     *)
THEOREM CopiedUnlessTwoFail == WriteSpec => [](errors <= 1 => SuccessMeansCopied)
  <1>1. IInv => (errors <= 1 => SuccessMeansCopied)
    <2> SUFFICES ASSUME IInv, doing = "success", errors <= 1 PROVE output = input
      BY DEF SuccessMeansCopied
    <2>1. /\ output \in Seq(Nat) /\ input \in Seq(Nat) /\ Len(output) = Len(input)
          /\ \A b \in 1..Len(output) : output[b] = input[b]
      BY DEF IInv, Types, Begins
    <2> QED
      BY <2>1, SeqEqual
  <1> QED
    BY <1>1, Invariant, PTL

(* So the message is true on a drive that fails to read once at most. *)
THEOREM Copied ==
  ASSUME MaxErrors <= 1
  PROVE WriteSpec => []SuccessMeansCopied
  <1>1. IInv => errors <= 1
    <2> SUFFICES ASSUME IInv PROVE errors <= 1
      OBVIOUS
    <2>1. errors \in Nat /\ MaxErrors \in Nat /\ errors <= MaxErrors
      BY ImgWriteAssumption DEF IInv, Types
    <2> QED
      BY <2>1
  <1> QED
    BY <1>1, Invariant, CopiedUnlessTwoFail, PTL
==============================================================================
