----------------------------- MODULE LibraryProofs -----------------------------
(***************************************************************************)
(* The search for the ACPI tables, for every area, every signature, every  *)
(* content of the uninitialised window and every root table; the names of   *)
(* files, for every name and every memory behind it; and the copies, for   *)
(* every address and every size.                                           *)
(***************************************************************************)
EXTENDS Acpi, Names, Copies, SequenceTheorems, NaturalsInduction, WellFoundedInduction, TLAPS

L == Len(RSDP_SIG)

(* The window holds the bytes before address j, as far as they are the area's. *)
At(j, k) == j - L + k - 1
Window(w, j) ==
  /\ w \in Seq(0..255) /\ Len(w) = L
  /\ \A k \in 1..L : At(j, k) >= Begin => w[k] = area[At(j, k)]

(* A place of the area that holds the signature. *)
Real(a) == a \in Begin..End /\ Inside(a) /\ Fits(a)

(* While it scans, the search has passed the end of no such place. *)
Scanning == phase = "scan" =>
  /\ i \in Begin..End /\ Window(currentSignature, i) /\ rsdpAddress = 0 /\ report = <<>>
  /\ \A a \in Begin..End : Real(a) => a + L - 1 >= i

(* What it goes on with fits, and no real one is before it. *)
Found ==
  phase \in {"descriptor", "root", "entries"} \/ (phase = "done" /\ report # <<"RSDP_missing">>) =>
    /\ rsdpAddress \in Int /\ Fits(rsdpAddress) /\ rsdpAddress + L - 1 < End
    /\ \A a \in Begin..End : Real(a) => rsdpAddress <= a

(* It only gives up where there is none. *)
Missing == phase = "done" /\ report = <<"RSDP_missing">> =>
  rsdpAddress = 0 /\ \A a \in Begin..End : ~Real(a)

(* The report of a root table that was found begins with that.             *)
Reported == phase = "entries" => \E S : report \in Seq(S) /\ report # <<>> /\ report[1] = "RSDT_found"

Types == /\ phase \in {"scan", "descriptor", "root", "entries", "done"}
         /\ area \in [Begin..End -> 0..255]

(* What is dumped before the entry in turn, from the root table's first on. *)
Listing ==
  /\ root \in RootTables
  /\ phase \in {"scan", "descriptor", "root"} => entry = 0
  /\ phase = "entries" => entry \in 0..Entries /\ Dumped(entry)
  /\ FadtsDumped

Searched == Types /\ Scanning /\ Found /\ Missing /\ Reported
IInv == Searched /\ Listing

------------------------------------------------------------------------------
(* Comparing strings.                                                      *)

(* Every set of natural numbers that is not empty has a least element. *)
LEMMA Least ==
  ASSUME NEW T \in SUBSET Nat, T # {}
  PROVE \E x \in T : \A y \in T : x <= y
  <1>1. PICK x \in T : \A y \in T : ~(<<y, x>> \in OpToRel(<, Nat))
    BY NatLessThanWellFounded, WFMin
  <1>2. ASSUME NEW y \in T PROVE x <= y
    <2>1. x \in Nat /\ y \in Nat
      OBVIOUS
    <2>2. ~(y < x)
      BY <1>1, <2>1 DEF OpToRel
    <2> QED
      BY <2>1, <2>2
  <1> QED
    BY <1>2

(* kstrcmp stops somewhere: at the end of the first string if not before. *)
LEMMA Stopping ==
  ASSUME NEW s \in Seq(0..255), NEW t
  PROVE LET n == FirstStop(s, t) IN
          n \in 0..Len(s) /\ Stops(s, t, n) /\ \A k \in 0..(n - 1) : ~Stops(s, t, k)
  <1> DEFINE T == {n \in 0..Len(s) : Stops(s, t, n)}
  <1>1. Len(s) \in Nat
    BY LenProperties
  <1>2. Len(s) \in T
    <2>1. CharAt(s, Len(s)) = NULByte
      BY <1>1 DEF CharAt
    <2>2. Len(s) \in 0..Len(s)
      BY <1>1
    <2> QED
      BY <2>1, <2>2 DEF Stops
  <1>3. T \in SUBSET Nat
    BY <1>1
  <1> HIDE DEF T
  <1>4. PICK x \in T : \A y \in T : x <= y
    BY <1>2, <1>3, Least
  <1>5. x \in 0..Len(s) /\ Stops(s, t, x)
    BY DEF T
  <1>6. ASSUME NEW k \in 0..(x - 1) PROVE ~Stops(s, t, k)
    <2>1. k \in 0..Len(s) /\ ~(x <= k)
      BY <1>1, <1>5
    <2> QED
      BY <1>4, <2>1 DEF T
  <1>7. \E n \in 0..Len(s) : Stops(s, t, n) /\ \A k \in 0..(n - 1) : ~Stops(s, t, k)
    BY <1>5, <1>6
  <1> QED
    BY <1>7 DEF FirstStop

(* kstrcmp of two strings of one length tells whether they are the same, when *)
(* the second has no NUL inside, whatever is inside the first.             *)
LEMMA CompareExact ==
  ASSUME NEW s \in Seq(0..255), NEW t \in Seq(1..255), Len(s) = Len(t)
  PROVE kstrcmp(s, t) = 0 <=> \A k \in 1..Len(t) : s[k] = t[k]
  <1> DEFINE n == FirstStop(s, t)
  <1>1. n \in 0..Len(s) /\ Stops(s, t, n) /\ \A k \in 0..(n - 1) : ~Stops(s, t, k)
    BY Stopping
  <1>2. kstrcmp(s, t) = CharAt(s, n) - CharAt(t, n)
    BY DEF kstrcmp
  <1> HIDE DEF n
  <1>3. Len(s) \in Nat /\ n \in Nat /\ n <= Len(t)
    BY <1>1, LenProperties
  <1>4. ASSUME NEW k \in Nat, k < Len(t)
        PROVE /\ CharAt(s, k) = s[k + 1] /\ CharAt(t, k) = t[k + 1]
              /\ CharAt(s, k) \in 0..255 /\ CharAt(t, k) \in 1..255
    <2>1. k + 1 \in 1..Len(s) /\ k + 1 \in 1..Len(t)
      BY <1>3, <1>4
    <2>2. s[k + 1] \in 0..255 /\ t[k + 1] \in 1..255
      BY <2>1, ElementOfSeq
    <2> QED
      BY <1>4, <2>2 DEF CharAt
  <1>5. CharAt(s, Len(t)) = 0 /\ CharAt(t, Len(t)) = 0
    BY <1>3 DEF CharAt, NULByte
  <1>6. CASE n = Len(t)
    <2>1. kstrcmp(s, t) = 0
      BY <1>2, <1>5, <1>6
    <2>2. ASSUME NEW k \in 1..Len(t) PROVE s[k] = t[k]
      <3>1. k - 1 \in Nat /\ k - 1 < Len(t) /\ k - 1 \in 0..(n - 1) /\ (k - 1) + 1 = k
        BY <1>3, <1>6
      <3>2. CharAt(s, k - 1) = CharAt(t, k - 1)
        BY <1>1, <3>1 DEF Stops
      <3> QED
        BY <1>4, <3>1, <3>2
    <2> QED
      BY <2>1, <2>2
  <1>7. CASE n < Len(t)
    <2>1. CharAt(t, n) \in 1..255 /\ CharAt(s, n) \in 0..255 /\ CharAt(s, n) = s[n + 1] /\ CharAt(t, n) = t[n + 1]
      BY <1>3, <1>4, <1>7
    <2>2. CharAt(s, n) # CharAt(t, n)
      <3>1. CharAt(t, n) # NULByte
        <4>1. \A b \in 1..255 : b # NULByte
          BY DEF NULByte
        <4> QED
          BY <2>1, <4>1, Zenon
      <3>2. CharAt(s, n) = NULByte \/ CharAt(s, n) # CharAt(t, n)
        BY <1>1, <3>1 DEF Stops
      <3> QED
        BY <3>1, <3>2, Zenon
    <2>3. ~(kstrcmp(s, t) = 0)
      <3>1. \A a, b \in 0..255 : a # b => ~(a - b = 0)
        OBVIOUS
      <3>2. \A b \in 1..255 : b \in 0..255
        OBVIOUS
      <3> QED
        BY <1>2, <2>1, <2>2, <3>1, <3>2, Zenon
    <2>4. n + 1 \in 1..Len(t) /\ s[n + 1] # t[n + 1]
      <3>1. n + 1 \in 1..Len(t)
        BY <1>3, <1>7
      <3> QED
        BY <2>1, <2>2, <3>1
    <2> QED
      BY <2>3, <2>4
  <1>8. n = Len(t) \/ n < Len(t)
    BY <1>3
  <1> QED
    BY <1>6, <1>7, <1>8

(* kstrncmp tells whether a header begins with the signature, whatever is      *)
(* behind the signature.                                                   *)
LEMMA BeginsExact ==
  ASSUME NEW h, h.Signature \in Seq(0..255), Len(h.Signature) >= 4
  PROVE  kstrncmp(h.Signature, FACP_SIG, Len(FACP_SIG)) = 0 <=> Begins(h)
  <1> DEFINE s == h.Signature
             t == FACP_SIG
             n == FirstStop(s, t)
             p == SubSeq(s, 1, 4)
  <1>1. /\ s \in Seq(0..255) /\ Len(s) \in Nat /\ Len(s) >= 4
        /\ t \in Seq(1..255) /\ Len(t) = 4
    BY SignatureAssumption, LenProperties
  <1>2. n \in 0..Len(s) /\ Stops(s, t, n) /\ \A k \in 0..(n - 1) : ~Stops(s, t, k)
    BY <1>1, Stopping
  <1>3. Begins(h) <=> p = t
    BY <1>1 DEF Begins
  <1>4. kstrncmp(s, t, Len(t)) = IF n >= 4 THEN 0 ELSE CharAt(s, n) - CharAt(t, n)
    BY <1>1 DEF kstrncmp, kstrcmp
  <1>5. p \in Seq(0..255) /\ Len(p) = 4 /\ \A k \in 1..4 : p[k] = s[k]
    <2> DEFINE o == 1
               l == 4
    <2>1. o \in Int /\ l \in Int /\ \A k \in o..l : k \in 1..Len(s)
      BY <1>1
    <2>2. \A k \in o..l : s[k] \in 0..255
      BY <1>1, <2>1, ElementOfSeq, ZenonT(60)
    <2>3. /\ SubSeq(s, o, l) \in Seq(0..255)
          /\ Len(SubSeq(s, o, l)) = IF o <= l THEN l - o + 1 ELSE 0
          /\ \A k \in 1..(l - o + 1) : SubSeq(s, o, l)[k] = s[o + k - 1]
      BY <2>1, <2>2, SubSeqProperties, SMTT(60)
    <2>4. \A k \in 1..4 : o + k - 1 = k
      OBVIOUS
    <2> QED
      BY <2>3, <2>4, SMTT(60)
  <1> HIDE DEF n, p, t, s
  <1>6. ASSUME NEW k \in 0..3
        PROVE /\ CharAt(s, k) = s[k + 1] /\ CharAt(t, k) = t[k + 1] /\ p[k + 1] = s[k + 1]
              /\ CharAt(s, k) \in 0..255 /\ CharAt(t, k) \in 1..255
    <2>1. k + 1 \in 1..Len(s) /\ k + 1 \in 1..Len(t) /\ k + 1 \in 1..4 /\ k < Len(s) /\ k < Len(t)
      BY <1>1
    <2>2. s[k + 1] \in 0..255 /\ t[k + 1] \in 1..255
      BY <1>1, <2>1, ElementOfSeq
    <2> QED
      BY <1>5, <2>1, <2>2 DEF CharAt
  <1>7. CASE n >= 4
    <2>1. ASSUME NEW k \in 1..4 PROVE p[k] = t[k]
      <3>1. k - 1 \in 0..3 /\ k - 1 \in 0..(n - 1) /\ (k - 1) + 1 = k
        BY <1>1, <1>2, <1>7
      <3>2. CharAt(s, k - 1) = CharAt(t, k - 1)
        BY <1>2, <3>1 DEF Stops
      <3>3. /\ CharAt(s, k - 1) = s[(k - 1) + 1] /\ CharAt(t, k - 1) = t[(k - 1) + 1]
            /\ p[(k - 1) + 1] = s[(k - 1) + 1]
        BY <1>6, <3>1
      <3> QED
        BY <3>1, <3>2, <3>3
    <2>2. t \in Seq(0..255)
      <3>1. 1..255 \subseteq 0..255
        OBVIOUS
      <3> QED
        BY <1>1, <3>1, SeqMonotonic
    <2>3. p = t
      BY <1>1, <1>5, <2>1, <2>2, SeqEqual, ZenonT(60)
    <2> QED
      BY <1>3, <1>4, <1>7, <2>3 DEF s, t
  <1>8. CASE n \in 0..3
    <2>1. CharAt(s, n) # CharAt(t, n)
      <3>1. CharAt(t, n) # NULByte
        <4>1. \A b \in 1..255 : b # NULByte
          BY DEF NULByte
        <4> QED
          BY <1>6, <1>8, <4>1
      <3>2. CharAt(s, n) = NULByte \/ CharAt(s, n) # CharAt(t, n)
        BY <1>2, <3>1 DEF Stops
      <3> QED
        BY <3>1, <3>2, Zenon
    <2>2. p[n + 1] # t[n + 1]
      BY <1>6, <1>8, <2>1
    <2>3. CharAt(s, n) - CharAt(t, n) # 0
      <3>1. \A a, b \in 0..255 : a # b => ~(a - b = 0)
        OBVIOUS
      <3>2. \A b \in 1..255 : b \in 0..255
        OBVIOUS
      <3>3. CharAt(s, n) \in 0..255 /\ CharAt(t, n) \in 1..255
        BY <1>6, <1>8
      <3> QED
        BY <2>1, <3>1, <3>2, <3>3, Zenon
    <2>4. ~(n >= 4)
      BY <1>8
    <2> QED
      BY <1>3, <1>4, <2>2, <2>3, <2>4 DEF s, t
  <1>9. n >= 4 \/ n \in 0..3
    BY <1>1, <1>2
  <1> QED
    BY <1>7, <1>8, <1>9

------------------------------------------------------------------------------
(* The search.                                                             *)

(* The constants. *)
LEMMA Constants ==
  /\ L \in Nat /\ L > 0 /\ Begin \in Nat /\ End \in Nat /\ Begin < End
  /\ RSDP_SIG \in Seq(1..255) /\ Len(RSDP_SIG) = L
  BY AcpiAssumption, LenProperties DEF L

(* Where the byte of place k of the window is, before and after it has slid. *)
LEMMA Places ==
  ASSUME NEW j \in Nat, NEW k \in 1..L
  PROVE /\ At(j, k) \in Int /\ At(j + 1, L) = j
        /\ (k < L => k + 1 \in 1..L /\ At(j, k + 1) = At(j + 1, k))
        /\ At(j + 1, k) = (j - (L - 1)) + k - 1 /\ At(j + 1, k) <= j /\ At(j, k) < j
  BY Constants DEF At

(* The window slides: it holds the bytes before the next address. *)
LEMMA Slides ==
  ASSUME area \in [Begin..End -> 0..255], NEW j \in Begin..End, NEW w, Window(w, j)
  PROVE Window(Slid(w, area[j]), j + 1)
  <1> DEFINE v == Slid(w, area[j])
  <1>1. w \in Seq(0..255) /\ Len(w) = L /\ w # <<>> /\ area[j] \in 0..255 /\ j \in Nat
    BY Constants, EmptySeq DEF Window
  <1>2. /\ Tail(w) \in Seq(0..255) /\ Len(Tail(w)) = L - 1
        /\ \A k \in 1..(L - 1) : Tail(w)[k] = w[k + 1]
    BY <1>1, HeadTailProperties
  <1>3. /\ v \in Seq(0..255) /\ Len(v) = Len(Tail(w)) + 1
        /\ \A k \in 1..Len(Tail(w)) : v[k] = Tail(w)[k]
        /\ v[Len(Tail(w)) + 1] = area[j]
    BY <1>1, <1>2, AppendProperties DEF Slid
  <1> HIDE DEF v
  <1>4. (L - 1) + 1 = L
    BY Constants
  <1>5. Len(v) = L /\ v[L] = area[j] /\ \A k \in 1..(L - 1) : v[k] = w[k + 1]
    BY <1>2, <1>3, <1>4
  <1>6. ASSUME NEW k \in 1..L, At(j + 1, k) >= Begin PROVE v[k] = area[At(j + 1, k)]
    <2>1. CASE k = L
      BY <1>1, <1>5, <2>1, Places
    <2>2. CASE k < L
      <3>1. k \in 1..(L - 1)
        BY <2>2, Constants
      <3>2. k + 1 \in 1..L /\ At(j, k + 1) = At(j + 1, k)
        BY <1>1, <2>2, Places
      <3>3. w[k + 1] = area[At(j, k + 1)]
        BY <1>6, <3>2 DEF Window
      <3> QED
        BY <1>5, <3>1, <3>2, <3>3
    <2>3. k = L \/ k < L
      BY Constants
    <2> QED
      BY <2>1, <2>2, <2>3
  <1> QED
    BY <1>3, <1>5, <1>6 DEF Window, v

(* The window equals the signature exactly where the signature fits, the bytes *)
(* before the area aside.                                                  *)
LEMMA Matches ==
  ASSUME NEW j \in Begin..End, NEW w, Window(w, j + 1)
  PROVE /\ kstrcmp(w, RSDP_SIG) = 0 => Fits(j - (L - 1))
        /\ Fits(j - (L - 1)) /\ j - (L - 1) >= Begin => kstrcmp(w, RSDP_SIG) = 0
  <1>1. j \in Nat
    BY Constants
  <1>2. kstrcmp(w, RSDP_SIG) = 0 <=> \A k \in 1..L : w[k] = RSDP_SIG[k]
    BY Constants, CompareExact, ZenonT(30) DEF Window
  <1>3. ASSUME NEW k \in 1..L
        PROVE /\ At(j + 1, k) = (j - (L - 1)) + k - 1
              /\ At(j + 1, k) >= Begin => w[k] = area[At(j + 1, k)]
    BY <1>1, Places DEF Window
  <1>4. Fits(j - (L - 1)) <=> \A k \in 1..L : At(j + 1, k) >= Begin => area[At(j + 1, k)] = RSDP_SIG[k]
    BY <1>3, Constants DEF Fits
  <1>5. j - (L - 1) >= Begin => \A k \in 1..L : At(j + 1, k) >= Begin
    BY <1>1, <1>3, Constants
  <1>6. ASSUME kstrcmp(w, RSDP_SIG) = 0 PROVE Fits(j - (L - 1))
    BY <1>2, <1>3, <1>4, <1>6, Zenon
  <1>7. ASSUME Fits(j - (L - 1)), j - (L - 1) >= Begin PROVE kstrcmp(w, RSDP_SIG) = 0
    BY <1>2, <1>3, <1>4, <1>5, <1>7, Zenon
  <1> QED
    BY <1>6, <1>7

(* One byte of the area. *)
LEMMA ScanStep ==
  ASSUME Searched, ScanByte
  PROVE Searched'
  <1> DEFINE r == i - (L - 1)
  <1>1. /\ phase = "scan" /\ i < End /\ UNCHANGED <<area, report>>
        /\ currentSignature' = Slid(currentSignature, area[i])
        /\ IF kstrcmp(currentSignature', RSDP_SIG) = 0
             THEN phase' = "descriptor" /\ rsdpAddress' = r /\ UNCHANGED i
             ELSE i' = i + 1 /\ UNCHANGED <<phase, rsdpAddress>>
    BY DEF ScanByte, L
  <1>2. /\ i \in Begin..End /\ Window(currentSignature, i) /\ rsdpAddress = 0 /\ report = <<>>
        /\ area \in [Begin..End -> 0..255]
        /\ \A a \in Begin..End : Real(a) => a + L - 1 >= i
    BY <1>1 DEF Searched, Types, Scanning
  <1>3. Window(currentSignature', i + 1)
    BY <1>1, <1>2, Slides
  <1>4. /\ kstrcmp(currentSignature', RSDP_SIG) = 0 => Fits(r)
        /\ Fits(r) /\ r >= Begin => kstrcmp(currentSignature', RSDP_SIG) = 0
    BY <1>2, <1>3, Matches
  <1>5. i \in Nat /\ r \in Int /\ r + L - 1 = i
    BY <1>2, Constants
  <1>6. \A a \in Begin..End : /\ (a + L - 1 >= i => r <= a)
                              /\ (a + L - 1 >= i /\ a # r => a + L - 1 >= i + 1)
    BY <1>5, Constants
  <1> HIDE DEF r
  <1>7. \A a : Fits(a)' <=> Fits(a)
    BY <1>1 DEF Fits
  <1>8. \A a : Real(a)' <=> Real(a)
    BY <1>7 DEF Real, Inside
  <1>9. CASE kstrcmp(currentSignature', RSDP_SIG) = 0
    <2>1. phase' = "descriptor" /\ rsdpAddress' = r /\ Fits(r)
      BY <1>1, <1>4, <1>9
    <2>2. Fits(rsdpAddress)'
      BY <1>1, <2>1 DEF Fits
    <2>3. \A a \in Begin..End : Real(a)' => r <= a
      BY <1>2, <1>6, <1>8
    <2>4. rsdpAddress' \in Int /\ rsdpAddress' + L - 1 < End
      BY <1>1, <1>5, <2>1
    <2>5. Found'
      BY <2>1, <2>2, <2>3, <2>4 DEF Found
    <2>6. Types' /\ Scanning' /\ Missing' /\ Reported'
      BY <1>1, <1>2, <2>1 DEF Types, Scanning, Missing, Reported
    <2> QED
      BY <2>5, <2>6 DEF Searched
  <1>10. CASE ~(kstrcmp(currentSignature', RSDP_SIG) = 0)
    <2>1. phase' = "scan" /\ i' = i + 1 /\ rsdpAddress' = 0 /\ report' = <<>>
      BY <1>1, <1>2, <1>10
    <2>2. i' \in Begin..End
      BY <1>1, <1>2, <2>1, Constants
    <2>3. Window(currentSignature, i)'
      BY <1>1, <1>3, <2>1 DEF Window
    <2>4. ASSUME NEW a \in Begin..End, Real(a) PROVE a + L - 1 >= i + 1
      <3>1. a + L - 1 >= i /\ Fits(a) /\ a >= Begin
        BY <1>2, <2>4 DEF Real, Inside
      <3>2. a # r
        BY <1>4, <1>10, <3>1, Zenon
      <3> QED
        BY <1>6, <3>1, <3>2
    <2>5. Scanning'
      BY <1>8, <2>1, <2>2, <2>3, <2>4 DEF Scanning
    <2>6. Types' /\ Found' /\ Missing' /\ Reported'
      BY <1>1, <1>2, <2>1 DEF Types, Found, Missing, Reported
    <2> QED
      BY <2>5, <2>6 DEF Searched
  <1> QED
    BY <1>9, <1>10

(* The end of the area: no real place ends there or behind it. *)
LEMMA EndStep ==
  ASSUME Searched, ScanEnds
  PROVE Searched'
  <1>1. /\ phase = "scan" /\ i = End /\ phase' = "done" /\ report' = <<"RSDP_missing">>
        /\ UNCHANGED <<area, rsdpAddress>>
    BY DEF ScanEnds
  <1>2. rsdpAddress = 0 /\ \A a \in Begin..End : Real(a) => a + L - 1 >= End
    BY <1>1 DEF Searched, Scanning
  <1>3. ASSUME NEW a \in Begin..End PROVE ~Real(a)
    <2>1. Real(a) => a + L - 1 < End
      BY DEF Real, Inside, L
    <2> QED
      BY <1>2, <2>1, Constants
  <1>4. \A a : Real(a)' <=> Real(a)
    BY <1>1 DEF Real, Inside, Fits
  <1>5. Missing'
    BY <1>1, <1>2, <1>3, <1>4 DEF Missing
  <1>6. Types' /\ Scanning' /\ Found' /\ Reported'
    BY <1>1 DEF Searched, Types, Scanning, Found, Reported
  <1> QED
    BY <1>5, <1>6 DEF Searched

(* What was found stays where it is, while phase and report change. *)
LEMMA FoundStays ==
  ASSUME UNCHANGED <<area, rsdpAddress>>, Found, phase \in {"descriptor", "root", "entries"}
  PROVE Found'
  <1>1. /\ rsdpAddress \in Int /\ Fits(rsdpAddress) /\ rsdpAddress + L - 1 < End
        /\ \A a \in Begin..End : Real(a) => rsdpAddress <= a
    BY DEF Found
  <1>2. Fits(rsdpAddress)' /\ \A a : Real(a)' <=> Real(a)
    BY <1>1 DEF Real, Inside, Fits
  <1> QED
    BY <1>1, <1>2 DEF Found

(* The steps behind the search. *)
LEMMA LaterStep ==
  ASSUME Searched, CheckDescriptor \/ CheckRoot \/ Follow \/ EntriesEnd
  PROVE Searched'
  <1>1. UNCHANGED <<area, rsdpAddress>> /\ phase \in {"descriptor", "root", "entries"}
    BY DEF CheckDescriptor, CheckRoot, Follow, EntriesEnd
  <1>2. Found'
    BY <1>1, FoundStays DEF Searched
  <1>3. phase' \in {"root", "entries", "done"}
    BY DEF CheckDescriptor, CheckRoot, Follow, EntriesEnd
  <1>4. Types' /\ Scanning'
    BY <1>1, <1>3 DEF Searched, Types, Scanning
  <1>5. CASE CheckDescriptor
    <2>1. phase' = "root" \/ (phase' = "done" /\ report' = <<"RSDP_checksum">>)
      BY <1>5 DEF CheckDescriptor
    <2>2. <<"RSDP_checksum">> # <<"RSDP_missing">>
      OBVIOUS
    <2>3. Missing' /\ Reported'
      BY <2>1, <2>2 DEF Missing, Reported
    <2> QED
      BY <1>2, <1>4, <2>3 DEF Searched
  <1>6. CASE CheckRoot
    <2>1. \/ phase' = "done" /\ report' = <<"RSDT_checksum">>
          \/ phase' = "entries" /\ report' = <<"RSDT_found">>
      BY <1>6 DEF CheckRoot
    <2>2. <<"RSDT_checksum">> # <<"RSDP_missing">>
      OBVIOUS
    <2>3. <<"RSDT_found">> \in Seq({"RSDT_found"}) /\ <<"RSDT_found">> # <<>> /\ <<"RSDT_found">>[1] = "RSDT_found"
      OBVIOUS
    <2>4. Missing' /\ Reported'
      BY <2>1, <2>2, <2>3 DEF Missing, Reported
    <2> QED
      BY <1>2, <1>4, <2>4 DEF Searched
  <1>7. CASE Follow
    <2>1. phase = "entries" /\ phase' = "entries"
      BY <1>7 DEF Follow
    <2>2. PICK S : report \in Seq(S) /\ report # <<>> /\ report[1] = "RSDT_found"
      BY <2>1 DEF Searched, Reported
    <2>3. report' = report \/ \E x : report' = Append(report, x)
      BY <1>7 DEF Follow
    <2>4. ASSUME NEW x, report' = Append(report, x)
          PROVE \E T : report' \in Seq(T) /\ report' # <<>> /\ report'[1] = "RSDT_found"
      <3> DEFINE T == S \cup {x}
      <3>1. report \in Seq(T) /\ x \in T
        BY <2>2, SeqMonotonic
      <3>2. /\ Append(report, x) \in Seq(T) /\ Append(report, x) # <<>>
            /\ \A k \in 1..Len(report) : Append(report, x)[k] = report[k]
        BY <3>1, AppendProperties
      <3>3. 1 \in 1..Len(report)
        BY <2>2, EmptySeq
      <3> QED
        BY <2>2, <2>4, <3>2, <3>3
    <2>5. Reported'
      BY <2>2, <2>3, <2>4 DEF Reported
    <2>6. Missing'
      BY <2>1 DEF Missing
    <2> QED
      BY <1>2, <1>4, <2>5, <2>6 DEF Searched
  <1>8. CASE EntriesEnd
    <2>1. phase = "entries" /\ phase' = "done" /\ report' = report
      BY <1>8 DEF EntriesEnd
    <2>2. report[1] = "RSDT_found"
      BY <2>1 DEF Searched, Reported
    <2>3. report # <<"RSDP_missing">>
      BY <2>2
    <2>4. Missing' /\ Reported'
      BY <2>1, <2>3 DEF Missing, Reported
    <2> QED
      BY <1>2, <1>4, <2>4 DEF Searched
  <1> QED
    BY <1>5, <1>6, <1>7, <1>8

------------------------------------------------------------------------------
(* The dump.                                                               *)

(* One entry is looked at, and its FADT dumped if it is one. *)
LEMMA FollowLists ==
  ASSUME Searched, Listing, Follow
  PROVE  Listing'
  <1> DEFINE h == root.entries[entry + 1]
  <1>1. /\ phase = "entries" /\ phase' = "entries" /\ entry < Entries /\ entry' = entry + 1
        /\ entry \in 0..Entries /\ Dumped(entry) /\ root' = root /\ root \in RootTables
    BY DEF Listing, Follow
  <1>2. entry + 1 \in 1..4 /\ entry + 1 \in 0..Entries /\ entry \in Nat
    BY <1>1 DEF Entries
  <1>3. h.Signature \in Seq(0..255) /\ Len(h.Signature) >= 4
    BY <1>1, <1>2, AcpiAssumption
  <1>4. kstrncmp(h.Signature, FACP_SIG, Len(FACP_SIG)) = 0 <=> Begins(h)
    <2> HIDE DEF h
    <2> QED
      BY <1>3, BeginsExact
  <1>5. report' = IF Begins(h) THEN Append(report, h.dsdt) ELSE report
    <2>1. report' = IF kstrncmp(h.Signature, FACP_SIG, Len(FACP_SIG)) # 0 THEN report
                    ELSE Append(report, IF acpi_checksum_sdt_header(SubSeq(h.Signature, 1, 4))
                                          THEN "FADT_checksum" ELSE h.dsdt)
      BY DEF Follow
    <2>2. Begins(h) => ~acpi_checksum_sdt_header(SubSeq(h.Signature, 1, 4))
      <3>1. Begins(h) => SubSeq(h.Signature, 1, 4) = FACP_SIG
        BY SignatureAssumption DEF Begins
      <3> QED
        BY <3>1, SignatureAssumption
    <2> HIDE DEF h
    <2> QED
      BY <1>4, <2>1, <2>2
  <1>6. PICK S : report \in Seq(S) /\ report # <<>>
    BY <1>1 DEF Searched, Reported
  <1>7. Len(report) \in Nat /\ Len(report) > 0
    BY <1>6, EmptySeq, LenProperties
  <1>8. PICK at \in [1..Len(report) - 1 -> 1..entry] :
          /\ \A j, k \in DOMAIN at : j < k => at[j] < at[k]
          /\ {at[k] : k \in DOMAIN at} = {e \in 1..entry : Begins(root.entries[e])}
          /\ \A k \in DOMAIN at : report[k + 1] = root.entries[at[k]].dsdt
    BY <1>1 DEF Dumped
  <1> DEFINE E(n) == {e \in 1..n : Begins(root.entries[e])}
  <1>9. E(entry + 1) = IF Begins(h) THEN E(entry) \cup {entry + 1} ELSE E(entry)
    <2>1. 1..entry+1 = (1..entry) \cup {entry + 1}
      BY <1>2
    <2> QED
      BY <2>1
  <1> HIDE DEF h, E
  <1>10. Dumped(entry)'
    <2>1. CASE ~Begins(h)
      <3>1. report' = report /\ at \in [1..Len(report) - 1 -> 1..entry+1]
        <4>1. 1..entry \subseteq 1..entry+1
          BY <1>2
        <4> QED
          BY <1>5, <2>1, <4>1
      <3>2. {at[k] : k \in DOMAIN at} = {e \in 1..entry+1 : Begins(root.entries[e])}
        BY <1>8, <1>9, <2>1 DEF E
      <3> QED
        BY <1>1, <1>8, <3>1, <3>2, Zenon DEF Dumped, Begins
    <2>2. CASE Begins(h)
      <3> DEFINE m == Len(report)
                 to == [k \in 1..m |-> IF k = m THEN entry + 1 ELSE at[k]]
      <3>1. m \in Nat /\ m > 0 /\ DOMAIN at = 1..m-1 /\ \A k \in 1..m-1 : at[k] \in 1..entry
        BY <1>7, <1>8
      <3>2. report' = Append(report, h.dsdt)
        BY <1>5, <2>2
      <3>3. Len(report') = m + 1 /\ report'[m + 1] = h.dsdt /\ \A k \in 1..m : report'[k] = report[k]
        <4> DEFINE T == S \cup {h.dsdt}
        <4>1. report \in Seq(T) /\ h.dsdt \in T
          BY <1>6, SeqMonotonic
        <4> HIDE DEF T
        <4> QED
          BY <3>2, <4>1, AppendProperties, SMTT(40), ZenonT(40)
      <3> HIDE DEF m
      <3>4. \A k \in 1..m-1 : at[k] \in Nat /\ at[k] <= entry /\ k \in 1..m /\ k # m /\ k < m
        BY <1>2, <3>1, SMTT(60)
      <3>5. DOMAIN to = 1..m /\ to[m] = entry + 1 /\ \A k \in 1..m-1 : to[k] = at[k]
        BY <3>1, <3>4
      <3>6. \A k \in 1..m : k = m \/ k \in 1..m-1
        BY <3>1
      <3> HIDE DEF to
      <3>7. \A k \in 1..m : to[k] \in 1..entry+1
        <4>1. 1..entry \subseteq 1..entry+1 /\ entry + 1 \in 1..entry+1
          BY <1>2
        <4> QED
          BY <3>1, <3>5, <3>6, <4>1
      <3>8. to \in [1..m -> 1..entry+1]
        <4>1. to = [k \in 1..m |-> to[k]]
          BY <3>5 DEF to
        <4> QED
          BY <3>7, <4>1
      <3>9. ASSUME NEW j \in 1..m, NEW k \in 1..m, j < k PROVE to[j] < to[k]
        <4>1. j \in 1..m-1
          BY <3>1, <3>9
        <4>2. CASE k = m
          <5>1. to[j] = at[j] /\ at[j] \in Nat /\ at[j] <= entry /\ to[k] = entry + 1
            BY <3>4, <3>5, <4>1, <4>2
          <5> QED
            BY <1>2, <5>1
        <4>3. CASE k \in 1..m-1
          BY <1>8, <3>1, <3>5, <3>9, <4>1, <4>3
        <4> QED
          BY <3>6, <4>2, <4>3
      <3>10. {to[k] : k \in 1..m} = E(entry + 1)
        <4>1. E(entry + 1) = {at[k] : k \in 1..m-1} \cup {entry + 1}
          BY <1>8, <1>9, <2>2, <3>1 DEF E
        <4>2. m \in 1..m /\ \A k \in 1..m-1 : k \in 1..m
          BY <3>1
        <4> QED
          BY <3>5, <3>6, <4>1, <4>2
      <3>11. ASSUME NEW k \in 1..m PROVE report'[k + 1] = root.entries[to[k]].dsdt
        <4>1. CASE k = m
          BY <3>3, <3>5, <4>1 DEF h
        <4>2. CASE k \in 1..m-1
          <5>1. k + 1 \in 1..m
            BY <3>1, <4>2
          <5>2. report[k + 1] = root.entries[at[k]].dsdt
            BY <1>8, <3>1, <4>2
          <5> QED
            BY <3>3, <3>5, <4>2, <5>1, <5>2
        <4> QED
          BY <3>6, <4>1, <4>2
      <3>12. Len(report') - 1 = m
        BY <3>1, <3>3
      <3> QED
        BY <1>1, <3>5, <3>8, <3>9, <3>10, <3>11, <3>12, ZenonT(60) DEF Dumped, Begins, E
    <2> QED
      BY <2>1, <2>2
  <1>11. FadtsDumped'
    BY <1>1 DEF FadtsDumped
  <1> QED
    BY <1>1, <1>2, <1>10, <1>11 DEF Listing

(* Every other step. *)
LEMMA OtherLists ==
  ASSUME Searched, Listing, [AcpiNext]_acpiVars, ~Follow
  PROVE  Listing'
  <1>1. \A n : UNCHANGED <<report, root>> /\ Dumped(n) => Dumped(n)'
    BY DEF Dumped, Begins
  <1>2. CASE ScanByte \/ ScanEnds \/ CheckDescriptor
    <2>1. /\ entry = 0 /\ entry' = entry /\ root' = root
          /\ phase' \in {"scan", "descriptor", "root", "done"}
      BY <1>2 DEF Listing, ScanByte, ScanEnds, CheckDescriptor, Searched, Types
    <2>2. phase' = "done" => report' = <<"RSDP_missing">> \/ report' = <<"RSDP_checksum">>
      BY <1>2 DEF ScanByte, ScanEnds, CheckDescriptor
    <2>3. phase' = "done" => report'[1] # "RSDT_found"
      BY <2>2
    <2> QED
      BY <2>1, <2>3 DEF Listing, FadtsDumped
  <1>3. CASE CheckRoot
    <2>1. entry' = 0 /\ root' = root /\ root \in RootTables
      BY <1>3 DEF Listing, CheckRoot
    <2>2. \/ phase' = "done" /\ report' = <<"RSDT_checksum">>
          \/ phase' = "entries" /\ report' = <<"RSDT_found">>
      BY <1>3 DEF CheckRoot
    <2>3. CASE phase' = "done" /\ report' = <<"RSDT_checksum">>
      <3>1. report'[1] # "RSDT_found"
        BY <2>3
      <3> QED
        BY <2>1, <2>3, <3>1 DEF Listing, FadtsDumped
    <2>4. CASE phase' = "entries" /\ report' = <<"RSDT_found">>
      <3>1. Len(report') - 1 = 0 /\ 1..0 = {}
        BY <2>4
      <3> DEFINE none == [k \in 1..0 |-> 0]
      <3>2. none \in [1..0 -> 1..0] /\ DOMAIN none = {}
        BY <3>1
      <3>3. {none[k] : k \in DOMAIN none} = {e \in 1..0 : Begins(root.entries[e])}
        BY <3>1, <3>2
      <3> HIDE DEF none
      <3>4. Dumped(entry)'
        BY <2>1, <3>1, <3>2, <3>3, Zenon DEF Dumped, Begins
      <3>5. 0 \in 0..Entries
        BY DEF Entries
      <3> QED
        BY <2>1, <2>4, <3>4, <3>5 DEF Listing, FadtsDumped
    <2> QED
      BY <2>2, <2>3, <2>4
  <1>4. CASE EntriesEnd
    <2>1. /\ entry = Entries /\ Dumped(Entries) /\ UNCHANGED <<report, root>> /\ phase' = "done"
          /\ root \in RootTables
      BY <1>4 DEF Listing, EntriesEnd
    <2>2. Dumped(Entries)'
      BY <1>1, <2>1
    <2> QED
      BY <2>1, <2>2 DEF Listing, FadtsDumped
  <1>5. CASE UNCHANGED acpiVars
    <2>1. UNCHANGED <<phase, root, entry, report>>
      BY <1>5 DEF acpiVars
    <2> QED
      BY <1>1, <2>1 DEF Listing, FadtsDumped
  <1> QED
    BY <1>2, <1>3, <1>4, <1>5 DEF AcpiNext

------------------------------------------------------------------------------
(* The inductive invariant holds in every reachable state. *)
THEOREM Invariant == AcpiSpec => []IInv
  <1>1. AcpiInit => IInv
    <2> SUFFICES ASSUME AcpiInit PROVE IInv
      OBVIOUS
    <2>1. /\ phase = "scan" /\ area \in Areas /\ i = Begin /\ currentSignature \in Junk
          /\ rsdpAddress = 0 /\ report = <<>>
      BY DEF AcpiInit
    <2>2. Types
      BY <2>1, AcpiAssumption DEF Types
    <2>3. currentSignature \in Seq(0..255) /\ Len(currentSignature) = L
      BY <2>1, AcpiAssumption DEF L
    <2>4. \A k \in 1..L : ~(At(Begin, k) >= Begin)
      BY Constants DEF At
    <2>5. Window(currentSignature, i)
      BY <2>1, <2>3, <2>4 DEF Window
    <2>6. \A a \in Begin..End : a + L - 1 >= Begin
      BY Constants
    <2>7. i \in Begin..End
      BY <2>1, Constants
    <2>8. Scanning
      BY <2>1, <2>5, <2>6, <2>7 DEF Scanning
    <2> QED
      <3>1. Searched
        BY <2>1, <2>2, <2>8 DEF Searched, Found, Missing, Reported
      <3>2. Listing
        BY <2>1 DEF AcpiInit, Listing, FadtsDumped
      <3> QED
        BY <3>1, <3>2 DEF IInv
  <1>2. Searched /\ [AcpiNext]_acpiVars => Searched'
    <2>1. Searched /\ UNCHANGED acpiVars => Searched'
      BY DEF acpiVars, Searched, Types, Scanning, Found, Missing, Reported, Window, Real, Inside, Fits
    <2> QED
      BY <2>1, ScanStep, EndStep, LaterStep DEF AcpiNext
  <1>3. Searched /\ Listing /\ [AcpiNext]_acpiVars => Listing'
    BY FollowLists, OtherLists
  <1>4. IInv /\ [AcpiNext]_acpiVars => IInv'
    BY <1>2, <1>3 DEF IInv
  <1> QED
    BY <1>1, <1>4, PTL DEF AcpiSpec

(* The search of the BIOS area finds the first place that holds the signature, *)
(* whatever the stack left in the window, and gives up only where there is none. *)
THEOREM FindsFirst == AcpiSpec => []SearchIsExact
  <1>1. IInv => SearchIsExact
    <2> SUFFICES ASSUME Searched PROVE SearchIsExact
      BY DEF IInv
    <2> DEFINE real == {a \in Begin..End : Inside(a) /\ Fits(a)}
    <2>1. \A a : a \in real <=> Real(a)
      BY DEF Real
    <2> HIDE DEF real
    <2>2. phase = "done" /\ report = <<"RSDP_missing">> => real = {}
      <3>1. \A a \in real : a \in Begin..End
        BY <2>1 DEF Real
      <3> QED
        BY <2>1, <3>1 DEF Searched, Missing
    <2>3. ASSUME phase \notin {"scan"}, rsdpAddress # 0
          PROVE /\ Fits(rsdpAddress) /\ rsdpAddress + L - 1 < End
                /\ \A a \in real : rsdpAddress <= a
      <3>1. phase \in {"descriptor", "root", "entries"} \/ (phase = "done" /\ report # <<"RSDP_missing">>)
        BY <2>3 DEF Searched, Types, Missing
      <3>2. /\ Fits(rsdpAddress) /\ rsdpAddress + L - 1 < End
            /\ \A a \in Begin..End : Real(a) => rsdpAddress <= a
        BY <3>1 DEF Searched, Found
      <3>3. \A a \in real : a \in Begin..End /\ Real(a)
        BY <2>1 DEF Real
      <3> QED
        BY <3>2, <3>3
    <2> QED
      BY <2>2, <2>3 DEF SearchIsExact, real, L
  <1> QED
    BY <1>1, Invariant, PTL

(* Of a root table whose header is not refused, acpidev dumps the FADTs among  *)
(* the four words of RSDT_t, each once and in their order, and no other table. *)
THEOREM DumpsFadts == AcpiSpec => []FadtsDumped
  <1>1. IInv => FadtsDumped
    BY DEF IInv, Listing
  <1> QED
    BY <1>1, Invariant, PTL

------------------------------------------------------------------------------
(* The names of files.                                                     *)

Letters == Nat \ {0}

(* The least element of a set of numbers, where it is known. *)
LEMMA LeastIs ==
  ASSUME NEW T \in SUBSET Int, NEW x \in T, \A y \in T : x <= y
  PROVE Min(T) = x
  <1>1. \A z \in T : (\A y \in T : z <= y) => z = x
    OBVIOUS
  <1> QED
    BY <1>1 DEF Min

(* Two sequences of one length with the same elements are the same. *)
LEMMA Alike ==
  ASSUME NEW S, NEW s \in Seq(S), NEW t \in Seq(S), Len(s) = Len(t),
         \A k \in 1..Len(s) : s[k] = t[k]
  PROVE s = t
  BY SeqEqual

(* The elements of a sequence put together from two. *)
LEMMA Put ==
  ASSUME NEW S, NEW s \in Seq(S), NEW t \in Seq(S)
  PROVE  /\ s \o t \in Seq(S) /\ Len(s \o t) = Len(s) + Len(t) /\ Len(s) \in Nat /\ Len(t) \in Nat
         /\ \A k \in 1..Len(s) : (s \o t)[k] = s[k]
         /\ \A k \in 1..Len(t) : (s \o t)[Len(s) + k] = t[k]
  <1>1. Len(s) \in Nat /\ Len(t) \in Nat
    BY LenProperties
  <1>2. /\ s \o t \in Seq(S) /\ Len(s \o t) = Len(s) + Len(t)
        /\ \A k \in 1..(Len(s) + Len(t)) : (s \o t)[k] = IF k <= Len(s) THEN s[k] ELSE t[k - Len(s)]
    BY ConcatProperties
  <1>3. \A k \in 1..Len(s) : k \in 1..(Len(s) + Len(t)) /\ k <= Len(s)
    BY <1>1
  <1>4. \A k \in 1..Len(t) : /\ Len(s) + k \in 1..(Len(s) + Len(t)) /\ ~(Len(s) + k <= Len(s))
                             /\ (Len(s) + k) - Len(s) = k
    BY <1>1
  <1> QED
    BY <1>1, <1>2, <1>3, <1>4

(* The elements of a piece of a sequence. *)
LEMMA Piece ==
  ASSUME NEW S, NEW s \in Seq(S), NEW m \in Nat \ {0}, NEW n \in Nat, m <= n + 1, n <= Len(s)
  PROVE  /\ SubSeq(s, m, n) \in Seq(S) /\ Len(SubSeq(s, m, n)) = (n + 1) - m
         /\ \A k \in 1..((n + 1) - m) : SubSeq(s, m, n)[k] = s[(m - 1) + k]
  <1>1. Len(s) \in Nat
    BY LenProperties
  <1>2. \A k \in m..n : s[k] \in S
    BY <1>1, ElementOfSeq
  <1>3. /\ SubSeq(s, m, n) \in Seq(S)
        /\ Len(SubSeq(s, m, n)) = IF m <= n THEN n - m + 1 ELSE 0
        /\ \A k \in 1..(n - m + 1) : SubSeq(s, m, n)[k] = s[m + k - 1]
    BY <1>1, <1>2, SubSeqProperties
  <1>4. (IF m <= n THEN n - m + 1 ELSE 0) = (n + 1) - m
    OBVIOUS
  <1>5. \A k \in 1..((n + 1) - m) : k \in 1..(n - m + 1) /\ m + k - 1 = (m - 1) + k
    OBVIOUS
  <1> QED
    BY <1>3, <1>4, <1>5

(* The elements of a sequence with one more behind it. *)
LEMMA PutOne ==
  ASSUME NEW S, NEW s \in Seq(S), NEW x \in S
  PROVE  /\ s \o <<x>> \in Seq(S) /\ Len(s \o <<x>>) = Len(s) + 1
         /\ \A k \in 1..Len(s) : (s \o <<x>>)[k] = s[k]
         /\ (s \o <<x>>)[Len(s) + 1] = x
  <1>1. s \o <<x>> = Append(s, x)
    BY AppendIsConcat
  <1>2. /\ Append(s, x) \in Seq(S) /\ Len(Append(s, x)) = Len(s) + 1
        /\ \A k \in 1..Len(s) : Append(s, x)[k] = s[k]
        /\ Append(s, x)[Len(s) + 1] = x
    BY AppendProperties
  <1> QED
    BY ONLY <1>1, <1>2

(* The name as it stands in memory. *)
LEMMA InMemory ==
  ASSUME NEW stem \in Seq(Letters), NEW ext \in Seq(Letters), NEW rest \in Seq(Int),
         Len(stem) \in 6..8, Len(rest) >= 4
  PROVE  LET text == stem \o <<Dot>> \o ext \o <<Null>> \o rest
             n == Len(stem)
         IN  /\ text \in Seq(Int) /\ Len(text) >= 12 /\ Len(text) >= n + 6
             /\ \A k \in 1..n : text[k] = stem[k]
             /\ text[n + 1] = Dot
             /\ \A k \in 1..Len(ext) : text[n + 1 + k] = ext[k]
             /\ text[n + 2 + Len(ext)] = Null
  <1> DEFINE n == Len(stem)
             e == Len(ext)
             r == Len(rest)
             a == stem \o <<Dot>>
             b == a \o ext
             c == b \o <<Null>>
             text == c \o rest
  <1>1. /\ stem \in Seq(Int) /\ ext \in Seq(Int) /\ n \in 6..8 /\ e \in Nat /\ r \in Nat /\ r >= 4
        /\ Dot \in Int /\ Null \in Int
    <2>1. Letters \subseteq Int /\ Dot \in Int /\ Null \in Int
      BY DEF Letters, Dot, Null
    <2>2. stem \in Seq(Int) /\ ext \in Seq(Int)
      BY <2>1, SeqMonotonic
    <2> QED
      BY <2>1, <2>2, LenProperties
  <1>2. /\ a \in Seq(Int) /\ Len(a) = n + 1 /\ a[n + 1] = Dot /\ \A k \in 1..n : a[k] = stem[k]
    BY <1>1, PutOne
  <1> HIDE DEF a
  <1>3. /\ b \in Seq(Int) /\ Len(b) = Len(a) + e
        /\ \A k \in 1..Len(a) : b[k] = a[k]
        /\ \A k \in 1..e : b[Len(a) + k] = ext[k]
    <2>1. a \in Seq(Int) /\ ext \in Seq(Int)
      BY <1>1, <1>2
    <2> QED
      BY ONLY <2>1, Put DEF b, e
  <1> HIDE DEF b
  <1>4. /\ c \in Seq(Int) /\ Len(c) = Len(b) + 1 /\ c[Len(b) + 1] = Null
        /\ \A k \in 1..Len(b) : c[k] = b[k]
    <2>1. b \in Seq(Int) /\ Null \in Int
      BY <1>1, <1>3
    <2> QED
      BY ONLY <2>1, PutOne DEF c
  <1> HIDE DEF c
  <1>5. /\ text \in Seq(Int) /\ Len(text) = Len(c) + r
        /\ \A k \in 1..Len(c) : text[k] = c[k]
    BY <1>4, Put, ZenonT(60)
  <1> HIDE DEF text, e, n, r
  <1>6. /\ Len(text) >= 12 /\ Len(text) >= n + 6
        /\ Len(a) = n + 1 /\ Len(b) = n + 1 + e /\ Len(c) = n + 2 + e
    BY <1>1, <1>2, <1>3, <1>4, <1>5
  <1>7. ASSUME NEW k \in 1..n+1 PROVE text[k] = a[k]
    <2>1. k \in 1..n+1+e /\ k \in 1..n+2+e
      BY <1>1
    <2> QED
      BY <1>3, <1>4, <1>5, <1>6, <2>1
  <1>8. \A k \in 1..n : text[k] = stem[k]
    <2>1. \A k \in 1..n : k \in 1..n+1
      BY <1>1
    <2> QED
      BY <1>2, <1>7, <2>1
  <1>9. text[n + 1] = Dot
    <2>1. n + 1 \in 1..n+1
      BY <1>1
    <2> QED
      BY <1>2, <1>7, <2>1
  <1>10. ASSUME NEW k \in 1..e PROVE text[n + 1 + k] = ext[k]
    <2>1. n + 1 + k \in 1..n+1+e /\ n + 1 + k \in 1..n+2+e
      BY <1>1
    <2>2. b[n + 1 + k] = ext[k]
      BY <1>3, <1>6
    <2> QED
      BY <1>4, <1>5, <1>6, <2>1, <2>2
  <1>11. text[n + 2 + e] = Null
    <2>1. n + 2 + e = (n + 1 + e) + 1 /\ n + 2 + e \in 1..n+2+e
      BY <1>1
    <2>2. c[n + 2 + e] = Null
      BY <1>4, <1>6, <2>1
    <2> QED
      BY <1>5, <1>6, <2>1, <2>2
  <1>12. text \in Seq(Int)
    BY <1>5
  <1> QED
    BY <1>6, <1>8, <1>9, <1>10, <1>11, <1>12 DEF text, c, b, a, e, n

(* The stem ends where the loop finds its stop, or after eight bytes. *)
LEMMA StemEndIs ==
  ASSUME NEW text \in Seq(Int), NEW stop \in Int, NEW n \in 0..8,
         \A k \in 1..n : text[k] # stop, n = 8 \/ text[n + 1] = stop
  PROVE  StemEnd(text, stop) = n
  <1> DEFINE T == {8} \cup {j \in 0..7 : text[j + 1] = stop}
  <1>1. T \in SUBSET Int /\ n \in T
    OBVIOUS
  <1>2. ASSUME NEW y \in T PROVE n <= y
    <2>1. CASE y = 8
      BY <2>1
    <2>2. CASE y \in 0..7 /\ text[y + 1] = stop
      <3>1. y + 1 \notin 1..n
        BY <2>2
      <3> QED
        BY <2>2, <3>1
    <2> QED
      BY <2>1, <2>2
  <1>3. StemEnd(text, stop) = Min(T)
    BY Zenon DEF StemEnd
  <1> HIDE DEF T
  <1> QED
    BY <1>1, <1>2, <1>3, LeastIs

(* What is printed of bytes ends before their first NUL. *)
LEMMA CStringIs ==
  ASSUME NEW bytes \in Seq(Int), NEW m \in 0..Len(bytes),
         \A k \in 1..m : bytes[k] # Null, m = Len(bytes) \/ bytes[m + 1] = Null
  PROVE  CString(bytes) = SubSeq(bytes, 1, m)
  <1> DEFINE T == {Len(bytes)} \cup {n \in 0..Len(bytes)-1 : bytes[n + 1] = Null}
  <1>1. Len(bytes) \in Nat
    BY LenProperties
  <1>2. T \in SUBSET Int /\ m \in T
    BY <1>1
  <1>3. ASSUME NEW y \in T PROVE m <= y
    <2>1. CASE y = Len(bytes)
      BY <1>1, <2>1
    <2>2. CASE y \in 0..Len(bytes)-1 /\ bytes[y + 1] = Null
      <3>1. y + 1 \notin 1..m
        BY <2>2
      <3> QED
        BY <1>1, <2>2, <3>1
    <2> QED
      BY <2>1, <2>2
  <1>4. CString(bytes) = SubSeq(bytes, 1, Min(T))
    BY Zenon DEF CString
  <1> HIDE DEF T
  <1>5. Min(T) = m
    BY <1>2, <1>3, LeastIs
  <1> QED
    BY <1>4, <1>5

(* How many letters of an extension an entry keeps. *)
Ext(n) == IF n = 8 THEN 2 ELSE 3

(* The eleven bytes of an entry: the stem, spaces up to eight, and the letters  *)
(* behind the dot.                                                         *)
LEMMA FieldIs ==
  ASSUME NEW text \in Seq(Int), NEW n \in 6..8, StemEnd(text, Dot) = n, Len(text) >= 12
  PROVE  LET f == convert_filename(text)
         IN  /\ f \in Seq(Int) /\ Len(f) = 11
             /\ \A k \in 1..n : f[k] = text[k]
             /\ \A k \in n+1..8 : f[k] = Space
             /\ \A k \in 1..Ext(n) : f[8 + k] = text[n + 1 + k]
             /\ n = 8 => f[11] = Null
  <1> DEFINE p == SubSeq(text, 1, n)
             q == [s \in 1..8 - n |-> Space]
             r == SubSeq(text, n + 2, 11)
             a == p \o q
             b == a \o r
             c == b \o <<Null>>
             f == SubSeq(c, 1, 11)
  <1>1. Len(text) \in Nat /\ Null \in Int /\ Space \in Int
    BY LenProperties DEF Null, Space
  <1>2. p \in Seq(Int) /\ Len(p) = n /\ \A k \in 1..n : p[k] = text[k]
    <2>1. 1 \in Nat \ {0} /\ n \in Nat /\ 1 <= n + 1 /\ n <= Len(text) /\ (n + 1) - 1 = n /\ 1 - 1 = 0
      BY <1>1
    <2>2. /\ p \in Seq(Int) /\ Len(p) = (n + 1) - 1
          /\ \A k \in 1..((n + 1) - 1) : p[k] = text[(1 - 1) + k]
      BY ONLY text \in Seq(Int), <2>1, Piece DEF p
    <2>3. \A k \in 1..n : (1 - 1) + k = k
      OBVIOUS
    <2> HIDE DEF p
    <2> QED
      BY <2>1, <2>2, <2>3
  <1>3. q \in Seq(Int) /\ Len(q) = 8 - n /\ \A k \in 1..8 - n : q[k] = Space
    <2>1. 8 - n \in Nat
      OBVIOUS
    <2>2. DOMAIN q = 1..8 - n /\ \A k \in 1..8 - n : q[k] = Space
      OBVIOUS
    <2>3. q \in [1..8 - n -> Int]
      BY <1>1
    <2> HIDE DEF q
    <2>4. q \in Seq(Int)
      BY <2>1, <2>3, SeqDef
    <2> QED
      BY <2>1, <2>2, <2>4, LenProperties
  <1>4. r \in Seq(Int) /\ Len(r) = 10 - n /\ \A k \in 1..10 - n : r[k] = text[n + 1 + k]
    <2>1. /\ n + 2 \in Nat \ {0} /\ 11 \in Nat /\ n + 2 <= 11 + 1 /\ 11 <= Len(text)
          /\ (11 + 1) - (n + 2) = 10 - n /\ (n + 2) - 1 = n + 1
      BY <1>1
    <2> DEFINE m == n + 2
    <2>3. r = SubSeq(text, m, 11) /\ m \in Nat \ {0} /\ 11 \in Nat /\ m <= 11 + 1 /\ 11 <= Len(text)
      BY <2>1
    <2> HIDE DEF m, r
    <2>4. /\ r \in Seq(Int) /\ Len(r) = (11 + 1) - m
          /\ \A k \in 1..((11 + 1) - m) : r[k] = text[(m - 1) + k]
      BY ONLY text \in Seq(Int), <2>3, Piece
    <2>2. /\ r \in Seq(Int) /\ Len(r) = (11 + 1) - (n + 2)
          /\ \A k \in 1..((11 + 1) - (n + 2)) : r[k] = text[((n + 2) - 1) + k]
      BY <2>4 DEF m
    <2> HIDE DEF r
    <2> QED
      BY <2>1, <2>2
  <1> HIDE DEF p, q, r
  <1>5. /\ a \in Seq(Int) /\ Len(a) = 8 /\ \A k \in 1..n : a[k] = text[k]
        /\ \A k \in n+1..8 : a[k] = Space
    <2>1. /\ a \in Seq(Int) /\ Len(a) = Len(p) + Len(q)
          /\ \A k \in 1..Len(p) : a[k] = p[k]
          /\ \A k \in 1..Len(q) : a[Len(p) + k] = q[k]
      BY ONLY <1>2, <1>3, Put, SMTT(60) DEF a
    <2>2. ASSUME NEW k \in n+1..8 PROVE a[k] = Space
      <3>1. k - n \in 1..8 - n /\ n + (k - n) = k
        OBVIOUS
      <3> QED
        BY <1>2, <1>3, <2>1, <3>1, ZenonT(60)
    <2> HIDE DEF a
    <2>3. Len(a) = 8
      <3>1. n + (8 - n) = 8
        OBVIOUS
      <3> QED
        BY <1>2, <1>3, <2>1, <3>1
    <2>4. \A k \in 1..n : a[k] = text[k]
      BY <1>2, <2>1
    <2> QED
      BY <2>1, <2>2, <2>3, <2>4
  <1> HIDE DEF a
  <1>6. /\ b \in Seq(Int) /\ Len(b) = 18 - n /\ \A k \in 1..8 : b[k] = a[k]
        /\ \A k \in 1..10 - n : b[8 + k] = text[n + 1 + k]
    <2>1. /\ b \in Seq(Int) /\ Len(b) = Len(a) + Len(r)
          /\ \A k \in 1..Len(a) : b[k] = a[k]
          /\ \A k \in 1..Len(r) : b[Len(a) + k] = r[k]
      <3>1. a \in Seq(Int) /\ r \in Seq(Int)
        BY <1>4, <1>5
      <3> QED
        BY ONLY <3>1, Put DEF b
    <2> HIDE DEF b
    <2>2. 8 + (10 - n) = 18 - n
      OBVIOUS
    <2>3. Len(b) = 18 - n
      BY <1>4, <1>5, <2>1, <2>2
    <2>4. \A k \in 1..8 : b[k] = a[k]
      BY <1>5, <2>1
    <2>5. ASSUME NEW k \in 1..10 - n PROVE b[8 + k] = text[n + 1 + k]
      <3>1. b[Len(a) + k] = r[k]
        BY <1>4, <2>1
      <3> QED
        BY <1>4, <1>5, <3>1
    <2> QED
      BY <2>1, <2>3, <2>4, <2>5
  <1> HIDE DEF b
  <1>7. /\ c \in Seq(Int) /\ Len(c) = 19 - n /\ c[19 - n] = Null
        /\ \A k \in 1..18 - n : c[k] = b[k]
    <2>1. /\ c \in Seq(Int) /\ Len(c) = Len(b) + 1 /\ c[Len(b) + 1] = Null
          /\ \A k \in 1..Len(b) : c[k] = b[k]
      <3>1. b \in Seq(Int) /\ Null \in Int
        BY <1>1, <1>6
      <3> QED
        BY ONLY <3>1, PutOne DEF c
    <2>2. (18 - n) + 1 = 19 - n
      OBVIOUS
    <2> HIDE DEF c
    <2> QED
      BY <1>6, <2>1, <2>2
  <1> HIDE DEF c
  <1>8. f \in Seq(Int) /\ Len(f) = 11 /\ \A k \in 1..11 : f[k] = c[k]
    <2> DEFINE l == 11
               m == 1
    <2>1. /\ f = SubSeq(c, m, l) /\ m \in Nat \ {0} /\ l \in Nat /\ m <= l + 1 /\ l <= Len(c)
          /\ (l + 1) - m = 11 /\ \A k \in 1..11 : (m - 1) + k = k
      BY <1>7
    <2>2. c \in Seq(Int)
      BY <1>7
    <2> HIDE DEF f, l, m
    <2>3. /\ f \in Seq(Int) /\ Len(f) = (l + 1) - m
          /\ \A k \in 1..((l + 1) - m) : f[k] = c[(m - 1) + k]
      BY ONLY <2>1, <2>2, Piece
    <2> QED
      BY <2>1, <2>3
  <1>9. convert_filename(text) = f
    BY Zenon DEF convert_filename, Tail11, f, c, b, a, p, q, r
  <1> HIDE DEF f
  <1>10. ASSUME NEW k \in 1..8 PROVE f[k] = a[k]
    <2>1. k \in 1..11 /\ k \in 1..18 - n
      OBVIOUS
    <2> QED
      BY <1>6, <1>7, <1>8, <2>1
  <1>11. (\A k \in 1..n : f[k] = text[k]) /\ \A k \in n+1..8 : f[k] = Space
    <2>1. (\A k \in 1..n : k \in 1..8) /\ \A k \in n+1..8 : k \in 1..8
      OBVIOUS
    <2> QED
      BY <1>5, <1>10, <2>1
  <1>12. ASSUME NEW k \in 1..Ext(n) PROVE f[8 + k] = text[n + 1 + k]
    <2>1. 8 + k \in 1..11 /\ 8 + k \in 1..18 - n /\ k \in 1..10 - n
      BY DEF Ext
    <2> QED
      BY <1>6, <1>7, <1>8, <2>1, ZenonT(60)
  <1>13. ASSUME n = 8 PROVE f[11] = Null
    <2>1. 19 - n = 11 /\ 11 \in 1..11
      BY <1>13
    <2> QED
      BY <1>7, <1>8, <2>1
  <1> QED
    BY <1>8, <1>9, <1>11, <1>12, <1>13

(* The elements of two sequences with a byte between them. *)
LEMMA PutBetween ==
  ASSUME NEW S, NEW s \in Seq(S), NEW d \in S, NEW t \in Seq(S)
  PROVE  LET u == s \o <<d>> \o t
         IN  /\ u \in Seq(S) /\ Len(u) = Len(s) + 1 + Len(t)
             /\ \A k \in 1..Len(s) : u[k] = s[k]
             /\ u[Len(s) + 1] = d
             /\ \A k \in 1..Len(t) : u[Len(s) + 1 + k] = t[k]
  <1> DEFINE a == s \o <<d>>
             u == a \o t
  <1>1. /\ a \in Seq(S) /\ Len(a) = Len(s) + 1 /\ a[Len(s) + 1] = d
        /\ \A k \in 1..Len(s) : a[k] = s[k]
    BY PutOne
  <1>2. Len(s) \in Nat
    BY LenProperties
  <1> HIDE DEF a
  <1>3. a \in Seq(S) /\ t \in Seq(S)
    BY <1>1
  <1>4. /\ u \in Seq(S) /\ Len(u) = Len(a) + Len(t)
        /\ \A k \in 1..Len(a) : u[k] = a[k]
        /\ \A k \in 1..Len(t) : u[Len(a) + k] = t[k]
    BY ONLY <1>3, Put DEF u
  <1> HIDE DEF u
  <1>5. /\ Len(s) + 1 \in 1..Len(a) /\ \A k \in 1..Len(s) : k \in 1..Len(a)
    BY <1>1, <1>2
  <1>6. u[Len(s) + 1] = d
    BY <1>1, <1>4, <1>5
  <1>7. \A k \in 1..Len(s) : u[k] = s[k]
    BY <1>1, <1>4, <1>5
  <1>8. Len(u) = Len(s) + 1 + Len(t) /\ \A k \in 1..Len(t) : u[Len(s) + 1 + k] = t[k]
    BY <1>1, <1>4
  <1> QED
    BY <1>4, <1>6, <1>7, <1>8 DEF u, a

(* Behind the stem stand the letters there is place for, or all and a NUL. *)
Holds(f, ext, n) ==
  /\ \A k \in 1..Ext(n) : /\ k <= Len(ext) => f[8 + k] = ext[k]
                          /\ k = Len(ext) + 1 => f[8 + k] = Null
  /\ n = 8 => f[11] = Null

(* The first q letters of the extension are kept, and end there. *)
Keeps(f, ext, n, q) ==
  /\ q \in Nat /\ q <= Ext(n) /\ q <= Len(ext) /\ q <= 3
  /\ (Len(ext) = 3 /\ Ext(n) = 3) => q = 3
  /\ \A k \in 1..q : f[8 + k] = ext[k]
  /\ q < 3 => f[9 + q] = Null

(* The letters of an extension that are kept, and what stands behind them. *)
LEMMA KeptAre ==
  ASSUME NEW n \in 6..8, NEW f, NEW ext, Len(ext) \in Nat, Holds(f, ext, n),
         NEW q, q = Min({Ext(n), Len(ext)})
  PROVE  Keeps(f, ext, n, q)
  <1> DEFINE e == Len(ext)
             x == Ext(n)
  <1>0. e \in Nat
    OBVIOUS
  <1>1. x \in {2, 3} /\ (x = 2 <=> n = 8)
    BY DEF Ext
  <1>2. q \in {x, e} /\ q <= x /\ q <= e
    <2>1. {x, e} \in SUBSET Int
      BY <1>0, <1>1
    <2> HIDE DEF x, e
    <2>2. CASE x <= e
      <3>1. x \in {x, e} /\ \A y \in {x, e} : x <= y
        BY <1>0, <1>1, <2>2
      <3>2. Min({x, e}) = x
        BY <2>1, <3>1, LeastIs
      <3> QED
        BY <1>1, <2>2, <3>2 DEF x, e
    <2>3. CASE e <= x
      <3>1. e \in {x, e} /\ \A y \in {x, e} : e <= y
        BY <1>0, <1>1, <2>3
      <3>2. Min({x, e}) = e
        BY <2>1, <3>1, LeastIs
      <3> QED
        BY <1>1, <2>3, <3>2 DEF x, e
    <2> QED
      BY <1>0, <1>1, <2>2, <2>3
  <1>3. /\ \A k \in 1..x : (k <= e => f[8 + k] = ext[k]) /\ (k = e + 1 => f[8 + k] = Null)
        /\ n = 8 => f[11] = Null
    BY DEF Holds
  <1> HIDE DEF x, e
  <1>4. q \in Nat /\ q <= 3
    BY <1>1, <1>2, <1>0
  <1>5. ASSUME NEW k \in 1..q PROVE f[8 + k] = ext[k]
    <2>1. k \in 1..x /\ k <= e
      BY <1>0, <1>1, <1>2
    <2> QED
      BY <1>3, <2>1
  <1>6. ASSUME q < 3 PROVE f[9 + q] = Null
    <2>1. CASE q = x
      <3>1. n = 8 /\ 9 + q = 11
        BY <1>1, <1>6, <2>1
      <3> QED
        BY <1>3, <3>1
    <2>2. CASE q < x
      <3>1. q = e /\ q + 1 \in 1..x /\ 8 + (q + 1) = 9 + q
        BY <1>0, <1>1, <1>2, <2>2
      <3> QED
        BY <1>3, <3>1
    <2> QED
      BY <1>1, <1>2, <1>4, <2>1, <2>2
  <1>7. e = 3 /\ x = 3 => q = 3
    BY <1>2
  <1> QED
    BY <1>2, <1>4, <1>5, <1>6, <1>7 DEF Keeps, x, e

(* What is printed of an entry whose stem and letters are known. *)
LEMMA PrintedIs ==
  ASSUME NEW n \in 6..8, NEW stem \in Seq(Letters), Len(stem) = n,
         NEW ext \in Seq(Letters), NEW f \in Seq(Int), Len(f) = 11,
         \A k \in 1..n : f[k] = stem[k], \A k \in n+1..8 : f[k] = Space,
         NEW q \in Nat, q <= 3, q <= Len(ext),
         \A k \in 1..q : f[8 + k] = ext[k], q < 3 => f[9 + q] = Null
  PROVE  get_filename(f) = stem \o <<Dot>> \o SubSeq(ext, 1, q)
  <1> DEFINE p == SubSeq(f, 1, n)
             r == SubSeq(f, 9, 11)
             bytes == p \o <<Dot>> \o r
             m == n + 1 + q
             x == SubSeq(ext, 1, q)
             want == stem \o <<Dot>> \o x
  <1>1. /\ Letters \subseteq Int /\ stem \in Seq(Int) /\ ext \in Seq(Int)
        /\ Len(ext) \in Nat
    <2>1. Letters \subseteq Int
      BY DEF Letters
    <2> QED
      BY <2>1, SeqMonotonic, LenProperties
  <1>0. Dot \in Int /\ Space \in Int
    BY DEF Dot, Space
  <1>2. \A y \in Letters : y # Dot /\ y # Space /\ y # Null
    BY DEF Letters, Dot, Space, Null
  <1>3. \A k \in 1..n : stem[k] \in Letters
    BY ElementOfSeq
  <1>4. \A k \in 1..q : ext[k] \in Letters
    <2>1. \A k \in 1..q : k \in 1..Len(ext)
      BY <1>1
    <2> QED
      BY <2>1, ElementOfSeq
  <1>5. StemEnd(f, Space) = n
    <2>1. \A k \in 1..n : f[k] # Space
      BY <1>2, <1>3
    <2>2. n = 8 \/ f[n + 1] = Space
      <3>1. n = 8 \/ n + 1 \in n+1..8
        OBVIOUS
      <3> QED
        BY <3>1
    <2>3. n \in 0..8
      OBVIOUS
    <2> QED
      BY <1>0, <2>1, <2>2, <2>3, StemEndIs, ZenonT(60)
  <1>6. f[9] # Space
    <2>1. CASE q = 0
      <3>1. f[9] = Null
        BY <2>1
      <3> QED
        BY <3>1 DEF Null, Space
    <2>2. CASE q > 0
      <3>1. 1 \in 1..q /\ 8 + 1 = 9
        BY <2>2
      <3>2. f[9] = ext[1] /\ ext[1] \in Letters
        BY <1>4, <3>1
      <3> QED
        BY <1>2, <3>2
    <2> QED
      BY <2>1, <2>2
  <1>7. get_filename(f) = CString(bytes)
    BY <1>5, <1>6, Zenon DEF get_filename
  <1>8. p \in Seq(Int) /\ Len(p) = n /\ \A k \in 1..n : p[k] = f[k]
    <2> DEFINE o == 1
    <2>1. /\ p = SubSeq(f, o, n) /\ o \in Nat \ {0} /\ n \in Nat /\ o <= n + 1 /\ n <= Len(f)
          /\ (n + 1) - o = n
      OBVIOUS
    <2>3. \A k \in 1..n : (o - 1) + k = k
      OBVIOUS
    <2> HIDE DEF p, o
    <2>2. /\ p \in Seq(Int) /\ Len(p) = (n + 1) - o
          /\ \A k \in 1..((n + 1) - o) : p[k] = f[(o - 1) + k]
      BY ONLY f \in Seq(Int), <2>1, Piece
    <2> QED
      BY <2>1, <2>2, <2>3
  <1>9. r \in Seq(Int) /\ Len(r) = 3 /\ \A k \in 1..3 : r[k] = f[8 + k]
    <2> DEFINE o == 9
               l == 11
    <2>1. /\ r = SubSeq(f, o, l) /\ o \in Nat \ {0} /\ l \in Nat /\ o <= l + 1 /\ l <= Len(f)
      OBVIOUS
    <2>3. (l + 1) - o = 3 /\ o - 1 = 8
      OBVIOUS
    <2> HIDE DEF r, o, l
    <2>2. /\ r \in Seq(Int) /\ Len(r) = (l + 1) - o
          /\ \A k \in 1..((l + 1) - o) : r[k] = f[(o - 1) + k]
      BY ONLY f \in Seq(Int), <2>1, Piece
    <2> QED
      BY <2>2, <2>3
  <1>10. x \in Seq(Int) /\ Len(x) = q /\ \A k \in 1..q : x[k] = ext[k]
    <2> DEFINE o == 1
    <2>1. /\ x = SubSeq(ext, o, q) /\ o \in Nat \ {0} /\ q \in Nat /\ o <= q + 1 /\ q <= Len(ext)
          /\ (q + 1) - o = q /\ \A k \in 1..q : (o - 1) + k = k
      OBVIOUS
    <2> HIDE DEF x, o
    <2>2. /\ x \in Seq(Int) /\ Len(x) = (q + 1) - o
          /\ \A k \in 1..((q + 1) - o) : x[k] = ext[(o - 1) + k]
      BY ONLY <1>1, <2>1, Piece
    <2> QED
      BY <2>1, <2>2
  <1> HIDE DEF p, r, x
  <1>11. /\ bytes \in Seq(Int) /\ Len(bytes) = n + 1 + 3
         /\ \A k \in 1..n : bytes[k] = stem[k]
         /\ bytes[n + 1] = Dot
         /\ \A k \in 1..3 : bytes[n + 1 + k] = f[8 + k]
    <2>1. p \in Seq(Int) /\ r \in Seq(Int) /\ Dot \in Int
      BY <1>0, <1>8, <1>9
    <2>2. /\ bytes \in Seq(Int) /\ Len(bytes) = Len(p) + 1 + Len(r)
          /\ \A k \in 1..Len(p) : bytes[k] = p[k]
          /\ bytes[Len(p) + 1] = Dot
          /\ \A k \in 1..Len(r) : bytes[Len(p) + 1 + k] = r[k]
      BY ONLY <2>1, PutBetween DEF bytes
    <2> HIDE DEF bytes
    <2>3. \A k \in 1..n : bytes[k] = stem[k]
      BY <1>8, <2>2
    <2>4. ASSUME NEW k \in 1..3 PROVE bytes[n + 1 + k] = f[8 + k]
      <3>1. bytes[Len(p) + 1 + k] = r[k]
        BY <1>9, <2>2
      <3> QED
        BY <1>8, <1>9, <3>1
    <2> QED
      BY <1>8, <1>9, <2>2, <2>3, <2>4
  <1> HIDE DEF bytes
  <1>12. /\ want \in Seq(Int) /\ Len(want) = n + 1 + q
         /\ \A k \in 1..n : want[k] = stem[k]
         /\ want[n + 1] = Dot
         /\ \A k \in 1..q : want[n + 1 + k] = ext[k]
    <2>1. stem \in Seq(Int) /\ x \in Seq(Int) /\ Dot \in Int
      BY <1>0, <1>1, <1>10
    <2>2. /\ want \in Seq(Int) /\ Len(want) = Len(stem) + 1 + Len(x)
          /\ \A k \in 1..Len(stem) : want[k] = stem[k]
          /\ want[Len(stem) + 1] = Dot
          /\ \A k \in 1..Len(x) : want[Len(stem) + 1 + k] = x[k]
      BY ONLY <2>1, PutBetween DEF want
    <2> HIDE DEF want
    <2> QED
      BY <1>10, <2>2
  <1> HIDE DEF want
  <1>13. m \in 0..Len(bytes) /\ (m = Len(bytes) <=> q = 3) /\ m + 1 = n + 1 + (q + 1)
    BY <1>11
  <1>14. ASSUME NEW k \in 1..m PROVE bytes[k] = want[k] /\ bytes[k] # Null
    <2>1. CASE k \in 1..n
      BY <1>2, <1>3, <1>11, <1>12, <2>1
    <2>2. CASE k = n + 1
      BY <1>11, <1>12, <2>2 DEF Dot, Null
    <2>3. CASE k > n + 1
      <3> DEFINE j == k - (n + 1)
      <3>1. j \in 1..q /\ j \in 1..3 /\ n + 1 + j = k
        BY <2>3
      <3> HIDE DEF j
      <3>2. bytes[k] = ext[j] /\ want[k] = ext[j] /\ ext[j] \in Letters
        <4>1. bytes[n + 1 + j] = f[8 + j] /\ want[n + 1 + j] = ext[j] /\ f[8 + j] = ext[j]
          BY <1>11, <1>12, <3>1
        <4> QED
          BY <1>4, <3>1, <4>1
      <3> QED
        BY <1>2, <3>2
    <2> QED
      BY <2>1, <2>2, <2>3
  <1>15. m = Len(bytes) \/ bytes[m + 1] = Null
    <2> SUFFICES ASSUME q < 3 PROVE bytes[m + 1] = Null
      BY <1>13
    <2>1. q + 1 \in 1..3 /\ 8 + (q + 1) = 9 + q
      OBVIOUS
    <2>2. bytes[n + 1 + (q + 1)] = f[8 + (q + 1)]
      BY <1>11, <2>1
    <2> QED
      BY <1>13, <2>1, <2>2
  <1> HIDE DEF m
  <1>16. CString(bytes) = SubSeq(bytes, 1, m)
    BY <1>11, <1>13, <1>14, <1>15, CStringIs
  <1>17. SubSeq(bytes, 1, m) \in Seq(Int) /\ Len(SubSeq(bytes, 1, m)) = m /\ m = n + 1 + q
         /\ \A k \in 1..m : SubSeq(bytes, 1, m)[k] = bytes[k]
    <2> DEFINE o == 1
               y == SubSeq(bytes, o, m)
    <2>1. /\ SubSeq(bytes, 1, m) = y /\ o \in Nat \ {0} /\ m \in Nat /\ o <= m + 1 /\ m <= Len(bytes)
          /\ (m + 1) - o = m
      BY <1>11, <1>13
    <2>4. \A k \in 1..m : (o - 1) + k = k
      OBVIOUS
    <2> HIDE DEF o
    <2>2. /\ y \in Seq(Int) /\ Len(y) = (m + 1) - o
          /\ \A k \in 1..((m + 1) - o) : y[k] = bytes[(o - 1) + k]
      <3>1. bytes \in Seq(Int)
        BY <1>11
      <3> QED
        BY ONLY <2>1, <3>1, Piece DEF y
    <2> HIDE DEF y
    <2>3. m = n + 1 + q
      BY DEF m
    <2> QED
      BY <2>1, <2>2, <2>3, <2>4
  <1> DEFINE y == SubSeq(bytes, 1, m)
  <1>18. y = want
    <2> HIDE DEF y
    <2>1. /\ y \in Seq(Int) /\ want \in Seq(Int) /\ Len(y) = Len(want) /\ Len(y) = m
          /\ \A k \in 1..m : y[k] = want[k]
      BY <1>12, <1>14, <1>17 DEF y
    <2> QED
      BY ONLY <2>1, Alike
  <1> QED
    BY <1>7, <1>16, <1>18 DEF want, x

(* For every name with at least six letters before its dot, and whatever lies in *)
(* memory behind it, get_filename gives back what convert_filename was given,  *)
(* less the letters of the extension that have no place in an entry.           *)
THEOREM NameComesBack == NamesInit => NamesComeBack
  <1> SUFFICES ASSUME NamesInit PROVE NamesComeBack
    OBVIOUS
  <1> DEFINE stem == filename.stem
             ext == filename.ext
             n == Len(stem)
             e == Len(ext)
             text == Given \o <<Null>> \o behind
             f == Field
             q == Min({Ext(n), e})
             W == stem \o [s \in 1..8 - n |-> Space]
  <1>1. /\ stem \in Seq(Letters) /\ ext \in Seq(Letters) /\ n \in 6..8 /\ e \in Nat
        /\ behind \in Seq(Int) /\ Len(behind) >= 4
    <2>1. stem \in Seq(Letters) /\ ext \in Seq(Letters) /\ n \in 6..8
      BY NamesAssumption DEF NamesInit, Letters
    <2>2. behind \in Seq(Int) /\ Len(behind) >= 4
      BY NamesAssumption DEF NamesInit
    <2> QED
      BY <2>1, <2>2, LenProperties
  <1>2. text = stem \o <<Dot>> \o ext \o <<Null>> \o behind /\ f = convert_filename(text)
    BY DEF Given, Field
  <1>3. Kept = Ext(n)
    BY Zenon DEF Kept, Ext
  <1> HIDE DEF stem, ext, text, f
  <1>4. /\ text \in Seq(Int) /\ Len(text) >= 12
        /\ \A k \in 1..n : text[k] = stem[k]
        /\ text[n + 1] = Dot
        /\ \A k \in 1..e : text[n + 1 + k] = ext[k]
        /\ text[n + 2 + e] = Null
    <2>1. n \in 6..8 /\ Len(behind) >= 4
      BY <1>1
    <2> QED
      BY <1>1, <1>2, <2>1, InMemory, ZenonT(60)
  <1> HIDE DEF n, e
  <1>5. \A k \in 1..n : stem[k] \in Letters /\ stem[k] # Dot
    <2>1. \A k \in 1..n : stem[k] \in Letters
      BY <1>1, ElementOfSeq DEF n
    <2> QED
      BY <2>1 DEF Letters, Dot
  <1>6. StemEnd(text, Dot) = n
    <2>1. \A k \in 1..n : text[k] # Dot
      BY <1>4, <1>5
    <2>2. n \in 0..8 /\ Dot \in Int
      BY <1>1 DEF Dot
    <2> QED
      BY <1>4, <2>1, <2>2, StemEndIs
  <1>7. /\ f \in Seq(Int) /\ Len(f) = 11
        /\ \A k \in 1..n : f[k] = text[k]
        /\ \A k \in n+1..8 : f[k] = Space
        /\ \A k \in 1..Ext(n) : f[8 + k] = text[n + 1 + k]
        /\ n = 8 => f[11] = Null
    BY <1>1, <1>2, <1>4, <1>6, FieldIs, ZenonT(60)
  <1>8. /\ q \in Nat /\ q <= Ext(n) /\ q <= e /\ q <= 3 /\ (e = 3 /\ Ext(n) = 3 => q = 3)
        /\ \A k \in 1..q : f[8 + k] = ext[k]
        /\ q < 3 => f[9 + q] = Null
    <2>1. ASSUME NEW k \in 1..Ext(n)
          PROVE  (k <= Len(ext) => f[8 + k] = ext[k]) /\ (k = Len(ext) + 1 => f[8 + k] = Null)
      <3>1. f[8 + k] = text[n + 1 + k] /\ k \in Nat /\ k >= 1
        BY <1>7 DEF Ext
      <3>2. ASSUME k <= e PROVE f[8 + k] = ext[k]
        <4>1. k \in 1..e
          BY <1>1, <3>1, <3>2 DEF e
        <4> QED
          BY <1>4, <3>1, <4>1
      <3>3. ASSUME k = e + 1 PROVE f[8 + k] = Null
        <4>1. n + 1 + k = n + 2 + e
          BY <1>1, <3>3 DEF n, e
        <4> QED
          BY <1>4, <3>1, <4>1
      <3> QED
        BY <3>2, <3>3 DEF e
    <2>2. Holds(f, ext, n)
      BY <1>7, <2>1 DEF Holds
    <2>3. n \in 6..8 /\ Len(ext) \in Nat
      BY <1>1 DEF n, e
    <2>4. q = Min({Ext(n), Len(ext)})
      BY DEF q, e
    <2> HIDE DEF q
    <2>5. Keeps(f, ext, n, q)
      BY ONLY <2>2, <2>3, <2>4, KeptAre
    <2> QED
      BY ONLY <2>5 DEF Keeps, e
  <1> HIDE DEF q
  <1>9. \A k \in 1..n : f[k] = stem[k]
    BY <1>4, <1>7
  <1>10. get_filename(f) = stem \o <<Dot>> \o SubSeq(ext, 1, q)
    <2>1. Len(stem) = n /\ q <= Len(ext)
      BY <1>8 DEF n, e
    <2> QED
      BY <1>1, <1>7, <1>8, <1>9, <2>1, PrintedIs
  <1>11. ASSUME e = 3, Ext(n) = 3 PROVE f = W \o ext
    <2> DEFINE sp == [s \in 1..8 - n |-> Space]
    <2>1. sp \in Seq(Int) /\ Len(sp) = 8 - n /\ \A k \in 1..8 - n : sp[k] = Space
      <3>1. 8 - n \in Nat /\ Space \in Int
        BY <1>1 DEF Space
      <3>2. DOMAIN sp = 1..8 - n /\ \A k \in 1..8 - n : sp[k] = Space
        OBVIOUS
      <3>3. sp \in [1..8 - n -> Int]
        BY <3>1
      <3> HIDE DEF sp
      <3>4. sp \in Seq(Int)
        BY <3>1, <3>3, SeqDef
      <3> QED
        BY <3>1, <3>2, <3>4, LenProperties
    <2>2. stem \in Seq(Int) /\ ext \in Seq(Int) /\ Len(stem) = n /\ Len(ext) = 3
      <3>1. Letters \subseteq Int
        BY DEF Letters
      <3>2. stem \in Seq(Int) /\ ext \in Seq(Int)
        BY <1>1, <3>1, SeqMonotonic
      <3> QED
        BY <1>11, <3>2 DEF n, e
    <2>3. W = stem \o sp
      OBVIOUS
    <2> HIDE DEF sp, W
    <2>4. /\ W \in Seq(Int) /\ Len(W) = Len(stem) + Len(sp)
          /\ \A k \in 1..Len(stem) : W[k] = stem[k]
          /\ \A k \in 1..Len(sp) : W[Len(stem) + k] = sp[k]
      BY <2>1, <2>2, <2>3, Put
    <2>5. Len(W) = 8
      BY <1>1, <2>1, <2>2, <2>4
    <2>6. /\ W \o ext \in Seq(Int) /\ Len(W \o ext) = Len(W) + Len(ext)
          /\ \A k \in 1..Len(W) : (W \o ext)[k] = W[k]
          /\ \A k \in 1..Len(ext) : (W \o ext)[Len(W) + k] = ext[k]
      <3>1. W \in Seq(Int) /\ ext \in Seq(Int)
        BY <2>2, <2>4
      <3> QED
        BY ONLY <3>1, Put
    <2>7. ASSUME NEW k \in 1..11 PROVE f[k] = (W \o ext)[k]
      <3>1. CASE k \in 1..n
        <4>1. k \in 1..Len(W)
          BY <1>1, <2>5, <3>1
        <4> QED
          BY <1>9, <2>2, <2>4, <2>6, <3>1, <4>1
      <3>2. CASE k \in n+1..8
        <4>1. k - n \in 1..8 - n /\ n + (k - n) = k /\ k \in 1..Len(W)
          BY <1>1, <2>5, <3>2
        <4>2. W[k] = Space
          BY <2>1, <2>2, <2>4, <4>1
        <4> QED
          BY <1>7, <2>6, <3>2, <4>1, <4>2
      <3>3. CASE k \in 9..11
        <4>1. k - 8 \in 1..3 /\ 8 + (k - 8) = k
          BY <3>3
        <4>2. q = 3
          BY <1>8, <1>11
        <4>3. f[8 + (k - 8)] = ext[k - 8]
          BY <1>8, <4>1, <4>2
        <4>4. (W \o ext)[8 + (k - 8)] = ext[k - 8]
          BY <2>2, <2>5, <2>6, <4>1
        <4> QED
          BY <4>1, <4>3, <4>4
      <3>4. k \in 1..n \/ k \in n+1..8 \/ k \in 9..11
        BY <1>1
      <3> QED
        BY <3>1, <3>2, <3>3, <3>4
    <2>8. Len(W \o ext) = 11
      BY <2>2, <2>5, <2>6
    <2> QED
      BY <1>7, <2>6, <2>7, <2>8, Alike
  <1> HIDE DEF W
  <1>12. get_filename(Field) = filename.stem \o <<Dot>> \o SubSeq(filename.ext, 1, Min({Kept, Len(filename.ext)}))
    BY <1>3, <1>10, Zenon DEF f, stem, ext, q, e
  <1>13. Len(filename.ext) = 3 /\ Kept = 3 =>
           Field = filename.stem \o [s \in 1..8 - Len(filename.stem) |-> Space] \o filename.ext
    BY <1>3, <1>11, Zenon DEF f, stem, ext, e, n, W
  <1> QED
    BY <1>12, <1>13, Zenon DEF NamesComeBack

------------------------------------------------------------------------------
(* The folds of the library, over the places 1 to n, for an operation that is a *)
(* table on the values M.                                                  *)

(* What holds of 0 and of each number's successor holds of every number. *)
LEMMA Counting ==
  ASSUME NEW P, 0 \in P, \A n \in Nat : n \in P => n + 1 \in P
  PROVE \A n \in Nat : n \in P
  <1> DEFINE T == {n \in Nat : n \notin P}
  <1> SUFFICES ASSUME T # {} PROVE FALSE
    OBVIOUS
  <1>1. PICK x \in T : \A y \in T : ~(<<y, x>> \in OpToRel(<, Nat))
    BY NatLessThanWellFounded, WFMin
  <1>2. x # 0 /\ x \in Nat
    OBVIOUS
  <1>3. x - 1 \in Nat /\ x - 1 < x /\ (x - 1) + 1 = x
    BY <1>2
  <1>4. x - 1 \notin P
    BY <1>3
  <1>5. <<x - 1, x>> \in OpToRel(<, Nat)
    BY <1>2, <1>3 DEF OpToRel
  <1> QED
    BY <1>1, <1>3, <1>4, <1>5

(* The greatest of the first n places. *)
LEMMA Greatest ==
  ASSUME NEW n \in Nat
  PROVE  /\ Max(1..n+1) = n + 1 /\ (1..n+1) \ {n + 1} = 1..n
         /\ \A T \in SUBSET (1..n+1) : n + 1 \in T =>
              Max(T) = n + 1 /\ T \ {n + 1} \in SUBSET (1..n)
  <1>1. ASSUME NEW T \in SUBSET (1..n+1), n + 1 \in T
        PROVE  Max(T) = n + 1 /\ T \ {n + 1} \in SUBSET (1..n)
    <2>1. \A y \in T : n + 1 >= y
      BY <1>1
    <2>2. \A x \in T : (\A y \in T : x >= y) => x = n + 1
      BY <1>1
    <2>3. Max(T) = n + 1
      BY <1>1, <2>1, <2>2 DEF Max
    <2> QED
      BY <2>3
  <1>2. (1..n+1) \ {n + 1} = 1..n /\ 1..n+1 \in SUBSET (1..n+1) /\ n + 1 \in 1..n+1
    OBVIOUS
  <1> QED
    BY <1>1, <1>2

(* One round of a fold: the greatest place of T comes last. *)
Round(base, G, it, T) == IF T = {} THEN base ELSE G[<<it[T \ {Max(T)}], Max(T)>>]

Rounds(base, G, k, it) ==
  \A T \in SUBSET (1..k) : it[T] = Round(base, G, it, T) /\ (T # {} => Max(T) \in 1..k)

Rounded(M, base, G, k) == \E it \in [SUBSET (1..k) -> M] : Rounds(base, G, k, it)

(* Every table has its rounds. *)
LEMMA RoundsExist ==
  ASSUME NEW M, NEW base \in M, NEW n \in Nat, NEW G \in [M \X (1..n) -> M]
  PROVE  Rounded(M, base, G, n)
  <1> DEFINE P == {k \in Nat : k <= n => Rounded(M, base, G, k)}
  <1>1. 0 \in P
    <2> DEFINE it == [T \in SUBSET (1..0) |-> base]
    <2>1. \A T \in SUBSET (1..0) : T = {}
      OBVIOUS
    <2>2. Rounds(base, G, 0, it) /\ it \in [SUBSET (1..0) -> M]
      BY <2>1 DEF Rounds, Round
    <2> HIDE DEF it
    <2> QED
      BY <2>2 DEF Rounded
  <1>2. ASSUME NEW k \in Nat, k \in P PROVE k + 1 \in P
    <2> SUFFICES ASSUME k + 1 <= n PROVE Rounded(M, base, G, k + 1)
      OBVIOUS
    <2>1. PICK f \in [SUBSET (1..k) -> M] : Rounds(base, G, k, f)
      <3>1. Rounded(M, base, G, k)
        BY <1>2
      <3> QED
        BY <3>1 DEF Rounded
    <2> DEFINE it == [T \in SUBSET (1..k+1) |-> IF k + 1 \in T
                        THEN G[<<f[T \ {k + 1}], k + 1>>] ELSE f[T]]
    <2>2. ASSUME NEW T \in SUBSET (1..k+1)
          PROVE  it[T] \in M /\ it[T] = Round(base, G, it, T) /\ (T # {} => Max(T) \in 1..k+1)
      <3>1. CASE k + 1 \in T
        <4>1. Max(T) = k + 1 /\ T \ {k + 1} \in SUBSET (1..k) /\ T # {}
          BY <3>1, Greatest
        <4>2. it[T \ {k + 1}] = f[T \ {k + 1}]
          BY <4>1
        <4>3. it[T] = G[<<f[T \ {k + 1}], k + 1>>]
          BY <3>1
        <4>4. k + 1 \in 1..n /\ f[T \ {k + 1}] \in M /\ k + 1 \in 1..k+1
          BY <2>1, <4>1
        <4> HIDE DEF it
        <4>5. it[T] \in M
          BY <4>3, <4>4
        <4>6. it[T] = Round(base, G, it, T)
          BY <4>1, <4>2, <4>3, Zenon DEF Round
        <4> QED
          BY <4>1, <4>4, <4>5, <4>6
      <3>2. CASE k + 1 \notin T
        <4>1. T \in SUBSET (1..k)
          BY <3>2
        <4>2. \A x : T \ {x} \in SUBSET (1..k)
          BY <4>1
        <4>3. T \ {Max(T)} \in SUBSET (1..k)
          BY <4>2, Zenon
        <4>4. \A R \in SUBSET (1..k) : it[R] = f[R]
          OBVIOUS
        <4>5. f[T] = Round(base, G, f, T) /\ (T # {} => Max(T) \in 1..k) /\ f[T] \in M
          BY <2>1, <4>1, Zenon DEF Rounds
        <4>6. it[T] = f[T] /\ it[T \ {Max(T)}] = f[T \ {Max(T)}]
          BY <4>1, <4>3, <4>4, Zenon
        <4>7. \A y \in 1..k : y \in 1..k+1
          OBVIOUS
        <4> HIDE DEF it
        <4>8. it[T] = Round(base, G, it, T)
          BY <4>5, <4>6, Zenon DEF Round
        <4> QED
          BY <4>5, <4>6, <4>7, <4>8, Zenon
      <3> QED
        BY <3>1, <3>2
    <2>3. it \in [SUBSET (1..k+1) -> M]
      <3>1. DOMAIN it = SUBSET (1..k+1) /\ it = [T \in SUBSET (1..k+1) |-> it[T]]
        OBVIOUS
      <3> HIDE DEF it
      <3> QED
        BY <2>2, <3>1
    <2> HIDE DEF it
    <2>4. Rounds(base, G, k + 1, it)
      BY <2>2 DEF Rounds
    <2> QED
      BY <2>3, <2>4 DEF Rounded
  <1> HIDE DEF P
  <1>3. n \in P
    BY <1>1, <1>2, Counting
  <1> QED
    BY <1>3 DEF P

(* Rounds that begin alike and go on alike end alike. *)
LEMMA Along ==
  ASSUME NEW n \in Nat, NEW it, NEW F, it[1..0] = F[0],
         \A k \in 1..n : it[1..k-1] = F[k - 1] => it[1..k] = F[k]
  PROVE  it[1..n] = F[n]
  <1> DEFINE P == {k \in Nat : k <= n => it[1..k] = F[k]}
  <1>1. 0 \in P
    OBVIOUS
  <1>2. ASSUME NEW k \in Nat, k \in P PROVE k + 1 \in P
    <2> SUFFICES ASSUME k + 1 <= n PROVE it[1..k+1] = F[k + 1]
      OBVIOUS
    <2>1. it[1..k] = F[k] /\ k + 1 \in 1..n /\ (k + 1) - 1 = k
      BY <1>2
    <2> QED
      BY <2>1
  <1> HIDE DEF P
  <1>3. n \in P
    BY <1>1, <1>2, Counting
  <1> QED
    BY <1>3 DEF P

(* The memory after a sequence of stores, and after one that replaces zeros.   *)
Stored(m, s) == FoldLeft(Store, m, s)
StoredOr(m, s, def) == FoldLeft(LAMBDA mem, st : StoreDefault(mem, st, def), m, s)

(* A copy, the fold of its stores, ends with the last of the memories F that the *)
(* stores make of one another.                                             *)
Stores1to(n, s, M, m, F) ==
  /\ m \in M /\ n \in Nat /\ DOMAIN s = 1..n
  /\ \A x \in M : \A h \in 1..n : Store(x, s[h]) \in M
  /\ F[0] = m /\ \A k \in 1..n : Store(F[k - 1], s[k]) = F[k]
(* A plain copy ends with the last of these memories.                       *)
LEMMA StoreFold ==
  ASSUME NEW M, NEW m, NEW n, NEW s, NEW F, Stores1to(n, s, M, m, F)
  PROVE  Stored(m, s) = F[n]
  <1> DEFINE G == [p \in M \X (1..n) |-> Store(p[1], s[p[2]])]
             Turn(it, T) == IF T = {} THEN m ELSE Store(it[T \ {Max(T)}], s[Max(T)])
             Turns(it) == it = [T \in SUBSET (1..n) |-> Turn(it, T)]
             jt == CHOOSE it : Turns(it)
  <1>0. /\ m \in M /\ n \in Nat /\ DOMAIN s = 1..n
        /\ \A x \in M : \A h \in 1..n : Store(x, s[h]) \in M
        /\ F[0] = m /\ \A k \in 1..n : Store(F[k - 1], s[k]) = F[k]
    BY DEF Stores1to
  <1>1. G \in [M \X (1..n) -> M] /\ \A x \in M : \A h \in 1..n : G[<<x, h>>] = Store(x, s[h])
    BY <1>0
  <1> HIDE DEF G
  <1> HIDE DEF Turns, jt, Turn
  <1>2. PICK it \in [SUBSET (1..n) -> M] : Rounds(m, G, n, it)
    BY <1>0, <1>1, RoundsExist DEF Rounded
  <1>12. \A T \in SUBSET (1..n) : it[T] = Round(m, G, it, T) /\ (T # {} => Max(T) \in 1..n)
    BY <1>2 DEF Rounds
  <1>3. ASSUME NEW T \in SUBSET (1..n) PROVE it[T] = Turn(it, T)
    <2>1. T # {} => it[T \ {Max(T)}] \in M
      <3>1. \A x : T \ {x} \in SUBSET (1..n)
        OBVIOUS
      <3>2. T \ {Max(T)} \in SUBSET (1..n)
        BY <3>1, Zenon
      <3> QED
        BY <1>2, <3>2
    <2>2. T # {} => G[<<it[T \ {Max(T)}], Max(T)>>] = Store(it[T \ {Max(T)}], s[Max(T)])
      BY <1>1, <1>12, <2>1, Zenon
    <2>3. it[T] = Round(m, G, it, T)
      BY <1>12
    <2> QED
      BY <2>2, <2>3, Zenon DEF Round, Turn
  <1>4. Turns(it)
    <2>1. it = [T \in SUBSET (1..n) |-> it[T]]
      BY <1>2
    <2> QED
      BY <1>3, <2>1, Zenon DEF Turns
  <1>5. Turns(jt)
    <2> QED
      BY <1>4, Zenon DEF jt
  <1>6. Stored(m, s) = jt[1..n]
    <2>1. Stored(m, s) = (CHOOSE it_ : it_ = [T \in SUBSET DOMAIN s |->
            IF T = {} THEN m ELSE Store(it_[T \ {Max(T)}], s[Max(T)])])[DOMAIN s]
      BY Zenon DEF Stored, StoredOr, FoldLeft, MapThenFoldSet
    <2> QED
      BY <1>0, <2>1, Zenon DEF jt, Turns, Turn
  <1>7. \A T \in SUBSET (1..n) : jt[T] = Turn(jt, T)
    <2>1. jt = [T \in SUBSET (1..n) |-> Turn(jt, T)]
      BY <1>5, Zenon DEF Turns
    <2> QED
      BY <2>1
  <1>8. jt[1..0] = F[0]
    <2>1. 1..0 = {} /\ {} \in SUBSET (1..n)
      OBVIOUS
    <2>2. jt[{}] = m
      BY <1>7, <2>1 DEF Turn
    <2> QED
      BY <1>0, <2>1, <2>2
  <1>9. ASSUME NEW k \in 1..n, jt[1..k-1] = F[k - 1] PROVE jt[1..k] = F[k]
    <2>1. 1..k \in SUBSET (1..n) /\ 1..k # {} /\ k - 1 \in Nat /\ (k - 1) + 1 = k
      <3>1. k \in Nat /\ k >= 1 /\ k <= n /\ n \in Nat
        BY <1>0
      <3>2. k \in 1..k /\ \A j \in 1..k : j \in 1..n
        BY <3>1
      <3>3. 1..k \in SUBSET (1..n) /\ 1..k # {}
        BY <3>2
      <3> QED
        BY <3>1, <3>3
    <2>2. Max(1..k) = k /\ (1..k) \ {k} = 1..k-1
      BY <2>1, Greatest
    <2>3. jt[1..k] = Turn(jt, 1..k)
      BY <1>7, <2>1
    <2> QED
      BY <1>0, <1>9, <2>1, <2>2, <2>3, SMTT(40), ZenonT(40) DEF Turn
  <1>10. jt[1..n] = F[n]
    BY <1>0, <1>8, <1>9, Along
  <1> QED
    BY <1>6, <1>10

(* The same of a copy that replaces zeros.                                  *)
Defaults1to(n, s, M, m, F, def) ==
  /\ m \in M /\ n \in Nat /\ DOMAIN s = 1..n
  /\ \A x \in M : \A h \in 1..n : StoreDefault(x, s[h], def) \in M
  /\ F[0] = m /\ \A k \in 1..n : StoreDefault(F[k - 1], s[k], def) = F[k]
(* So does a copy that replaces zeros.                                      *)
LEMMA DefaultFold ==
  ASSUME NEW M, NEW m, NEW n, NEW s, NEW def, NEW F, Defaults1to(n, s, M, m, F, def)
  PROVE  StoredOr(m, s, def) = F[n]
  <1> DEFINE G == [p \in M \X (1..n) |-> StoreDefault(p[1], s[p[2]], def)]
             Turn(it, T) == IF T = {} THEN m ELSE StoreDefault(it[T \ {Max(T)}], s[Max(T)], def)
             Turns(it) == it = [T \in SUBSET (1..n) |-> Turn(it, T)]
             jt == CHOOSE it : Turns(it)
  <1>0. /\ m \in M /\ n \in Nat /\ DOMAIN s = 1..n
        /\ \A x \in M : \A h \in 1..n : StoreDefault(x, s[h], def) \in M
        /\ F[0] = m /\ \A k \in 1..n : StoreDefault(F[k - 1], s[k], def) = F[k]
    BY DEF Defaults1to
  <1>1. G \in [M \X (1..n) -> M] /\ \A x \in M : \A h \in 1..n : G[<<x, h>>] = StoreDefault(x, s[h], def)
    BY <1>0
  <1> HIDE DEF G
  <1> HIDE DEF Turns, jt, Turn
  <1>2. PICK it \in [SUBSET (1..n) -> M] : Rounds(m, G, n, it)
    BY <1>0, <1>1, RoundsExist DEF Rounded
  <1>12. \A T \in SUBSET (1..n) : it[T] = Round(m, G, it, T) /\ (T # {} => Max(T) \in 1..n)
    BY <1>2 DEF Rounds
  <1>3. ASSUME NEW T \in SUBSET (1..n) PROVE it[T] = Turn(it, T)
    <2>1. T # {} => it[T \ {Max(T)}] \in M
      <3>1. \A x : T \ {x} \in SUBSET (1..n)
        OBVIOUS
      <3>2. T \ {Max(T)} \in SUBSET (1..n)
        BY <3>1, Zenon
      <3> QED
        BY <1>2, <3>2
    <2>2. T # {} => G[<<it[T \ {Max(T)}], Max(T)>>] = StoreDefault(it[T \ {Max(T)}], s[Max(T)], def)
      BY <1>1, <1>12, <2>1, Zenon
    <2>3. it[T] = Round(m, G, it, T)
      BY <1>12
    <2> QED
      BY <2>2, <2>3, Zenon DEF Round, Turn
  <1>4. Turns(it)
    <2>1. it = [T \in SUBSET (1..n) |-> it[T]]
      BY <1>2
    <2> QED
      BY <1>3, <2>1, Zenon DEF Turns
  <1>5. Turns(jt)
    <2> QED
      BY <1>4, Zenon DEF jt
  <1>6. StoredOr(m, s, def) = jt[1..n]
    <2>1. StoredOr(m, s, def) = (CHOOSE it_ : it_ = [T \in SUBSET DOMAIN s |->
            IF T = {} THEN m ELSE StoreDefault(it_[T \ {Max(T)}], s[Max(T)], def)])[DOMAIN s]
      BY Zenon DEF Stored, StoredOr, FoldLeft, MapThenFoldSet
    <2> QED
      BY <1>0, <2>1, Zenon DEF jt, Turns, Turn
  <1>7. \A T \in SUBSET (1..n) : jt[T] = Turn(jt, T)
    <2>1. jt = [T \in SUBSET (1..n) |-> Turn(jt, T)]
      BY <1>5, Zenon DEF Turns
    <2> QED
      BY <2>1
  <1>8. jt[1..0] = F[0]
    <2>1. 1..0 = {} /\ {} \in SUBSET (1..n)
      OBVIOUS
    <2>2. jt[{}] = m
      BY <1>7, <2>1 DEF Turn
    <2> QED
      BY <1>0, <2>1, <2>2
  <1>9. ASSUME NEW k \in 1..n, jt[1..k-1] = F[k - 1] PROVE jt[1..k] = F[k]
    <2>1. 1..k \in SUBSET (1..n) /\ 1..k # {} /\ k - 1 \in Nat /\ (k - 1) + 1 = k
      <3>1. k \in Nat /\ k >= 1 /\ k <= n /\ n \in Nat
        BY <1>0
      <3>2. k \in 1..k /\ \A j \in 1..k : j \in 1..n
        BY <3>1
      <3>3. 1..k \in SUBSET (1..n) /\ 1..k # {}
        BY <3>2
      <3> QED
        BY <3>1, <3>3
    <2>2. Max(1..k) = k /\ (1..k) \ {k} = 1..k-1
      BY <2>1, Greatest
    <2>3. jt[1..k] = Turn(jt, 1..k)
      BY <1>7, <2>1
    <2> QED
      BY <1>0, <1>9, <2>1, <2>2, <2>3, SMTT(40), ZenonT(40) DEF Turn
  <1>10. jt[1..n] = F[n]
    BY <1>0, <1>8, <1>9, Along, ZenonT(60)
  <1> QED
    BY <1>6, <1>10

------------------------------------------------------------------------------
(* The stores of a copy.                                                   *)

Words(d, s, n) == IF Aligned(d, s) THEN n \div Word ELSE 0

(* The stores of a copy, and the bytes that the first h of them store.        *)
Count(d, s, n) == Words(d, s, n) + LeftOver(n, Words(d, s, n))
Reach(w, unit, h) == IF h <= w THEN Word * h ELSE Word * w + unit * (h - w)

(* Words and rest make up the size.                                        *)
LEMMA WordsFit ==
  ASSUME NEW d \in Nat, NEW s \in Nat, NEW n \in Nat
  PROVE  /\ Words(d, s, n) \in Nat /\ Count(d, s, n) \in Nat
         /\ Word * Words(d, s, n) <= n
         /\ Count(d, s, n) = Words(d, s, n) + (n - Word * Words(d, s, n))
         /\ Word * Words(d, s, n) = IF Aligned(d, s) THEN n - (n % Word) ELSE 0
  <1>1. n \div 4 \in Nat /\ n % 4 \in 0..3 /\ n = 4 * (n \div 4) + (n % 4)
    OBVIOUS
  <1>2. CASE Aligned(d, s)
    BY <1>1, <1>2 DEF Words, Count, LeftOver, Word
  <1>3. CASE ~Aligned(d, s)
    BY <1>3 DEF Words, Count, LeftOver, Word
  <1> QED
    BY <1>2, <1>3

(* The stores of an upward copy follow one another without a gap: words, then *)
(* units.                                                                  *)
Follows(st, d, s, p, q, w) ==
  st.dst = d + p /\ st.src = s + p /\ st.len = q - p /\ p \in Nat /\ q \in Nat /\ p < q
  /\ (st.word => q <= Word * w) /\ (~st.word => p >= Word * w)
InOrder(d, s, n, unit) ==
  LET w == Words(d, s, n)
      N == Count(d, s, n)
      sts == Stores(d, s, n, 1, unit) IN
    /\ DOMAIN sts = 1..N
    /\ \A h \in 1..N : Follows(sts[h], d, s, Reach(w, unit, h - 1), Reach(w, unit, h), w)
    /\ \A h \in 1..N : Reach(w, unit, h) <= Reach(w, unit, N)
    /\ \A h \in 1..N : ~sts[h].word => sts[h].len = unit
    /\ Reach(w, unit, 0) = 0 /\ Reach(w, unit, N) = Word * w + unit * (n - Word * w)
(* An upward copy, in bytes or in 16 bits, stores in this order.            *)
LEMMA StoresFollow ==
  ASSUME NEW d \in Nat, NEW s \in Nat, NEW n \in Nat, NEW unit \in {1, 2}
  PROVE  InOrder(d, s, n, unit)
  <1> DEFINE w == Words(d, s, n)
             N == Count(d, s, n)
             sts == Stores(d, s, n, 1, unit)
             Spot(a, h) == IF h <= w THEN a + 1 * Word * (h - 1)
                         ELSE a + 1 * (Word * w + unit * (h - w - 1))
  <1>1. w \in Nat /\ N \in Nat /\ N >= w /\ Word * w <= n /\ N = w + (n - Word * w) /\ Word = 4
    <2>1. w \in Nat /\ N \in Nat /\ Word * w <= n /\ N = w + (n - Word * w)
      BY WordsFit
    <2> HIDE DEF w, N
    <2> QED
      BY <2>1 DEF Word
  <1>2. sts = [h \in 1..N |->
           [dst |-> Spot(d, h), src |-> Spot(s, h), len |-> IF h <= w THEN Word ELSE unit,
            word |-> h <= w]]
    BY Zenon DEF Stores, Words, Count
  <1> HIDE DEF w, N, sts
  <1>3. DOMAIN sts = 1..N
    BY <1>2
  <1>4. ASSUME NEW h \in 1..N
        PROVE  /\ Follows(sts[h], d, s, Reach(w, unit, h - 1), Reach(w, unit, h), w)
               /\ Reach(w, unit, h) <= Reach(w, unit, N)
               /\ ~sts[h].word => sts[h].len = unit
    <2>1. /\ sts[h].dst = Spot(d, h) /\ sts[h].src = Spot(s, h)
          /\ sts[h].len = (IF h <= w THEN Word ELSE unit) /\ sts[h].word = (h <= w)
      BY <1>2, Zenon
    <2>2. h \in Nat /\ h >= 1 /\ h <= N /\ w \in Nat /\ N \in Nat /\ N >= w /\ Word = 4 /\ d \in Nat /\ s \in Nat
      BY <1>1
    <2> DEFINE p == Reach(w, unit, h - 1)
               q == Reach(w, unit, h)
    <2>3. /\ p \in Nat /\ q \in Nat /\ p < q /\ q <= Reach(w, unit, N)
          /\ Spot(d, h) = d + p /\ Spot(s, h) = s + p
          /\ q - p = (IF h <= w THEN Word ELSE unit)
          /\ (h <= w => q <= Word * w) /\ (~(h <= w) => p >= Word * w)
      <3>1. CASE unit = 1
        BY ONLY <2>2, <3>1 DEF Reach, Spot, Word, p, q
      <3>2. CASE unit = 2
        <4>1. CASE h <= w
          BY ONLY <2>2, <3>2, <4>1 DEF Reach, Spot, Word, p, q
        <4>2. CASE h > w
          <5>1. p = 4 * w + 2 * (h - 1 - w) /\ q = 4 * w + 2 * (h - w)
            BY ONLY <2>2, <3>2, <4>2 DEF Reach, Word, p, q
          <5>2. Reach(w, unit, N) = 4 * w + 2 * (N - w)
            BY ONLY <2>2, <3>2, <4>2 DEF Reach, Word
          <5>3. Spot(d, h) = d + p /\ Spot(s, h) = s + p
            BY ONLY <2>2, <3>2, <4>2, <5>1 DEF Spot, Word
          <5> HIDE DEF Spot, p, q
          <5> QED
            BY ONLY <2>2, <3>2, <4>2, <5>1, <5>2, <5>3 DEF Word
        <4> QED
          BY <2>2, <4>1, <4>2
      <3> QED
        BY <3>1, <3>2
    <2> HIDE DEF p, q, Spot
    <2>4. Follows(sts[h], d, s, p, q, w)
      BY <2>1, <2>3, Zenon DEF Follows
    <2>5. ~sts[h].word => sts[h].len = unit
      BY <2>1
    <2> QED
      BY <2>3, <2>4, <2>5 DEF p, q
  <1>5. Reach(w, unit, 0) = 0 /\ Reach(w, unit, N) = Word * w + unit * (n - Word * w)
    <2>1. N = w \/ N > w
      BY <1>1
    <2>2. N - w = n - Word * w
      BY <1>1
    <2> QED
      BY <1>1, <2>1, <2>2 DEF Reach
  <1> QED
    BY <1>3, <1>4, <1>5 DEF w, N, sts, InOrder

(* The memory m after the bytes from lo to hi have become those of v.         *)
Part(m, v, lo, hi) == [a \in DOMAIN m |-> IF a \in lo..hi THEN v[a] ELSE m[a]]

(* The regions of a copy lie in the memory, and none of what is still to be read *)
(* has been overwritten when a copy goes up.                                *)
Upward(m, d, s, total) ==
  /\ d \in Nat /\ s \in Nat /\ total \in Nat
  /\ \E top \in Nat : m \in [0..top -> Int] /\ s + total <= top + 1
  /\ d <= s \/ Apart(d, s, total)
Source(m, d, s, a) == m[s + a - d]

(* What is left to copy above e still stands there when all up to e has been copied. *)
Fresh(m, v, d, s, total, e) ==
  \A a \in Int : e < a /\ d <= a /\ a < d + total =>
    Part(m, v, d, e)[s + a - d] = Source(m, d, s, a)

(* One store of an upward copy reads what stood there at first.               *)
LEMMA ReadsFirst ==
  ASSUME NEW m, NEW v, NEW d, NEW s, NEW total, Upward(m, d, s, total), NEW e \in Int
  PROVE  Fresh(m, v, d, s, total, e)
  <1>1. PICK top \in Nat : m \in [0..top -> Int] /\ s + total <= top + 1
    BY DEF Upward
  <1>2. d \in Nat /\ s \in Nat /\ total \in Nat /\ (d <= s \/ d + total <= s \/ s + total <= d)
    BY DEF Upward, Apart
  <1>3. ASSUME NEW a \in Int, e < a, d <= a, a < d + total
        PROVE  Part(m, v, d, e)[s + a - d] = Source(m, d, s, a)
    <2>1. PICK b \in Int : b = s + a - d
      BY <1>2, <1>3
    <2>2. b \in 0..top /\ b \notin d..e
      BY <1>1, <1>2, <1>3, <2>1
    <2>3. DOMAIN m = 0..top
      BY <1>1
    <2>4. Part(m, v, d, e)[b] = m[b]
      BY <2>2, <2>3 DEF Part
    <2> QED
      BY <2>1, <2>4 DEF Source
  <1> QED
    BY <1>3 DEF Fresh

Agrees(m, v, d, s, p, q) ==
  \A a \in (d + p .. d + q - 1) \cap DOMAIN m : v[a] = Source(m, d, s, a)
(* One store of an upward copy turns its bytes into those of v.             *)
LEMMA StoreUp ==
  ASSUME NEW m, NEW v, NEW d, NEW s, NEW total, Upward(m, d, s, total),
         NEW p, NEW q, q <= total, NEW w, NEW st, Follows(st, d, s, p, q, w),
         Agrees(m, v, d, s, p, q)
  PROVE  Store(Part(m, v, d, d + p - 1), st) = Part(m, v, d, d + q - 1)
  <1> DEFINE x == Part(m, v, d, d + p - 1)
             y == Part(m, v, d, d + q - 1)
  <1>1. PICK top \in Nat : m \in [0..top -> Int] /\ s + total <= top + 1
    BY DEF Upward
  <1>2. d \in Nat /\ s \in Nat /\ total \in Nat /\ p \in Nat /\ q \in Nat /\ p < q
        /\ st.dst = d + p /\ st.src = s + p /\ st.len = q - p
    BY DEF Upward, Follows
  <1>3. Covered(st) = d + p .. d + q - 1
    <2>1. st.dst + st.len - 1 = d + q - 1
      BY <1>2
    <2> QED
      BY <1>2, <2>1 DEF Covered
  <1>4. DOMAIN x = DOMAIN m /\ DOMAIN y = DOMAIN m /\ DOMAIN m = 0..top
    BY <1>1 DEF Part
  <1>5. ASSUME NEW a \in DOMAIN m
        PROVE  (IF a \in Covered(st) THEN x[st.src + a - st.dst] ELSE x[a]) = y[a]
    <2>1. a \in Nat
      BY <1>1, <1>5
    <2>2. CASE a \in d + p .. d + q - 1
      <3>1. st.src + a - st.dst = s + a - d
        BY <1>2, <2>1
      <3>2. x[s + a - d] = Source(m, d, s, a)
        <4>1. PICK e \in Int : e = d + p - 1
          BY <1>2
        <4>2. a \in Int /\ e < a /\ d <= a /\ a < d + total
          BY <1>2, <2>2, <4>1
        <4>3. Fresh(m, v, d, s, total, e)
          BY ReadsFirst
        <4> HIDE DEF x
        <4>4. Part(m, v, d, e)[s + a - d] = Source(m, d, s, a)
          BY <4>2, <4>3, Zenon DEF Fresh
        <4> QED
          BY <4>1, <4>4 DEF x
      <3>3. y[a] = v[a] /\ v[a] = Source(m, d, s, a)
        <4>1. a \in d..d + q - 1
          BY <1>2, <2>2
        <4> QED
          BY <1>5, <2>2, <4>1 DEF Part, Agrees
      <3> QED
        BY <1>3, <2>2, <3>1, <3>2, <3>3
    <2>3. CASE a \notin d + p .. d + q - 1
      <3>1. a \in d..d + q - 1 <=> a \in d..d + p - 1
        BY <1>2, <2>1, <2>3
      <3> QED
        BY <1>3, <1>5, <2>3, <3>1 DEF Part
    <2> QED
      BY <2>2, <2>3
  <1>6. y = [a \in DOMAIN m |-> y[a]]
    BY DEF Part
  <1> HIDE DEF x, y
  <1>7. Store(x, st) = [a \in DOMAIN m |-> IF a \in Covered(st) THEN x[st.src + a - st.dst] ELSE x[a]]
    BY <1>4 DEF Store
  <1>8. Store(x, st) = y
    BY <1>5, <1>6, <1>7
  <1> QED
    BY <1>8 DEF x, y

(* A store keeps a memory a memory if it reads inside of it.                  *)
LEMMA StoreKeeps ==
  ASSUME NEW top \in Nat, NEW x \in [0..top -> Int], NEW st,
         st.dst \in Int, st.src \in Nat, st.len \in Nat, st.src + st.len <= top + 1
  PROVE  Store(x, st) \in [0..top -> Int]
  <1>1. DOMAIN x = 0..top
    OBVIOUS
  <1>2. ASSUME NEW a \in 0..top, a \in Covered(st) PROVE x[st.src + a - st.dst] \in Int
    <2>1. PICK e \in Int, r \in Nat, l \in Nat : e = st.dst /\ r = st.src /\ l = st.len
      OBVIOUS
    <2>2. a \in e .. e + l - 1 /\ r + l <= top + 1
      BY <1>2, <2>1 DEF Covered
    <2>3. r + a - e \in 0..top
      BY <2>2
    <2> QED
      BY <2>1, <2>3
  <1>3. \A a \in 0..top : x[a] \in Int
    OBVIOUS
  <1> QED
    BY <1>1, <1>2, <1>3 DEF Store

(* What an upward copy of total bytes leaves behind.                         *)
Result(m, d, s, total) ==
  [a \in DOMAIN m |-> IF a \in d..d + total - 1 THEN Source(m, d, s, a) ELSE m[a]]

(* An upward copy, in words and units, is as if everything had been read first. *)
LEMMA CopyUp ==
  ASSUME NEW d \in Nat, NEW s \in Nat, NEW n \in Nat, NEW unit \in {1, 2}, NEW total,
         total = Word * Words(d, s, n) + unit * (n - Word * Words(d, s, n)),
         NEW m, Upward(m, d, s, total)
  PROVE  Stored(m, Stores(d, s, n, 1, unit)) = Result(m, d, s, total)
  <1> DEFINE w == Words(d, s, n)
             N == Count(d, s, n)
             sts == Stores(d, s, n, 1, unit)
             v == Result(m, d, s, total)
             F == [k \in 0..N |-> Part(m, v, d, d + Reach(w, unit, k) - 1)]
  <1>1. PICK top \in Nat : m \in [0..top -> Int] /\ s + total <= top + 1
    BY DEF Upward
  <1>2. /\ DOMAIN sts = 1..N /\ N \in Nat
        /\ \A h \in 1..N : Follows(sts[h], d, s, Reach(w, unit, h - 1), Reach(w, unit, h), w)
        /\ \A h \in 1..N : Reach(w, unit, h) <= total
        /\ Reach(w, unit, 0) = 0 /\ Reach(w, unit, N) = total
    <2>1. InOrder(d, s, n, unit)
      BY StoresFollow
    <2>3. N \in Nat
      BY WordsFit
    <2> QED
      BY <2>1, <2>3, Zenon DEF InOrder
  <1>3. total \in Nat
    BY DEF Upward
  <1> HIDE DEF w, N, sts
  <1>4. ASSUME NEW x \in [0..top -> Int], NEW h \in 1..N PROVE Store(x, sts[h]) \in [0..top -> Int]
    <2>1. PICK p, q : Follows(sts[h], d, s, p, q, w) /\ q <= total
      BY <1>2
    <2>2. sts[h].dst \in Int /\ sts[h].src \in Nat /\ sts[h].len \in Nat /\ sts[h].src + sts[h].len <= top + 1
      BY <1>1, <1>3, <2>1 DEF Follows
    <2> QED
      BY <2>2, StoreKeeps
  <1>5. ASSUME NEW a \in DOMAIN m, a \in d..d + total - 1 PROVE v[a] = Source(m, d, s, a)
    BY <1>5 DEF Result
  <1>6. ASSUME NEW k \in 1..N PROVE Store(F[k - 1], sts[k]) = F[k]
    <2> DEFINE p == Reach(w, unit, k - 1)
               q == Reach(w, unit, k)
    <2>1. Follows(sts[k], d, s, p, q, w) /\ q <= total
      BY <1>2
    <2>2. F[k - 1] = Part(m, v, d, d + p - 1) /\ F[k] = Part(m, v, d, d + q - 1)
      <3>1. k - 1 \in 0..N /\ k \in 0..N
        BY <1>2
      <3> QED
        BY <3>1
    <2> HIDE DEF F, v, p, q
    <2>3. p \in Nat /\ q \in Nat
      BY <2>1 DEF Follows
    <2>4. Agrees(m, v, d, s, p, q)
      <3>1. \A a \in d + p .. d + q - 1 : a \in d..d + total - 1
        BY <1>3, <2>1, <2>3
      <3> QED
        BY <1>5, <3>1 DEF Agrees
    <2>5. Store(Part(m, v, d, d + p - 1), sts[k]) = Part(m, v, d, d + q - 1)
      BY <2>1, <2>4, StoreUp
    <2> QED
      BY <2>2, <2>5
  <1>7. F[0] = m /\ F[N] = v
    <2>1. 0 \in 0..N /\ N \in 0..N
      BY <1>2
    <2>2. F[0] = Part(m, v, d, d - 1) /\ F[N] = Part(m, v, d, d + total - 1)
      BY <1>2, <2>1
    <2>3. d..d - 1 = {}
      OBVIOUS
    <2>4. Part(m, v, d, d - 1) = m
      BY <1>1, <2>3 DEF Part
    <2>5. \A a \in DOMAIN m : a \notin d..d + total - 1 => v[a] = m[a]
      BY DEF Result
    <2>6. v = [a \in DOMAIN m |-> v[a]]
      BY DEF Result
    <2> HIDE DEF v
    <2>7. Part(m, v, d, d + total - 1) = v
      BY <2>5, <2>6 DEF Part
    <2> QED
      BY <2>2, <2>4, <2>7
  <1> HIDE DEF F, v
  <1>8. Stored(m, sts) = F[N]
    <2> DEFINE M == [0..top -> Int]
    <2>1. m \in M /\ \A x \in M : \A h \in 1..N : Store(x, sts[h]) \in M
      BY <1>1, <1>4
    <2>2. N \in Nat /\ DOMAIN sts = 1..N
      BY <1>2
    <2> HIDE DEF M
    <2>3. \A k \in 1..N : Store(F[k - 1], sts[k]) = F[k]
      BY <1>6
    <2>4. Stores1to(N, sts, M, m, F)
      BY <1>7, <2>1, <2>2, <2>3 DEF Stores1to
    <2> QED
      BY ONLY <2>4, StoreFold
  <1> QED
    BY <1>7, <1>8 DEF v, sts

(* What memcpy_def leaves behind: zeros among the bytes copied singly, from the *)
(* edge on, have been replaced.                                            *)
Replaced(m, d, s, n, edge, def) ==
  [a \in DOMAIN m |->
     IF a \in d..d + n - 1
       THEN IF a >= edge /\ Source(m, d, s, a) = 0 THEN def[1] ELSE Source(m, d, s, a)
       ELSE m[a]]

(* memcpy_def, in words and bytes, is as if everything had been read first. *)
LEMMA DefaultUp ==
  ASSUME NEW d \in Nat, NEW s \in Nat, NEW n \in Nat, NEW m, Upward(m, d, s, n),
         NEW def, def[1] \in Int
  PROVE  memcpy_def(m, d, s, def, n) = Replaced(m, d, s, n, d + Word * Words(d, s, n), def)
  <1> DEFINE w == Words(d, s, n)
             N == Count(d, s, n)
             sts == Stores(d, s, n, 1, 1)
             v == Replaced(m, d, s, n, d + Word * w, def)
             F == [k \in 0..N |-> Part(m, v, d, d + Reach(w, 1, k) - 1)]
  <1>1. PICK top \in Nat : m \in [0..top -> Int] /\ s + n <= top + 1
    BY DEF Upward
  <1>2. /\ DOMAIN sts = 1..N /\ N \in Nat /\ w \in Nat
        /\ \A h \in 1..N : Follows(sts[h], d, s, Reach(w, 1, h - 1), Reach(w, 1, h), w)
        /\ \A h \in 1..N : Reach(w, 1, h) <= n
        /\ \A h \in 1..N : ~sts[h].word => sts[h].len = 1
        /\ Reach(w, 1, 0) = 0 /\ Reach(w, 1, N) = n
    <2>1. 1 \in {1, 2} /\ w \in Nat /\ Word * w + 1 * (n - Word * w) = n
      <3>1. w \in Nat
        BY WordsFit
      <3> HIDE DEF w
      <3> QED
        BY <3>1 DEF Word
    <2> QED
      <3>1. InOrder(d, s, n, 1) /\ N \in Nat
        BY <2>1, StoresFollow, WordsFit
      <3> QED
        BY <2>1, <3>1, Zenon DEF InOrder
  <1> HIDE DEF w, N, sts
  <1>3. ASSUME NEW x \in [0..top -> Int], NEW h \in 1..N
        PROVE  StoreDefault(x, sts[h], def) \in [0..top -> Int]
    <2>1. PICK p, q : Follows(sts[h], d, s, p, q, w) /\ q <= n
      BY <1>2
    <2>2. sts[h].dst \in Int /\ sts[h].src \in Nat /\ sts[h].len \in Nat /\ sts[h].src + sts[h].len <= top + 1
      BY <1>1, <2>1 DEF Follows
    <2>3. Store(x, sts[h]) \in [0..top -> Int]
      BY <2>2, StoreKeeps
    <2>4. CASE ~sts[h].word
      <3> DEFINE y == [a \in DOMAIN x |-> IF a \in Covered(sts[h]) THEN def[a - sts[h].dst + 1] ELSE x[a]]
      <3>1. \A a \in Covered(sts[h]) : a - sts[h].dst + 1 = 1
        <4>1. PICK e \in Int : e = sts[h].dst
          BY <2>2
        <4>2. Covered(sts[h]) = e .. e + 1 - 1
          BY <1>2, <2>4, <4>1 DEF Covered
        <4> QED
          BY <4>1, <4>2
      <3>2. y \in [0..top -> Int]
        BY <3>1
      <3> HIDE DEF y
      <3>3. StoreDefault(x, sts[h], def) = y \/ StoreDefault(x, sts[h], def) = Store(x, sts[h])
        BY Zenon DEF StoreDefault, y
      <3> QED
        BY <2>3, <3>2, <3>3
    <2>5. CASE sts[h].word
      <3>1. StoreDefault(x, sts[h], def) = Store(x, sts[h])
        BY <2>5, Zenon DEF StoreDefault
      <3> QED
        BY <2>3, <3>1
    <2> QED
      BY <2>4, <2>5
  <1>4. ASSUME NEW a \in DOMAIN m, a \in d..d + n - 1
        PROVE  v[a] = IF a >= d + Word * w /\ Source(m, d, s, a) = 0 THEN def[1] ELSE Source(m, d, s, a)
    BY <1>4 DEF Replaced
  <1>5. ASSUME NEW k \in 1..N PROVE StoreDefault(F[k - 1], sts[k], def) = F[k]
    <2> DEFINE p == Reach(w, 1, k - 1)
               q == Reach(w, 1, k)
               x == Part(m, v, d, d + p - 1)
               y == Part(m, v, d, d + q - 1)
               st == sts[k]
    <2>1. Follows(st, d, s, p, q, w) /\ q <= n /\ (~st.word => st.len = 1)
      BY <1>2
    <2>2. F[k - 1] = x /\ F[k] = y
      <3>1. k - 1 \in 0..N /\ k \in 0..N
        BY <1>2
      <3> QED
        BY <3>1
    <2> HIDE DEF F, v, p, q, st
    <2>3. /\ p \in Nat /\ q \in Nat /\ p < q /\ st.dst = d + p /\ st.src = s + p /\ st.len = q - p
          /\ (st.word => q <= Word * w) /\ (~st.word => p >= Word * w)
      BY <2>1 DEF Follows
    <2>4. \A a \in d + p .. d + q - 1 : a \in d..d + n - 1
      BY <2>1, <2>3
    <2>5. ASSUME Agrees(m, v, d, s, p, q)
          PROVE  Store(x, st) = y
      BY <2>1, <2>5, StoreUp
    <2>6. ASSUME st.word PROVE StoreDefault(x, st, def) = y
      <3>1. StoreDefault(x, st, def) = Store(x, st)
        BY <2>6, Zenon DEF StoreDefault
      <3>2. \A a \in d + p .. d + q - 1 : ~(a >= d + Word * w)
        BY <1>2, <2>3, <2>6 DEF Word
      <3>3. Agrees(m, v, d, s, p, q)
        BY <1>4, <2>4, <3>2 DEF Agrees
      <3> QED
        BY <2>5, <3>1, <3>3
    <2>7. ASSUME ~st.word PROVE StoreDefault(x, st, def) = y
      <3>1. q = p + 1 /\ p >= Word * w
        BY <2>1, <2>3, <2>7
      <3>2. /\ x[st.src + 0] = Source(m, d, s, d + p) /\ d + p >= d + Word * w
            /\ \A h \in 0..st.len - 1 : h = 0
            /\ 0 \in 0..st.len - 1
        <4>1. st.src + 0 = s + (d + p) - d /\ d + p \in d + p .. d + q - 1
          BY <2>3, <3>1
        <4>2. Part(m, v, d, d + p - 1)[s + (d + p) - d] = Source(m, d, s, d + p)
          <5>1. PICK e \in Int, a \in Int : e = d + p - 1 /\ a = d + p
            BY <2>3
          <5>2. e < a /\ d <= a /\ a < d + n
            BY <2>1, <2>3, <5>1
          <5>3. Fresh(m, v, d, s, n, e)
            BY ReadsFirst
          <5>4. Part(m, v, d, e)[s + a - d] = Source(m, d, s, a)
            BY <5>1, <5>2, <5>3, Zenon DEF Fresh
          <5> QED
            BY <5>1, <5>4
        <4>3. st.len - 1 = 0
          BY <2>1, <2>7
        <4>4. d + p >= d + Word * w
          BY <1>2, <2>3, <3>1 DEF Word
        <4> QED
          BY <4>1, <4>2, <4>3, <4>4
      <3>3. \A a \in d + p .. d + q - 1 : a = d + p
        BY <2>3, <3>1
      <3>4. CASE Source(m, d, s, d + p) = 0
        <4>1. StoreDefault(x, st, def) =
                [a \in DOMAIN x |-> IF a \in Covered(st) THEN def[a - st.dst + 1] ELSE x[a]]
          BY <2>7, <3>2, <3>4 DEF StoreDefault
        <4>2. Covered(st) = d + p .. d + q - 1
          <5>1. st.dst + st.len - 1 = d + q - 1
            BY <2>3
          <5> QED
            BY <2>3, <5>1 DEF Covered
        <4>3. DOMAIN x = DOMAIN m /\ DOMAIN m = 0..top /\ y = [a \in DOMAIN m |-> y[a]]
          BY <1>1 DEF Part
        <4>4. ASSUME NEW a \in DOMAIN m
              PROVE  (IF a \in Covered(st) THEN def[a - st.dst + 1] ELSE x[a]) = y[a]
          <5>1. CASE a \in d + p .. d + q - 1
            <6>1. a - st.dst + 1 = 1 /\ a = d + p
              BY <2>3, <3>3, <5>1
            <6>2. v[a] = def[1]
              BY <1>4, <2>4, <3>2, <3>4, <5>1, <6>1
            <6>3. a \in d..d + q - 1
              BY <2>3, <5>1
            <6>4. y[a] = v[a]
              BY <4>4, <6>3 DEF Part
            <6> QED
              BY <4>2, <5>1, <6>1, <6>2, <6>4
          <5>2. CASE a \notin d + p .. d + q - 1
            <6>1. a \in d..d + q - 1 <=> a \in d..d + p - 1
              <7>1. a \in Int /\ d \in Int /\ p \in Int /\ q \in Int
                BY <2>3, <4>3, <4>4
              <7> QED
                BY ONLY <2>3, <5>2, <7>1
            <6> QED
              BY <4>2, <4>4, <5>2, <6>1 DEF Part
          <5> QED
            BY <5>1, <5>2
        <4> HIDE DEF x, y
        <4> QED
          BY <4>1, <4>3, <4>4
      <3>5. CASE Source(m, d, s, d + p) # 0
        <4>1. StoreDefault(x, st, def) = Store(x, st)
          <5>1. ~(\A h \in 0..st.len - 1 : x[st.src + h] = 0)
            BY <3>2, <3>5
          <5> HIDE DEF x
          <5> QED
            BY <5>1, Zenon DEF StoreDefault
        <4>2. Agrees(m, v, d, s, p, q)
          BY <1>4, <2>4, <3>3, <3>5 DEF Agrees
        <4> QED
          BY <2>5, <4>1, <4>2
      <3> QED
        BY <3>4, <3>5
    <2> QED
      BY <2>2, <2>6, <2>7 DEF st
  <1>6. F[0] = m /\ F[N] = v
    <2>1. 0 \in 0..N /\ N \in 0..N
      BY <1>2
    <2>2. F[0] = Part(m, v, d, d - 1) /\ F[N] = Part(m, v, d, d + n - 1)
      BY <1>2, <2>1
    <2>3. d..d - 1 = {}
      OBVIOUS
    <2>4. Part(m, v, d, d - 1) = m
      BY <1>1, <2>3 DEF Part
    <2>5. \A a \in DOMAIN m : a \notin d..d + n - 1 => v[a] = m[a]
      BY DEF Replaced
    <2>6. v = [a \in DOMAIN m |-> v[a]]
      BY DEF Replaced
    <2> HIDE DEF v
    <2>7. Part(m, v, d, d + n - 1) = v
      BY <2>5, <2>6 DEF Part
    <2> QED
      BY <2>2, <2>4, <2>7
  <1> HIDE DEF F, v
  <1>7. StoredOr(m, sts, def) = F[N]
    <2> DEFINE M == [0..top -> Int]
    <2>1. m \in M /\ \A x \in M : \A h \in 1..N : StoreDefault(x, sts[h], def) \in M
      BY <1>1, <1>3
    <2>2. N \in Nat /\ DOMAIN sts = 1..N
      BY <1>2
    <2> HIDE DEF M
    <2>3. \A k \in 1..N : StoreDefault(F[k - 1], sts[k], def) = F[k]
      BY <1>5
    <2>4. Defaults1to(N, sts, M, m, F, def)
      BY <1>6, <2>1, <2>2, <2>3 DEF Defaults1to
    <2> QED
      BY ONLY <2>4, DefaultFold
  <1> QED
    BY <1>6, <1>7, Zenon DEF v, sts, w, memcpy_def, StoredOr

(* The stores of a downward copy that is not aligned: single bytes, from the last. *)
Descends(sts, d, s, n) ==
  /\ DOMAIN sts = 1..n
  /\ \A h \in 1..n : sts[h].dst = d - (h - 1) /\ sts[h].src = s - (h - 1) /\ sts[h].len = 1
(* Without words, a downward copy stores in this order.                     *)
LEMMA StoresDescend ==
  ASSUME NEW d \in Nat, NEW s \in Nat, NEW n \in Nat, Words(d, s, n) = 0
  PROVE  Descends(Stores(d, s, n, -1, 1), d, s, n)
  <1> DEFINE Spot(a, h) == IF h <= 0 THEN a + (-1) * Word * (h - 1)
                           ELSE a + (-1) * (Word * 0 + 1 * (h - 0 - 1))
             sts == Stores(d, s, n, -1, 1)
  <1>1. sts = [h \in 1..(0 + LeftOver(n, 0)) |->
           [dst |-> Spot(d, h), src |-> Spot(s, h), len |-> IF h <= 0 THEN Word ELSE 1,
            word |-> h <= 0]]
    BY Zenon DEF Stores, Words
  <1>2. 0 + LeftOver(n, 0) = n
    BY DEF LeftOver, Word
  <1> HIDE DEF sts
  <1>3. ASSUME NEW h \in 1..n, NEW a \in Nat PROVE Spot(a, h) = a - (h - 1)
    BY <1>3 DEF Word
  <1>4. ASSUME NEW h \in 1..n PROVE ~(h <= 0)
    OBVIOUS
  <1>5. ASSUME NEW h \in 1..n
        PROVE  sts[h].dst = Spot(d, h) /\ sts[h].src = Spot(s, h) /\ sts[h].len = IF h <= 0 THEN Word ELSE 1
    BY <1>1, <1>2, Zenon
  <1> HIDE DEF Spot
  <1>6. DOMAIN sts = 1..n
    BY <1>1, <1>2
  <1> QED
    BY <1>3, <1>4, <1>5, <1>6 DEF sts, Descends

(* A downward copy that moves up, or between regions that are apart, is as if   *)
(* everything had been read first.                                         *)
LEMMA CopyDown ==
  ASSUME NEW d \in Nat, NEW s \in Nat, NEW n \in Nat, n > 0, Words(d + n - 1, s + n - 1, n) = 0,
         NEW top \in Nat, NEW m \in [0..top -> Int], s + n <= top + 1,
         d >= s \/ Apart(d, s, n)
  PROVE  Stored(m, Stores(d + n - 1, s + n - 1, n, -1, 1)) = Result(m, d, s, n)
  <1> DEFINE sts == Stores(d + n - 1, s + n - 1, n, -1, 1)
             v == Result(m, d, s, n)
             F == [k \in 0..n |-> Part(m, v, d + n - k, d + n - 1)]
  <1>1. /\ DOMAIN sts = 1..n
        /\ \A h \in 1..n : sts[h].dst = d + n - h /\ sts[h].src = s + n - h /\ sts[h].len = 1
    <2>1. PICK e \in Nat, r \in Nat : e = d + n - 1 /\ r = s + n - 1
      OBVIOUS
    <2>2. Descends(Stores(e, r, n, -1, 1), e, r, n)
      BY <2>1, StoresDescend
    <2>3. \A h \in 1..n : e - (h - 1) = d + n - h /\ r - (h - 1) = s + n - h
      BY <2>1
    <2>4. sts = Stores(e, r, n, -1, 1)
      BY <2>1
    <2> HIDE DEF sts
    <2> QED
      BY <2>2, <2>3, <2>4 DEF Descends
  <1>2. DOMAIN m = 0..top /\ (d >= s \/ d + n <= s \/ s + n <= d)
    BY DEF Apart
  <1>3. v = [a \in DOMAIN m |-> v[a]]
        /\ \A a \in DOMAIN m : v[a] = IF a \in d..d + n - 1 THEN Source(m, d, s, a) ELSE m[a]
    BY DEF Result
  <1> HIDE DEF sts, v
  <1>4. ASSUME NEW x \in [0..top -> Int], NEW h \in 1..n PROVE Store(x, sts[h]) \in [0..top -> Int]
    <2>1. PICK e, r, k : e = sts[h].dst /\ r = sts[h].src /\ k = sts[h].len
      OBVIOUS
    <2>2. e = d + n - h /\ r = s + n - h /\ k = 1
      BY <1>1, <2>1
    <2>3. e \in Int /\ r \in Nat /\ k \in Nat /\ r + k <= top + 1
      BY <2>2
    <2> QED
      BY <2>1, <2>3, StoreKeeps
  <1>5. ASSUME NEW k \in 1..n PROVE Store(F[k - 1], sts[k]) = F[k]
    <2>1. PICK e \in Nat, b \in Nat : e = d + n - k /\ b = s + n - k
      OBVIOUS
    <2> DEFINE x == Part(m, v, e + 1, d + n - 1)
               y == Part(m, v, e, d + n - 1)
    <2>2. F[k - 1] = x /\ F[k] = y
      <3>1. k - 1 \in 0..n /\ k \in 0..n /\ d + n - (k - 1) = e + 1
        BY <2>1
      <3> QED
        BY <2>1, <3>1
    <2>3. sts[k].dst = e /\ sts[k].src = b /\ Covered(sts[k]) = {e}
      <3>1. sts[k].dst = e /\ sts[k].src = b /\ sts[k].len = 1
        BY <1>1, <2>1
      <3>2. e .. e + 1 - 1 = {e}
        OBVIOUS
      <3> QED
        BY <3>1, <3>2 DEF Covered
    <2>4. b \in DOMAIN m /\ b \notin e + 1 .. d + n - 1 /\ e \in d..d + n - 1 /\ s + e - d = b
      BY <1>2, <2>1
    <2>5. x[b] = m[b]
      BY <2>4 DEF Part
    <2>6. ASSUME NEW a \in DOMAIN m
          PROVE  (IF a \in Covered(sts[k]) THEN x[sts[k].src + a - sts[k].dst] ELSE x[a]) = y[a]
      <3>1. a \in Int /\ e \in Int /\ b \in Int
        BY <1>2
      <3>2. CASE a = e
        <4>1. sts[k].src + a - sts[k].dst = b
          BY <2>3, <3>1, <3>2
        <4>2. a \in e..d + n - 1
          BY <2>4, <3>2
        <4>3. y[a] = v[a]
          BY <2>6, <4>2 DEF Part
        <4>4. v[a] = m[b]
          BY <1>3, <2>4, <2>6, <3>2 DEF Source
        <4> HIDE DEF x, y
        <4> QED
          BY <2>3, <2>5, <3>2, <4>1, <4>3, <4>4
      <3>3. CASE a # e
        <4>1. a \in e..d + n - 1 <=> a \in e + 1 .. d + n - 1
          BY <3>1, <3>3
        <4>2. x[a] = y[a]
          BY <2>6, <4>1 DEF Part
        <4> HIDE DEF x, y
        <4> QED
          BY <2>3, <3>3, <4>2
      <3> QED
        BY <3>2, <3>3
    <2>7. DOMAIN x = DOMAIN m /\ y = [a \in DOMAIN m |-> y[a]]
      BY DEF Part
    <2> HIDE DEF x, y, F
    <2>8. Store(x, sts[k]) = y
      BY <2>6, <2>7 DEF Store
    <2> QED
      BY <2>2, <2>8
  <1>6. F[0] = m /\ F[n] = v
    <2>1. 0 \in 0..n /\ n \in 0..n
      OBVIOUS
    <2>2. F[0] = Part(m, v, d + n, d + n - 1) /\ F[n] = Part(m, v, d, d + n - 1)
      <3>1. d + n - 0 = d + n /\ d + n - n = d
        OBVIOUS
      <3> QED
        BY <2>1, <3>1
    <2>3. d + n..d + n - 1 = {}
      OBVIOUS
    <2>4. Part(m, v, d + n, d + n - 1) = m
      BY <2>3 DEF Part
    <2>5. Part(m, v, d, d + n - 1) = v
      BY <1>3 DEF Part
    <2> QED
      BY <2>2, <2>4, <2>5
  <1> HIDE DEF F
  <1>7. Stored(m, sts) = F[n]
    <2> DEFINE M == [0..top -> Int]
    <2>1. m \in M /\ \A x \in M : \A h \in 1..n : Store(x, sts[h]) \in M
      BY <1>4
    <2> HIDE DEF M
    <2>2. \A k \in 1..n : Store(F[k - 1], sts[k]) = F[k]
      BY <1>5
    <2>3. Stores1to(n, sts, M, m, F)
      BY <1>1, <1>6, <2>1, <2>2 DEF Stores1to
    <2> QED
      BY ONLY <2>3, StoreFold
  <1> QED
    BY <1>6, <1>7 DEF v, sts

(* A copy to a region apart compares equal to what it was copied from.         *)
LEMMA ComparesEqual ==
  ASSUME NEW d \in Nat, NEW s \in Nat, NEW n \in Nat, NEW top \in Nat,
         NEW m \in [0..top -> Int], s + n <= top + 1, d + n <= top + 1, Apart(d, s, n)
  PROVE  memcmp(Result(m, d, s, n), d, s, n) = 0
  <1> DEFINE c == Result(m, d, s, n)
  <1>1. ASSUME NEW h \in 0..n - 1 PROVE c[d + h] = c[s + h]
    <2>1. PICK a \in Nat, b \in Nat : a = d + h /\ b = s + h
      OBVIOUS
    <2>2. /\ a \in DOMAIN m /\ b \in DOMAIN m /\ a \in d..d + n - 1 /\ b \notin d..d + n - 1
          /\ s + a - d = b
      BY <2>1 DEF Apart
    <2>3. c[a] = m[b] /\ c[b] = m[b]
      BY <2>2 DEF Result, Source
    <2> QED
      BY <2>1, <2>3
  <1> HIDE DEF c
  <1>2. {h \in 0..n - 1 : c[d + h] # c[s + h]} = {}
    BY <1>1
  <1> QED
    BY <1>2, Zenon DEF memcmp, c

(* Every call copies what the caller means it to, whatever the addresses and the *)
(* size: as if all had been read first, where memcpy_def replaces zeros among the *)
(* bytes left of the words only and memcpy_16 copies double of those.          *)
THEOREM CopiesMove == CopiesInit => MemoryMoves
  <1> SUFFICES ASSUME CopiesInit PROVE MemoryMoves
    OBVIOUS
  <1>0. PICK d, s, n, top : d = given.dst /\ s = given.src /\ n = given.size /\ top = given.top
    OBVIOUS
  <1> DEFINE inWords == IF Aligned(d, s) THEN n - (n % Word) ELSE 0
             units == n - inWords
             copy == memcpy(Memory, d, s, n)
  <1>1. /\ d \in Nat /\ s \in Nat /\ n \in Nat /\ top \in Nat
        /\ d + 2 * n <= top + 1 /\ s + 2 * n <= top + 1
    BY <1>0, CopiesAssumption DEF CopiesInit
  <1> DEFINE w == Words(d, s, n)
  <1>2. w \in Nat /\ Word * w = inWords /\ inWords <= n /\ inWords \in Nat /\ units \in Nat
    <2>1. w \in Nat /\ Word * w = inWords /\ Word * w <= n
      BY <1>1, WordsFit
    <2> HIDE DEF w, inWords
    <2> QED
      BY <1>1, <2>1 DEF Word
  <1>3. Memory \in [0..top -> Int] /\ DOMAIN Memory = 0..top
    BY <1>0, <1>1 DEF Memory
  <1>4. \A k : Moved(d, s, k) = Result(Memory, d, s, k)
    BY DEF Moved, Result, Source
  <1>5. /\ \A k : memcpy(Memory, d, s, k) = Stored(Memory, Stores(d, s, k, 1, 1))
        /\ \A k : memcpy_16(Memory, d, s, k) = Stored(Memory, Stores(d, s, k, 1, 2))
        /\ \A e, r, k : memcpy_r(Memory, e, r, k) = Stored(Memory, Stores(e, r, k, -1, 1))
    BY DEF memcpy, memcpy_16, memcpy_r, Stored
  <1> HIDE DEF inWords, copy, w
  <1>6. ASSUME d <= s \/ Apart(d, s, n)
        PROVE  /\ copy = Moved(d, s, n)
               /\ memcpy_def(Memory, d, s, <<99>>, n) =
                    [a \in DOMAIN Memory |->
                       IF a \in d + inWords .. d + n - 1 /\ copy[a] = 0 THEN 99 ELSE copy[a]]
    <2>1. Upward(Memory, d, s, n)
      <3>1. s + n <= top + 1
        BY <1>1
      <3> QED
        BY <1>1, <1>3, <1>6, <3>1 DEF Upward
    <2>2. 1 \in {1, 2} /\ n = Word * w + 1 * (n - Word * w)
      BY <1>1, <1>2 DEF Word
    <2>3. Stored(Memory, Stores(d, s, n, 1, 1)) = Result(Memory, d, s, n)
      BY <1>1, <2>1, <2>2, CopyUp DEF w
    <2>4. copy = Result(Memory, d, s, n)
      BY <1>5, <2>3 DEF copy
    <2> DEFINE def == <<99>>
    <2>5. def[1] = 99
      OBVIOUS
    <2> HIDE DEF def
    <2>6. memcpy_def(Memory, d, s, def, n) = Replaced(Memory, d, s, n, d + Word * w, def)
      BY <1>1, <2>1, <2>5, DefaultUp DEF w
    <2> DEFINE z == Replaced(Memory, d, s, n, d + Word * w, def)
               y == [a \in DOMAIN Memory |->
                       IF a \in d + inWords .. d + n - 1 /\ copy[a] = 0 THEN 99 ELSE copy[a]]
    <2>7. ASSUME NEW a \in DOMAIN Memory PROVE z[a] = y[a]
      <3>1. a \in Nat
        BY <1>3, <2>7
      <3>2. copy[a] = IF a \in d..d + n - 1 THEN Source(Memory, d, s, a) ELSE Memory[a]
        BY <2>4, <2>7 DEF Result
      <3>3. z[a] = IF a \in d..d + n - 1
                     THEN IF a >= d + Word * w /\ Source(Memory, d, s, a) = 0 THEN 99 ELSE Source(Memory, d, s, a)
                     ELSE Memory[a]
        BY <2>5, <2>7 DEF Replaced
      <3>4. y[a] = IF a \in d + inWords .. d + n - 1 /\ copy[a] = 0 THEN 99 ELSE copy[a]
        BY <2>7
      <3>5. a \in d + inWords .. d + n - 1 <=> a \in d..d + n - 1 /\ a >= d + Word * w
        <4>1. d \in Nat /\ n \in Nat /\ inWords \in Nat /\ Word * w = inWords
          BY <1>1, <1>2
        <4> QED
          BY ONLY <3>1, <4>1
      <3> HIDE DEF y, z
      <3> QED
        BY <3>2, <3>3, <3>4, <3>5
    <2>8. z = [a \in DOMAIN Memory |-> z[a]] /\ y = [a \in DOMAIN Memory |-> y[a]]
      BY DEF Replaced
    <2>9. z = y
      <3> HIDE DEF z, y
      <3> QED
        BY <2>7, <2>8
    <2> QED
      BY <1>4, <2>4, <2>6, <2>9 DEF def
  <1>7. ASSUME d <= s \/ Apart(d, s, n + units)
        PROVE  memcpy_16(Memory, d, s, n) = Moved(d, s, n + units)
    <2>1. PICK total \in Nat : total = n + units
      <3>1. n \in Nat /\ units \in Nat
        BY <1>1, <1>2
      <3> HIDE DEF units
      <3>2. n + units \in Nat
        BY <3>1
      <3> QED
        BY <3>2, Zenon
    <2>2. total = Word * w + 2 * (n - Word * w) /\ total <= 2 * n
      <3>1. total = n + (n - inWords) /\ inWords \in Nat /\ Word * w = inWords /\ n \in Nat
        BY <1>1, <1>2, <2>1
      <3> QED
        BY ONLY <3>1
    <2>3. Upward(Memory, d, s, total)
      <3>1. s + total <= top + 1
        BY <1>1, <2>1, <2>2
      <3>2. d <= s \/ Apart(d, s, total)
        BY <1>7, <2>1
      <3> QED
        BY <1>1, <1>3, <2>1, <3>1, <3>2 DEF Upward
    <2>4. 2 \in {1, 2}
      OBVIOUS
    <2>5. Stored(Memory, Stores(d, s, n, 1, 2)) = Result(Memory, d, s, total)
      BY <1>1, <2>2, <2>3, <2>4, CopyUp DEF w
    <2> QED
      BY <1>4, <1>5, <2>1, <2>5
  <1>8. ASSUME Apart(d, s, n) PROVE memcmp(copy, d, s, n) = 0
    <2>1. copy = Result(Memory, d, s, n)
      BY <1>4, <1>6, <1>8
    <2>2. s + n <= top + 1 /\ d + n <= top + 1 /\ top \in Nat
      BY <1>1
    <2> QED
      BY <1>1, <1>3, <1>8, <2>1, <2>2, ComparesEqual
  <1>9. ASSUME d >= s \/ Apart(d, s, n), n > 0, ~Aligned(d + n - 1, s + n - 1) \/ n < Word
        PROVE  memcpy_r(Memory, d + n - 1, s + n - 1, n) = Moved(d, s, n)
    <2>1. Words(d + n - 1, s + n - 1, n) = 0
      <3>1. n < 4 => n \div 4 = 0
        BY <1>1
      <3> QED
        BY <1>9, <3>1 DEF Words, Word
    <2>2. s + n <= top + 1 /\ top \in Nat
      BY <1>1
    <2>3. Stored(Memory, Stores(d + n - 1, s + n - 1, n, -1, 1)) = Result(Memory, d, s, n)
      BY <1>1, <1>3, <1>9, <2>1, <2>2, CopyDown, SMTT(60)
    <2> QED
      BY <1>4, <1>5, <2>3
  <1> QED
    BY <1>0, <1>6, <1>7, <1>8, <1>9 DEF MemoryMoves, inWords, copy
==============================================================================
