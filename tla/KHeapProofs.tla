---------------------------- MODULE KHeapProofs -----------------------------
(***************************************************************************)
(* What holds of the kernel heap for every header size, heap bound, set of *)
(* request sizes and content of the RAM past the heap.                     *)
(***************************************************************************)
EXTENDS KHeap, FiniteSetTheorems, WellFoundedInduction, TLAPS

\* What the assumption says of the constants.
LEMMA TypesOfConstants ==
  /\ H \in Nat /\ H > 0 /\ HeapStart \in Nat /\ WORD \in Nat /\ MemTop \in Nat
  /\ HeapStart <= MemTop /\ MemTop + H + 1 < WORD
  /\ Sizes \subseteq Nat /\ Garbage \subseteq Header
BY KHeapAssumption

\* A block of a chain has the size its next pointer says: no subtraction of
\* kheap_getMemBlockDataSize goes below zero.
LEMMA SizeOfBlock ==
  ASSUME TypeOK, Chain, NEW b \in Blocks
  PROVE  SizeOf(b) \in Nat /\ NextFor(b, SizeOf(b)) = hdr[b].next
BY TypesOfConstants DEF TypeOK, Chain, Blocks, Header, SizeOf, DataSize, NextFor

\* The block the outer loop looks at is one of the list, not the frontier.
LEMMA CurInList ==
  ASSUME TypeOK, Chain, heapInitialized, cur \in Blocks \cup {Frontier}, cur <= lastBlock
  PROVE  cur \in Blocks
BY TypesOfConstants DEF TypeOK, Chain, Blocks, Header, Frontier

\* So is the block the inner loop stands on while it goes on.
LEMMA NxtInList ==
  ASSUME TypeOK, Chain, heapInitialized, nxt \notin Blocks => nxt = Frontier, nxt <= lastBlock
  PROVE  nxt \in Blocks
BY TypesOfConstants DEF TypeOK, Chain, Blocks, Header, Frontier

\* The two updates of the totals that are not a single field.
LEMMA TotalsReuse ==
  ASSUME NEW k \in Totals, NEW s \in Int, NEW i \in Int
  PROVE  [k EXCEPT !.heapSpaceAllocated = @ + i, !.heapSpaceUsed = @ + s,
                   !.heapMemUsed = @ + s - i] \in Totals
<1> DEFINE k1 == [k EXCEPT !.heapSpaceAllocated = @ + i]
           k2 == [k1 EXCEPT !.heapSpaceUsed = @ + s]
<1>1. k1 \in Totals
  BY DEF Totals
<1>2. k2 \in Totals
  <2> HIDE DEF k1
  <2> QED  BY <1>1 DEF Totals
<1>3. [k2 EXCEPT !.heapMemUsed = @ + s - i] \in Totals
  <2> HIDE DEF k2
  <2> QED  BY <1>2 DEF Totals
<1> QED
  BY <1>3, Zenon

\* The same of a free: two fields at once.
LEMMA TotalsFree ==
  ASSUME NEW k \in Totals, NEW s \in Int
  PROVE  [k EXCEPT !.heapSpaceUsed = @ - s, !.heapMemUsed = @ - s] \in Totals
<1> DEFINE k1 == [k EXCEPT !.heapSpaceUsed = @ - s]
<1>1. k1 \in Totals
  BY DEF Totals
<1>2. [k1 EXCEPT !.heapMemUsed = @ - s] \in Totals
  <2> HIDE DEF k1
  <2> QED  BY <1>1 DEF Totals
<1> QED
  BY <1>2, Zenon

\* The heap that has not been used.
LEMMA InitListInv == Init => ListInv
<1> SUFFICES ASSUME Init PROVE ListInv
  OBVIOUS
<1>1. TypeOK
  <2>1. /\ DOMAIN hdr = {} /\ DOMAIN live = {}
        /\ hdr = [b \in DOMAIN hdr |-> hdr[b]]
    BY DEF Init
  <2>2. nxtHdr \in Header /\ req \in [size : Nat, reuse : BOOLEAN, merge : BOOLEAN]
    BY DEF Init, Header, NoHeader, NoRequest
  <2>3. kheapMem \in Totals
    BY DEF Init, Totals
  <2> QED
    BY <2>1, <2>2, <2>3 DEF Init, TypeOK
<1>2. Chain
  BY DEF Init, Chain, Blocks
<1>3. Holders
  BY DEF Init, Holders, Blocks
<1>4. SearchOK
  BY DEF Init, SearchOK
<1> QED
  BY <1>1, <1>2, <1>3, <1>4 DEF ListInv

\* One step per action: no step breaks the list, the holders or the search.
LEMMA StepListInv == ListInv /\ [Next]_vars => ListInv'
<1> USE TypesOfConstants
<1> SUFFICES ASSUME ListInv, [Next]_vars PROVE ListInv'
  OBVIOUS
<1>0. CASE UNCHANGED vars
  <2>1. TypeOK'
    BY <1>0 DEF vars, list, locals, inner, ListInv, TypeOK
  <2>2. ASSUME pc' # "corrupt" PROVE Chain' /\ Holders' /\ SearchOK'
    BY <1>0, <2>2 DEF vars, list, locals, inner, ListInv, Chain, Holders, SearchOK,
                 Blocks, Frontier, NextFor
  <2> QED  BY <2>1, <2>2 DEF ListInv
<1>1. ASSUME NEW size \in Sizes, NEW m \in Modes, AddBlock(size, m[1], m[2])
      PROVE  ListInv'
  <2> USE <1>1 DEF AddBlock, list, inner
  <2>1. pc = "idle" /\ TypeOK /\ Chain /\ Holders /\ SearchOK
    BY DEF ListInv
  <2>2. m[1] \in BOOLEAN /\ m[2] \in BOOLEAN
    BY KHeapAssumption
  <2>3. TypeOK'
    BY <2>1, <2>2 DEF TypeOK, Chain, Blocks
  <2>4. Chain' /\ Holders'
    BY <2>1 DEF Chain, Holders, Blocks
  <2>5. SearchOK'
    BY <2>1 DEF SearchOK, Chain, Blocks, Frontier, NextFor, TypeOK
  <2> QED  BY <2>3, <2>4, <2>5 DEF ListInv
<1>2. CASE ScanEnd
  <2> USE <1>2 DEF ScanEnd, Scanning, Fits, Following, list, inner
  <2>1. pc = "scan" /\ TypeOK /\ Chain /\ Holders /\ SearchOK
    BY DEF ListInv
  <2>2. TypeOK'
    BY <2>1 DEF TypeOK
  <2>3. Chain' /\ Holders'
    BY <2>1 DEF Chain, Holders, Blocks
  <2>4. SearchOK'
    BY <2>1 DEF SearchOK, Blocks, Frontier, NextFor
  <2> QED  BY <2>2, <2>3, <2>4 DEF ListInv
<1>3. CASE ScanFit
  <2> USE <1>3 DEF ScanFit, Scanning, Fits, Following, list, inner
  <2>1. pc = "scan" /\ TypeOK /\ Chain /\ Holders /\ SearchOK
    BY DEF ListInv
  <2>2. TypeOK'
    BY <2>1 DEF TypeOK
  <2>3. Chain' /\ Holders'
    BY <2>1 DEF Chain, Holders, Blocks
  <2>4. cur \in Blocks /\ req.size <= SizeOf(cur)
    BY <2>1, CurInList DEF SearchOK, ListInv
  <2>5. NextFor(cur, req.size) <= hdr[cur].next
    BY <2>1, <2>4, SizeOfBlock DEF NextFor, TypeOK, Header, Blocks
  <2>6. SearchOK'
    BY <2>1, <2>4, <2>5 DEF SearchOK, Blocks, NextFor
  <2> QED  BY <2>2, <2>3, <2>6 DEF ListInv
<1>4. CASE ScanSmall
  <2> USE <1>4 DEF ScanSmall, Scanning, Fits, Following, list, inner
  <2>1. pc = "scan" /\ TypeOK /\ Chain /\ Holders /\ SearchOK
    BY DEF ListInv
  <2>2. cur \in Blocks
    BY <2>1, CurInList DEF SearchOK, ListInv
  <2>3. SizeOf(cur) \in Nat /\ NextFor(cur, SizeOf(cur)) = hdr[cur].next
    BY <2>1, <2>2, SizeOfBlock
  <2>4. TypeOK'
    BY <2>1, <2>2, <2>3 DEF TypeOK, Blocks
  <2>5. Chain' /\ Holders'
    BY <2>1 DEF Chain, Holders, Blocks
  <2>6. NextFor(cur, sum' + count' * (H + 1)) = nxtHdr'.next
    BY <2>3
  <2>7. \A b \in Blocks : cur <= b /\ b <= cur => b = cur
    BY <2>1 DEF TypeOK, Blocks
  <2>8. SearchOK'
    BY <2>1, <2>2, <2>6, <2>7 DEF SearchOK, Blocks, Frontier, NextFor, TypeOK
  <2> QED  BY <2>4, <2>5, <2>8 DEF ListInv
<1>5. CASE ScanUsed
  <2> USE <1>5 DEF ScanUsed, Scanning, Fits, Following, list, inner
  <2>1. pc = "scan" /\ TypeOK /\ Chain /\ Holders /\ SearchOK
    BY DEF ListInv
  <2>2. cur \in Blocks
    BY <2>1, CurInList DEF SearchOK, ListInv
  <2>3. TypeOK'
    BY <2>1, <2>2 DEF TypeOK, Blocks, Header
  <2>4. Chain' /\ Holders'
    BY <2>1 DEF Chain, Holders, Blocks
  <2>5. SearchOK'
    BY <2>1, <2>2 DEF SearchOK, Blocks, Frontier, NextFor, Chain
  <2> QED  BY <2>3, <2>4, <2>5 DEF ListInv
<1>6. CASE MergeStep
  <2> USE <1>6 DEF MergeStep, Joining, list
  <2>1. pc = "merge" /\ TypeOK /\ Chain /\ Holders /\ SearchOK
    BY DEF ListInv
  <2> DEFINE n == nxtHdr.next
  <2>2. PICK h \in ReadHeader(n) :
          /\ nxtHdr' = h
          /\ IF h.used THEN UNCHANGED <<sum, count>>
                       ELSE sum' = Plus(sum, DataSize(n, h)) /\ count' = count + 1
    OBVIOUS
  <2>3. h \in Header /\ (n \in Blocks => h = hdr[n])
    BY <2>1 DEF ReadHeader, TypeOK, Blocks
  <2>4. nxt \in Blocks /\ nxtHdr = hdr[nxt]
    BY <2>1, NxtInList DEF SearchOK
  <2>5. n \in Nat /\ n <= MemTop /\ nxt < n /\ (n \in Blocks \/ n = Frontier)
    BY <2>1, <2>4 DEF Chain, TypeOK, Header, Blocks, Frontier
  <2>6. DataSize(n, h) \in Nat
    BY <2>3, <2>5 DEF DataSize, Header
  <2>7. Plus(sum, DataSize(n, h)) \in Nat
    BY <2>1, <2>6 DEF Plus, TypeOK
  <2>8. TypeOK'
    BY <2>1, <2>2, <2>3, <2>5, <2>7 DEF TypeOK
  <2>9. Chain' /\ Holders'
    BY <2>1 DEF Chain, Holders, Blocks
  <2>10. cur \in Blocks /\ cur <= n
    BY <2>1, <2>5 DEF SearchOK, TypeOK, Blocks
  <2>11. \A b \in Blocks : cur <= b /\ b <= n => ~hdr[b].used \/ b = n
    <3> SUFFICES ASSUME NEW b \in Blocks, cur <= b, b <= n, b # n
                 PROVE  ~hdr[b].used
      OBVIOUS
    <3>1. b \in Nat /\ nxt \in Nat /\ hdr[nxt].next = n
      BY <2>1, <2>4 DEF TypeOK, Blocks
    <3>2. nxt < b => n <= b
      BY <2>1, <2>4, <3>1 DEF Chain
    <3>3. b <= nxt
      BY <2>5, <3>1, <3>2
    <3> QED  BY <2>1, <2>4, <3>3 DEF SearchOK
  <2>12. h.used => sum' < req.size
    BY <2>2
  <2>13. ASSUME n \in Blocks, ~h.used
         PROVE  NextFor(cur, sum' + count' * (H + 1)) = h.next
    <3>1. NextFor(cur, sum + count * (H + 1)) = n
      BY <2>1, <2>4 DEF SearchOK
    <3>2. DataSize(n, h) = SizeOf(n)
      BY <2>3, <2>13 DEF SizeOf
    <3>3. NextFor(n, DataSize(n, h)) = h.next /\ h.next <= MemTop
      BY <2>1, <2>3, <2>13, <3>2, SizeOfBlock DEF Chain
    <3>4. count * (H + 1) \in Nat /\ (count + 1) * (H + 1) = count * (H + 1) + H + 1
      BY <2>1 DEF TypeOK
    <3>5. sum' = sum + DataSize(n, h) /\ count' = count + 1
      <4>1. sum + DataSize(n, h) < WORD
        BY <2>1, <2>5, <2>6, <2>10, <3>1, <3>3, <3>4 DEF NextFor, TypeOK, Header
      <4> QED  BY <2>2, <2>13, <4>1 DEF Plus
    <3> QED
      BY <2>1, <2>5, <2>6, <2>10, <3>1, <3>3, <3>4, <3>5 DEF NextFor, TypeOK, Header, Blocks
  <2>14. SearchOK'
    BY <2>1, <2>2, <2>3, <2>5, <2>10, <2>11, <2>12, <2>13
       DEF SearchOK, Blocks, Frontier, NextFor
  <2> QED  BY <2>8, <2>9, <2>14 DEF ListInv
<1>7. CASE MergeJoin
  <2> USE <1>7 DEF MergeJoin, JoinGain
  <2>1. /\ pc = "merge" /\ TypeOK /\ Chain /\ Holders /\ SearchOK
        /\ heapInitialized /\ nxt \in Blocks /\ nxtHdr = hdr[nxt] /\ cur \in Blocks
        /\ cur <= nxt /\ req.size \in Nat /\ cur \in Nat /\ nxt \in Nat
    BY DEF ListInv, SearchOK, TypeOK
  <2>2. ~nxtHdr.used
    BY <2>1 DEF SearchOK, TypeOK
  <2>3. \A b \in Blocks : cur <= b /\ b <= nxt => ~hdr[b].used
    BY <2>1, <2>2 DEF SearchOK
  <2>4. /\ sum \in Nat /\ count * H \in Nat
        /\ NextFor(cur, sum + count * H) + count = nxtHdr.next
        /\ count \in Nat /\ nxtHdr.next \in Nat /\ nxtHdr.next <= MemTop
    <3>1. sum \in Nat /\ count \in Nat /\ nxtHdr.next \in Nat
      BY <2>1 DEF TypeOK, Header
    <3>2. count * H \in Nat /\ count * (H + 1) = count * H + count
      BY <3>1
    <3>3. NextFor(cur, sum + count * (H + 1)) = nxtHdr.next
      BY <2>1, <2>2 DEF SearchOK
    <3>4. nxtHdr.next <= MemTop
      BY <2>1 DEF Chain
    <3> QED  BY <2>1, <3>1, <3>2, <3>3, <3>4 DEF NextFor
  <2>5. /\ JoinedNext \in Nat /\ JoinedNext <= nxtHdr.next
        /\ NextFor(cur, req.size) <= JoinedNext
        /\ nxt # lastBlock => JoinedNext = nxtHdr.next
    BY <2>1, <2>4 DEF JoinedNext, NextFor
  <2> DEFINE Left == Blocks \ Joined
  <2>6. /\ Blocks' = Left /\ cur \in Left
        /\ hdr'[cur].next = JoinedNext /\ ~hdr'[cur].used /\ hdr'[cur] \in Header
        /\ \A b \in Left : b # cur => hdr'[b] = hdr[b]
        /\ hdr' = [b \in DOMAIN hdr' |-> hdr'[b]]
    BY <2>1, <2>3, <2>5 DEF Blocks, Joined, TypeOK, Header
  <2>7. \A b \in Left : b \in Blocks /\ b \in Nat /\ (b <= cur \/ nxt < b)
    BY <2>1 DEF Joined, Blocks, TypeOK
  <2>8. TypeOK'
    <3>1. /\ DOMAIN hdr' \subseteq Nat
          /\ \A b \in DOMAIN hdr' : hdr'[b] \in Header
      BY <2>1, <2>6, <2>7 DEF TypeOK, Blocks
    <3>2. kheapMem' \in Totals
      BY <2>1, <2>4 DEF TypeOK, Totals
    <3> QED
      BY <2>1, <2>4, <2>6, <3>1, <3>2 DEF TypeOK, inner
  <2>9. Chain'
    <3>1. firstBlock \in Left /\ lastBlock' \in Left
      BY <2>1, <2>6 DEF Chain, Blocks, Joined, TypeOK
    <3>2. \A b \in Left : firstBlock <= b /\ b <= lastBlock'
      BY <2>1, <2>7 DEF Chain, Blocks, TypeOK
    <3>3. \A b \in Left : b + H + 1 <= hdr'[b].next /\ hdr'[b].next <= MemTop
      <4>1. cur + H + 1 <= JoinedNext /\ JoinedNext <= MemTop
        BY <2>1, <2>4, <2>5 DEF NextFor
      <4> QED  BY <2>1, <2>6, <2>7, <4>1 DEF Chain
    <3>4. \A b \in Left : b # lastBlock' => hdr'[b].next \in Left
      <4> SUFFICES ASSUME NEW b \in Left, b # lastBlock' PROVE hdr'[b].next \in Left
        OBVIOUS
      <4>1. CASE b = cur
        BY <2>1, <2>5, <2>6, <4>1 DEF Chain, Joined, Blocks, TypeOK, Header
      <4>2. CASE b < cur
        BY <2>1, <2>6, <2>7, <4>2 DEF Chain, Joined, Blocks, TypeOK, Header
      <4>3. CASE nxt < b
        BY <2>1, <2>6, <2>7, <4>3 DEF Chain, Joined, Blocks, TypeOK, Header
      <4> QED  BY <2>1, <2>7, <4>1, <4>2, <4>3
    <3>5. \A b, c \in Left : b < c => hdr'[b].next <= c
      <4> SUFFICES ASSUME NEW b \in Left, NEW c \in Left, b < c PROVE hdr'[b].next <= c
        OBVIOUS
      <4>1. CASE b # cur
        BY <2>1, <2>6, <2>7, <4>1 DEF Chain
      <4>2. CASE b = cur
        BY <2>1, <2>4, <2>5, <2>6, <2>7, <4>2 DEF Chain, TypeOK, Blocks
      <4> QED  BY <4>1, <4>2
    <3>6. heapInitialized /\ firstBlock = HeapStart
      BY <2>1 DEF Chain
    <3> QED  BY <2>1, <2>6, <3>1, <3>2, <3>3, <3>4, <3>5, <3>6 DEF Chain
  <2>10. Holders'
    <3>1. \A b \in Blocks : hdr[b].used => b \in Left /\ b # cur
      BY <2>1, <2>3 DEF Joined, Blocks, TypeOK
    <3> QED  BY <2>1, <2>6, <2>7, <3>1 DEF Holders
  <2>11. SearchOK'
    BY <2>1, <2>5, <2>6 DEF SearchOK, NextFor
  <2> QED  BY <2>8, <2>9, <2>10, <2>11 DEF ListInv
<1>8. CASE MergePhantom
  <2>1. TypeOK /\ pc = "merge" /\ count * H \in Nat /\ cur \in DOMAIN hdr
    BY <1>8 DEF MergePhantom, JoinGain, ListInv, TypeOK, SearchOK, Blocks
  <2>2. TypeOK'
    <3>1. /\ DOMAIN hdr' = DOMAIN hdr
          /\ \A b \in DOMAIN hdr : hdr'[b] \in Header
          /\ hdr' = [b \in DOMAIN hdr' |-> hdr'[b]]
      BY <1>8, <2>1 DEF MergePhantom, TypeOK, Header
    <3>2. kheapMem' \in Totals
      BY <1>8, <2>1 DEF MergePhantom, TypeOK, Totals
    <3> QED
      BY <1>8, <2>1, <3>1, <3>2 DEF MergePhantom, JoinGain, TypeOK, inner
  <2> QED  BY <1>8, <2>2 DEF MergePhantom, ListInv
<1>9. CASE MergeGiveUp
  <2> USE <1>9 DEF MergeGiveUp, Following, InnerDead, list
  <2>1. pc = "merge" /\ TypeOK /\ Chain /\ Holders /\ SearchOK /\ cur \in Blocks
    BY DEF ListInv, SearchOK
  <2>2. TypeOK'
    BY <2>1 DEF TypeOK, Blocks, Header, NoHeader
  <2>3. Chain' /\ Holders'
    BY <2>1 DEF Chain, Holders, Blocks
  <2>4. SearchOK'
    BY <2>1 DEF SearchOK, Chain, Blocks, Frontier, NextFor
  <2> QED  BY <2>2, <2>3, <2>4 DEF ListInv
<1>10. CASE PlaceNew
  <2> USE <1>10 DEF PlaceNew
  <2> DEFINE f == Frontier
             end == NextFor(f, req.size)
  <2>1. pc = "place" /\ ~found /\ TypeOK /\ Chain /\ Holders /\ SearchOK
    BY DEF ListInv
  <2>2. req.size \in Sizes /\ req.size \in Nat /\ end <= MemTop
    BY <2>1 DEF SearchOK
  <2>3. f \in Nat /\ f \notin Blocks /\ \A b \in Blocks : b \in Nat /\ hdr[b].next <= f
    BY <2>1 DEF Chain, TypeOK, Frontier, Blocks, Header
  <2>4. end \in Nat /\ f + H + req.size + 1 = end
    BY <2>2, <2>3 DEF NextFor
  <2>5. /\ Blocks' = Blocks \cup {f}
        /\ hdr'[f] = [next |-> end, used |-> TRUE]
        /\ \A b \in Blocks : hdr'[b] = hdr[b]
        /\ hdr' = [b \in DOMAIN hdr' |-> hdr'[b]]
    BY <2>3 DEF Blocks
  <2>6. /\ DOMAIN live' = DOMAIN live \cup {f + H}
        /\ live'[f + H] = req.size
        /\ \A p \in DOMAIN live : p # f + H => live'[p] = live[p]
    BY DEF Hold, DataAddress
  <2>7. TypeOK'
    <3>1. hdr'[f] \in Header
      BY <2>4, <2>5 DEF Header
    <3>2. DOMAIN hdr' \subseteq Nat /\ \A b \in DOMAIN hdr' : hdr'[b] \in Header
      BY <2>1, <2>3, <2>5, <3>1 DEF TypeOK, Blocks
    <3>3. kheapMem' \in Totals
      BY <2>1, <2>2 DEF TypeOK, Totals
    <3>4. DOMAIN live' \subseteq Nat /\ \A p \in DOMAIN live' : live'[p] \in Sizes
      BY <2>1, <2>2, <2>3, <2>6 DEF TypeOK
    <3>5. heapInitialized' \in BOOLEAN /\ firstBlock' \in Nat /\ lastBlock' \in Nat
      BY <2>1, <2>3 DEF TypeOK
    <3>6. /\ pc' = "idle" /\ req' \in [size : Nat, reuse : BOOLEAN, merge : BOOLEAN]
          /\ found' \in BOOLEAN /\ inc' \in Nat /\ cur' \in Nat
          /\ nxt' \in Nat /\ nxtHdr' \in Header /\ sum' \in Nat /\ count' \in Nat
      BY DEF LocalsDead, InnerDead, Header, NoHeader, NoRequest
    <3> QED
      BY <2>5, <3>2, <3>3, <3>4, <3>5, <3>6 DEF TypeOK
  <2>8. Chain'
    <3>1. heapInitialized' /\ lastBlock' = f /\ f \in Blocks'
      BY <2>5
    <3>2. firstBlock' \in Blocks' /\ \A b \in Blocks' : firstBlock' <= b /\ b <= f
      BY <2>1, <2>3, <2>5 DEF Chain, TypeOK, Blocks, Header
    <3>3. \A b \in Blocks' : b + H + 1 <= hdr'[b].next /\ hdr'[b].next <= MemTop
      BY <2>1, <2>2, <2>3, <2>4, <2>5 DEF Chain
    <3>4. \A b \in Blocks' : b # f => hdr'[b].next \in Blocks'
      BY <2>1, <2>5 DEF Chain, Frontier
    <3>5. \A b, c \in Blocks' : b < c => hdr'[b].next <= c
      <4> SUFFICES ASSUME NEW b \in Blocks', NEW c \in Blocks', b < c
                   PROVE  hdr'[b].next <= c
        OBVIOUS
      <4>1. b \in Blocks
        BY <2>3, <2>5, <3>2
      <4> QED  BY <2>1, <2>3, <2>5, <4>1 DEF Chain
    <3>6. firstBlock' = HeapStart
      BY <2>1 DEF Chain, Frontier
    <3> QED  BY <3>1, <3>2, <3>3, <3>4, <3>5, <3>6 DEF Chain
  <2>9. Holders'
    <3>1. \A p \in DOMAIN live : p \in Nat /\ p # f + H
      BY <2>1, <2>3 DEF Holders, TypeOK
    <3>2. \A p \in DOMAIN live' :
            p - H \in Blocks' /\ hdr'[p - H].used /\ p + live'[p] < hdr'[p - H].next
      <4> SUFFICES ASSUME NEW p \in DOMAIN live'
                   PROVE  p - H \in Blocks' /\ hdr'[p - H].used /\ p + live'[p] < hdr'[p - H].next
        OBVIOUS
      <4>1. CASE p \in DOMAIN live
        BY <2>1, <2>5, <2>6, <3>1, <4>1 DEF Holders
      <4>2. CASE p = f + H
        <5>1. p - H = f
          BY <2>3, <4>2
        <5> QED  BY <2>2, <2>3, <2>4, <2>5, <2>6, <4>2, <5>1
      <4> QED  BY <2>6, <4>1, <4>2
    <3>3. \A b \in Blocks' : hdr'[b].used => b + H \in DOMAIN live'
      BY <2>1, <2>5, <2>6 DEF Holders
    <3> QED  BY <3>2, <3>3 DEF Holders
  <2>10. SearchOK'
    BY DEF SearchOK, LocalsDead
  <2> QED  BY <2>7, <2>8, <2>9, <2>10 DEF ListInv
<1>11. CASE PlaceReused
  <2> USE <1>11 DEF PlaceReused
  <2>1. pc = "place" /\ found /\ TypeOK /\ Chain /\ Holders /\ SearchOK
    BY DEF ListInv
  <2>2. /\ cur \in Blocks /\ cur \in Nat /\ ~hdr[cur].used /\ req.size \in Sizes
        /\ req.size \in Nat /\ NextFor(cur, req.size) <= hdr[cur].next
    BY <2>1 DEF SearchOK, TypeOK, Blocks
  <2>3. /\ Blocks' = Blocks /\ hdr'[cur].used
        /\ \A b \in Blocks : hdr'[b].next = hdr[b].next /\ hdr'[b] \in Header
        /\ \A b \in Blocks : b # cur => hdr'[b] = hdr[b]
        /\ hdr' = [b \in DOMAIN hdr' |-> hdr'[b]]
    BY <2>1, <2>2 DEF Blocks, TypeOK, Header
  <2>4. /\ DOMAIN live' = DOMAIN live \cup {cur + H}
        /\ live'[cur + H] = req.size
        /\ \A p \in DOMAIN live : p # cur + H => live'[p] = live[p]
    BY DEF Hold, DataAddress
  <2>5. TypeOK'
    <3>1. kheapMem' \in Totals
      <4>1. SizeOf(cur) \in Int /\ inc \in Int /\ kheapMem \in Totals
        BY <2>1, <2>2, SizeOfBlock DEF TypeOK
      <4>2. SizeOf(cur) - inc \in Int
        BY <4>1
      <4> QED  BY <4>1, TotalsReuse
    <3>2. DOMAIN live' \subseteq Nat /\ \A p \in DOMAIN live' : live'[p] \in Sizes
      BY <2>1, <2>2, <2>4 DEF TypeOK
    <3>3. /\ pc' = "idle" /\ req' \in [size : Nat, reuse : BOOLEAN, merge : BOOLEAN]
          /\ found' \in BOOLEAN /\ inc' \in Nat /\ cur' \in Nat
          /\ nxt' \in Nat /\ nxtHdr' \in Header /\ sum' \in Nat /\ count' \in Nat
      BY DEF LocalsDead, InnerDead, Header, NoHeader, NoRequest
    <3>4. DOMAIN hdr' \subseteq Nat /\ \A b \in DOMAIN hdr' : hdr'[b] \in Header
      BY <2>1, <2>3 DEF TypeOK, Blocks
    <3> QED
      BY <2>1, <2>3, <3>1, <3>2, <3>3, <3>4 DEF TypeOK
  <2>6. Chain'
    BY <2>1, <2>3 DEF Chain
  <2>7. Holders'
    <3>1. \A p \in DOMAIN live' :
            p - H \in Blocks' /\ hdr'[p - H].used /\ p + live'[p] < hdr'[p - H].next
      <4> SUFFICES ASSUME NEW p \in DOMAIN live'
                   PROVE  p - H \in Blocks' /\ hdr'[p - H].used /\ p + live'[p] < hdr'[p - H].next
        OBVIOUS
      <4>1. CASE p = cur + H
        <5>1. p - H = cur
          BY <2>2, <4>1
        <5> QED  BY <2>2, <2>3, <2>4, <4>1, <5>1, <2>1 DEF NextFor, TypeOK, Header, Blocks
      <4>2. CASE p # cur + H
        <5>1. p \in DOMAIN live /\ p \in Nat /\ p - H # cur /\ p - H \in Blocks
          BY <2>1, <2>2, <2>4, <4>2 DEF TypeOK, Holders
        <5> QED  BY <2>1, <2>3, <2>4, <4>2, <5>1 DEF Holders
      <4> QED  BY <4>1, <4>2
    <3>2. \A b \in Blocks' : hdr'[b].used => b + H \in DOMAIN live'
      BY <2>1, <2>3, <2>4 DEF Holders
    <3> QED  BY <3>1, <3>2 DEF Holders
  <2>8. SearchOK'
    BY DEF SearchOK, LocalsDead
  <2> QED  BY <2>5, <2>6, <2>7, <2>8 DEF ListInv
<1>12. ASSUME NEW p \in DOMAIN live, FreeBlock(p)
       PROVE  ListInv'
  <2> USE <1>12 DEF FreeBlock
  <2>1. pc = "idle" /\ TypeOK /\ Chain /\ Holders /\ SearchOK
    BY DEF ListInv
  <2> DEFINE b0 == p - H
  <2>2. b0 \in Blocks /\ b0 \in Nat /\ p \in Nat /\ b0 + H = p
    BY <2>1 DEF Holders, TypeOK, Blocks
  <2>3. /\ Blocks' = Blocks /\ ~hdr'[b0].used
        /\ \A b \in Blocks : hdr'[b].next = hdr[b].next /\ hdr'[b] \in Header
        /\ \A b \in Blocks : b # b0 => hdr'[b] = hdr[b]
        /\ hdr' = [b \in DOMAIN hdr' |-> hdr'[b]]
    BY <2>1, <2>2 DEF Blocks, TypeOK, Header
  <2>4. DOMAIN live' = DOMAIN live \ {p} /\ \A q \in DOMAIN live' : live'[q] = live[q]
    OBVIOUS
  <2>5. TypeOK'
    <3>1. kheapMem' \in Totals
      <4>1. SizeOf(b0) \in Int /\ kheapMem \in Totals
        BY <2>1, <2>2, SizeOfBlock DEF TypeOK
      <4> QED  BY <4>1, TotalsFree
    <3>2. DOMAIN hdr' \subseteq Nat /\ \A b \in DOMAIN hdr' : hdr'[b] \in Header
      BY <2>1, <2>3 DEF TypeOK, Blocks
    <3> QED
      BY <2>1, <2>3, <2>4, <3>1, <3>2 DEF TypeOK, locals, inner
  <2>6. Chain'
    BY <2>1, <2>3 DEF Chain
  <2>7. Holders'
    <3>1. \A q \in DOMAIN live' : q \in Nat /\ q - H \in Blocks /\ q - H # b0
      BY <2>1, <2>2, <2>4 DEF TypeOK, Holders
    <3>2. \A b \in Blocks : hdr'[b].used => b \in Nat /\ b + H # p /\ hdr[b].used
      BY <2>1, <2>2, <2>3 DEF TypeOK, Blocks
    <3> QED  BY <2>1, <2>3, <2>4, <3>1, <3>2 DEF Holders
  <2>8. SearchOK'
    BY <2>1 DEF SearchOK, locals
  <2> QED  BY <2>5, <2>6, <2>7, <2>8 DEF ListInv
<1> QED
  BY <1>0, <1>1, <1>2, <1>3, <1>4, <1>5, <1>6, <1>7, <1>8, <1>9, <1>10, <1>11, <1>12
     DEF Next, Kernel, Search

------------------------------------------------------------------------------
\* The state of the heap is always the inductive invariant: in particular every
\* variable has its type and no size computed by the search wraps around while
\* the list is a list.
THEOREM ListInvariant == Spec => []ListInv
BY InitListInv, StepListInv, PTL DEF Spec

\* kheap.c never computes a negative size, address or run: the type invariant.
THEOREM TypeCorrect == Spec => []TypeOK
<1>1. ListInv => TypeOK
  BY DEF ListInv
<1> QED
  BY <1>1, ListInvariant, PTL

\* Whatever is asked for and freed in whatever order, and whatever lies in RAM
\* past the heap, up to the joining of a phantom block no caller's bytes overlap
\* a header or another caller's bytes.
THEOREM CallersApart == Spec => []NoOverlap
<1>1. ListInv => NoOverlap
  <2> USE TypesOfConstants
  <2> SUFFICES ASSUME ListInv, pc # "corrupt", NEW p \in DOMAIN live
               PROVE  /\ \A b \in Blocks : DataAddress(b) <= p \/ p + live[p] <= b
                      /\ \A q \in DOMAIN live :
                           p # q => p + live[p] <= q \/ q + live[q] <= p
    BY DEF NoOverlap
  <2>1. TypeOK /\ Chain /\ Holders
    BY DEF ListInv
  <2>2. \A q \in DOMAIN live : /\ q \in Nat /\ live[q] \in Nat /\ q - H \in Blocks
                               /\ q + live[q] < hdr[q - H].next
    BY <2>1 DEF TypeOK, Holders
  <2>3. \A b \in Blocks : b \in Nat /\ hdr[b].next \in Nat
    BY <2>1 DEF TypeOK, Blocks, Header
  <2>4. \A b, c \in Blocks : b < c => hdr[b].next <= c
    BY <2>1 DEF Chain
  <2>5. ASSUME NEW b \in Blocks PROVE DataAddress(b) <= p \/ p + live[p] <= b
    <3>1. CASE b <= p - H
      BY <2>2, <2>3, <3>1 DEF DataAddress
    <3>2. CASE p - H < b
      BY <2>2, <2>3, <2>4, <3>2
    <3> QED  BY <2>2, <2>3, <3>1, <3>2
  <2>6. ASSUME NEW q \in DOMAIN live, p # q
        PROVE  p + live[p] <= q \/ q + live[q] <= p
    <3>1. CASE p < q
      <4>1. hdr[p - H].next <= q - H
        BY <2>2, <2>3, <2>4, <3>1
      <4> QED  BY <2>2, <2>3, <4>1
    <3>2. CASE q < p
      <4>1. hdr[q - H].next <= p - H
        BY <2>2, <2>3, <2>4, <3>2
      <4> QED  BY <2>2, <2>3, <4>1
    <3> QED  BY <2>2, <2>6, <3>1, <3>2
  <2> QED  BY <2>5, <2>6
<1> QED
  BY <1>1, ListInvariant, PTL

\* A block's use bit says exactly whether a caller holds it, and a caller is
\* never given less than it asked for, through every reuse and joining of blocks.
THEOREM HoldersKnown == Spec => []HeldIsInUse
<1>1. ListInv => HeldIsInUse
  <2> USE TypesOfConstants
  <2> SUFFICES ASSUME ListInv, pc # "corrupt"
               PROVE  /\ {DataAddress(b) : b \in {x \in Blocks : hdr[x].used}} = DOMAIN live
                      /\ \A p \in DOMAIN live : live[p] <= SizeOf(p - H)
    BY DEF HeldIsInUse
  <2>1. TypeOK /\ Chain /\ Holders
    BY DEF ListInv
  <2>2. \A p \in DOMAIN live : p \in Nat /\ p - H \in Blocks /\ hdr[p - H].used
    BY <2>1 DEF TypeOK, Holders
  <2>3. \A b \in Blocks : hdr[b].used => DataAddress(b) \in DOMAIN live
    BY <2>1 DEF Holders, DataAddress
  <2>4. \A p \in DOMAIN live : DataAddress(p - H) = p
    BY <2>2 DEF DataAddress
  <2>5. ASSUME NEW p \in DOMAIN live PROVE live[p] <= SizeOf(p - H)
    <3>1. SizeOf(p - H) \in Nat /\ NextFor(p - H, SizeOf(p - H)) = hdr[p - H].next
      BY <2>1, <2>2, SizeOfBlock
    <3>2. live[p] \in Nat /\ p + live[p] < hdr[p - H].next
      BY <2>1 DEF TypeOK, Holders
    <3> QED  BY <2>2, <3>1, <3>2 DEF NextFor
  <2> QED  BY <2>2, <2>3, <2>4, <2>5
<1> QED
  BY <1>1, ListInvariant, PTL

------------------------------------------------------------------------------
\* No step of a search, of a join or of another caller's kfree moves, resizes or
\* frees a block somebody holds.
THEOREM HeldUntouchedAlways == Spec => HeldUntouched
<1>1. ListInv /\ [Next]_vars => [HeldStep]_vars
  <2> USE TypesOfConstants
  <2> SUFFICES ASSUME ListInv, Next, NEW b \in Blocks, hdr[b].used, pc # "corrupt"
               PROVE  \/ b \in DOMAIN hdr' /\ hdr'[b] = hdr[b]
                      \/ pc = "idle" /\ DOMAIN live' = DOMAIN live \ {DataAddress(b)}
    BY DEF HeldStep
  <2>1. TypeOK /\ Chain /\ Holders /\ SearchOK
    BY DEF ListInv
  <2>2. b \in DOMAIN hdr /\ b \in Nat
    BY <2>1 DEF TypeOK, Blocks
  <2>3. CASE UNCHANGED hdr
    BY <2>2, <2>3
  <2>4. CASE MergeJoin
    <3>1. \A x \in Blocks : cur <= x /\ x <= nxt => ~hdr[x].used
      BY <2>1, <2>4 DEF MergeJoin, Joining, SearchOK, TypeOK
    <3>2. cur \in Blocks /\ cur \in Nat /\ cur <= nxt /\ nxt \in Nat
      BY <2>1, <2>4 DEF MergeJoin, SearchOK, TypeOK, Blocks
    <3>3. b # cur /\ b \notin Joined
      BY <2>2, <3>1, <3>2 DEF Joined
    <3> QED  BY <2>2, <2>4, <3>3 DEF MergeJoin, Blocks
  <2>5. CASE MergePhantom
    <3>1. cur \in Blocks /\ cur # nxt /\ ~hdr[cur].used
      BY <2>1, <2>5 DEF MergePhantom, SearchOK, TypeOK, Blocks
    <3> QED  BY <2>2, <2>5, <3>1 DEF MergePhantom
  <2>6. CASE PlaceNew
    <3>1. Frontier \notin Blocks
      BY <2>1 DEF Chain, TypeOK, Frontier, Blocks, Header
    <3> QED  BY <2>2, <2>6, <3>1 DEF PlaceNew, Blocks
  <2>7. CASE PlaceReused
    <3>1. cur \in Blocks /\ ~hdr[cur].used
      BY <2>1, <2>7 DEF PlaceReused, SearchOK
    <3> QED  BY <2>2, <2>7, <3>1 DEF PlaceReused
  <2>8. ASSUME NEW p \in DOMAIN live, FreeBlock(p)
        PROVE  \/ b \in DOMAIN hdr' /\ hdr'[b] = hdr[b]
               \/ pc = "idle" /\ DOMAIN live' = DOMAIN live \ {DataAddress(b)}
    <3>1. p \in Nat
      BY <2>1, <2>8 DEF TypeOK
    <3>2. CASE b = p - H
      BY <2>2, <2>8, <3>1, <3>2 DEF FreeBlock, DataAddress
    <3>3. CASE b # p - H
      BY <2>2, <2>8, <3>3 DEF FreeBlock
    <3> QED  BY <3>2, <3>3
  <2>9. CASE \/ ScanEnd \/ ScanFit \/ ScanSmall \/ ScanUsed \/ MergeStep \/ MergeGiveUp
             \/ \E size \in Sizes, m \in Modes : AddBlock(size, m[1], m[2])
    <3>1. UNCHANGED hdr
      BY <2>9 DEF ScanEnd, ScanFit, ScanSmall, ScanUsed, MergeStep, MergeGiveUp,
                  AddBlock, list
    <3> QED  BY <2>3, <3>1
  <2> QED
    BY <2>4, <2>5, <2>6, <2>7, <2>8, <2>9 DEF Next, Kernel, Search
<1> QED
  BY <1>1, ListInvariant, PTL DEF Spec, HeldUntouched

------------------------------------------------------------------------------
\* kmalloc and kfree implement the allocator callers reckon with: every return
\* of kheap_addBlock hands out a range no outstanding allocation touches.
THEOREM Refinement == Spec => ImplementsAllocator
<1>1. Init => A!Init
  BY DEF Init, A!Init
<1>2. ListInv /\ [Next]_vars => [A!Next]_live
  <2> USE TypesOfConstants
  <2> SUFFICES ASSUME ListInv, [Next]_vars, live' # live PROVE A!Next
    OBVIOUS
  <2>1. TypeOK /\ (pc # "corrupt" => Chain /\ Holders /\ SearchOK)
    BY DEF ListInv
  <2>2. ASSUME NEW b \in Nat, Hold(b), pc # "corrupt", req.size \in Sizes,
               b + H \in HeapStart..MemTop,
               \A q \in DOMAIN live : /\ q # b + H
                                      /\ q + live[q] <= b + H \/ b + H + req.size <= q
        PROVE  A!Next
    <3>1. A!Alloc(b + H, req.size)
      BY <2>2, <2>1 DEF A!Alloc, A!Apart, Hold, DataAddress
    <3> QED  BY <2>2, <3>1 DEF A!Next
  <2>3. CASE PlaceNew
    <3>1. /\ pc = "place" /\ Chain /\ Holders /\ req.size \in Sizes
          /\ Frontier \in Nat /\ NextFor(Frontier, req.size) <= MemTop /\ req.size \in Nat
      BY <2>1, <2>3 DEF PlaceNew, SearchOK, Chain, TypeOK, Frontier, Blocks, Header
    <3>2. \A q \in DOMAIN live : /\ q \in Nat /\ live[q] \in Nat /\ q - H \in Blocks
                                 /\ q + live[q] < hdr[q - H].next
      BY <2>1, <3>1 DEF TypeOK, Holders
    <3>3. \A x \in Blocks : /\ x \in Nat /\ hdr[x].next \in Nat /\ hdr[x].next <= Frontier
                            /\ x + H + 1 <= hdr[x].next
      BY <2>1, <3>1 DEF Chain, TypeOK, Blocks, Header, Frontier
    <3>4. Frontier + H \in HeapStart..MemTop
      <4>1. HeapStart <= Frontier
        BY <2>1, <3>1, <3>3 DEF Frontier, Chain, TypeOK, Blocks
      <4> QED  BY <3>1, <4>1 DEF NextFor
    <3> QED  BY <2>2, <2>3, <3>1, <3>2, <3>3, <3>4 DEF PlaceNew
  <2>4. CASE PlaceReused
    <3>1. /\ pc = "place" /\ Chain /\ Holders /\ req.size \in Sizes /\ req.size \in Nat
          /\ cur \in Blocks /\ cur \in Nat /\ ~hdr[cur].used /\ hdr[cur].next \in Nat
          /\ NextFor(cur, req.size) <= hdr[cur].next /\ hdr[cur].next <= MemTop
      BY <2>1, <2>4 DEF PlaceReused, SearchOK, Chain, TypeOK, Blocks, Header
    <3>2. \A q \in DOMAIN live : /\ q \in Nat /\ live[q] \in Nat /\ q - H \in Blocks
                                 /\ q + live[q] < hdr[q - H].next /\ q - H # cur
      BY <2>1, <3>1 DEF TypeOK, Holders
    <3>3. \A x \in Blocks : /\ x \in Nat /\ hdr[x].next \in Nat
                            /\ x < cur => hdr[x].next <= cur
                            /\ cur < x => hdr[cur].next <= x
      BY <2>1, <3>1 DEF Chain, TypeOK, Blocks, Header
    <3>4. cur + H \in HeapStart..MemTop
      <4>1. HeapStart <= cur
        BY <3>1 DEF Chain
      <4> QED  BY <3>1, <4>1 DEF NextFor
    <3>5. ASSUME NEW q \in DOMAIN live
          PROVE  q # cur + H /\ (q + live[q] <= cur + H \/ cur + H + req.size <= q)
      <4>1. CASE q - H < cur
        <5>1. hdr[q - H].next <= cur
          BY <3>2, <3>3, <4>1
        <5> QED  BY <3>1, <3>2, <3>3, <5>1
      <4>2. CASE cur < q - H
        <5>1. hdr[cur].next <= q - H
          BY <3>2, <3>3, <4>2
        <5> QED  BY <3>1, <3>2, <5>1 DEF NextFor
      <4> QED  BY <3>1, <3>2, <4>1, <4>2
    <3> QED  BY <2>2, <2>4, <3>1, <3>4, <3>5 DEF PlaceReused
  <2>5. ASSUME NEW p \in DOMAIN live, FreeBlock(p) PROVE A!Next
    <3>1. pc = "idle" /\ Chain /\ Holders /\ p \in Nat /\ live[p] \in Nat
      BY <2>1, <2>5 DEF FreeBlock, TypeOK
    <3>2. /\ p - H \in Blocks /\ p - H \in Nat /\ hdr[p - H].next \in Nat
          /\ p < hdr[p - H].next /\ hdr[p - H].next <= MemTop /\ HeapStart <= p - H
      BY <2>1, <3>1 DEF Holders, Chain, TypeOK, Blocks, Header
    <3>3. p \in HeapStart..MemTop
      BY <3>1, <3>2
    <3>4. A!Free(p)
      BY <2>5 DEF FreeBlock, A!Free
    <3> QED  BY <3>3, <3>4 DEF A!Next
  <2>6. CASE \/ Search \/ \E size \in Sizes, m \in Modes : AddBlock(size, m[1], m[2])
             \/ UNCHANGED vars
    BY <2>6 DEF Search, ScanEnd, ScanFit, ScanSmall, ScanUsed, MergeStep, MergeJoin,
                MergePhantom, MergeGiveUp, AddBlock, vars
  <2> QED
    BY <2>3, <2>4, <2>5, <2>6 DEF Next, Kernel
<1> QED
  BY <1>1, <1>2, ListInvariant, PTL DEF Spec, ImplementsAllocator, A!Spec

------------------------------------------------------------------------------
(* Sums over finite sets.  MapThenSumSet takes an element that CHOOSE gives    *)
(* and sums the rest; that the order does not matter is an induction over     *)
(* the number of elements, put as: there is no smallest set it fails for.     *)

\* A set of natural numbers has a least member.
LEMMA Least ==
  ASSUME NEW T \in SUBSET Nat, T # {}
  PROVE  \E x \in T : \A y \in T : x <= y
<1>1. IsWellFoundedOn(OpToRel(<, Nat), Nat)
  BY NatLessThanWellFounded
<1>2. PICK x \in T : \A y \in T : ~(<<y, x>> \in OpToRel(<, Nat))
  BY <1>1, WFMin
<1>3. ASSUME NEW y \in T PROVE x <= y
  <2>1. ~(y < x)
    BY <1>2 DEF OpToRel
  <2> QED  BY <2>1
<1> QED  BY <1>3

\* What holds of a set if it holds of the set without any one element holds of all.
Inherited(U, P) == \A S \in SUBSET U : (\A x \in S : S \ {x} \in P) => S \in P

\* Induction over the subsets of a finite set.
LEMMA RemovingOne ==
  ASSUME NEW U, IsFiniteSet(U), NEW P, Inherited(U, P)
  PROVE  SUBSET U \subseteq P
<1> DEFINE T == {n \in Nat : \E S \in SUBSET U : Cardinality(S) = n /\ S \notin P}
<1> SUFFICES ASSUME NEW R \in SUBSET U, R \notin P PROVE FALSE
  OBVIOUS
<1>1. \A S \in SUBSET U : IsFiniteSet(S) /\ Cardinality(S) \in Nat
  BY FS_Subset, FS_CardinalityType
<1>2. Cardinality(R) \in T
  BY <1>1
<1>3. PICK n \in T : \A m \in T : n <= m
  <2>1. T \in SUBSET Nat /\ T # {}
    BY <1>2
  <2> HIDE DEF T
  <2> QED  BY <2>1, Least
<1>4. PICK S \in SUBSET U : Cardinality(S) = n /\ S \notin P
  BY <1>3
<1>5. ASSUME NEW x \in S PROVE S \ {x} \in P
  <2>1. S \ {x} \in SUBSET U
    BY <1>4
  <2>2. Cardinality(S \ {x}) = n - 1 /\ Cardinality(S \ {x}) \in Nat
    BY <1>1, <1>4, <2>1, FS_RemoveElement
  <2>3. n - 1 \notin T
    <3>1. n \in Nat
      BY <1>3
    <3> QED  BY <1>3, <3>1, <2>2
  <2> QED  BY <2>1, <2>2, <2>3
<1> QED
  BY <1>4, <1>5 DEF Inherited

Taken(S) == CHOOSE x \in S : TRUE

\* CHOOSE gives an element.
LEMMA TakenIn == ASSUME NEW S, S # {} PROVE Taken(S) \in S
BY DEF Taken

\* One round of the sum, given the sums of smaller sets.
Round(f, g, S) == IF S = {} THEN 0 ELSE f[Taken(S)] + g[S \ {Taken(S)}]
Sums(U, f, g) == \A S \in SUBSET U : g[S] = Round(f, g, S)
InAnyOrder(U, f, g) == \A S \in SUBSET U : \A x \in S : g[S] = f[x] + g[S \ {x}]

\* The sum exists: rounds can be added one size of sets after the other.
LEMMA SumExists ==
  ASSUME NEW U, IsFiniteSet(U), NEW f \in [U -> Nat]
  PROVE  \E g \in [SUBSET U -> Nat] : Sums(U, f, g)
<1> DEFINE Upto(g, n) == \A S \in SUBSET U : Cardinality(S) <= n => g[S] = Round(f, g, S)
           T == {n \in Nat : ~\E g \in [SUBSET U -> Nat] : Upto(g, n)}
<1>1. \A S \in SUBSET U : IsFiniteSet(S) /\ Cardinality(S) \in Nat
  BY FS_Subset, FS_CardinalityType
<1>2. ASSUME NEW g \in [SUBSET U -> Nat], NEW S \in SUBSET U
      PROVE  Round(f, g, S) \in Nat
  <2>1. CASE S = {}
    BY <2>1 DEF Round
  <2>2. CASE S # {}
    <3>1. Taken(S) \in U /\ S \ {Taken(S)} \in SUBSET U
      BY <2>2, TakenIn
    <3>2. f[Taken(S)] \in Nat /\ g[S \ {Taken(S)}] \in Nat
      BY <3>1
    <3> QED  BY <2>2, <3>2 DEF Round
  <2> QED  BY <2>1, <2>2
<1>3. T = {}
  <2> SUFFICES ASSUME T # {} PROVE FALSE
    OBVIOUS
  <2>1. PICK n \in T : \A m \in T : n <= m
    <3>1. T \in SUBSET Nat
      OBVIOUS
    <3> HIDE DEF T
    <3> QED  BY <3>1, Least
  <2>2. n \in Nat
    BY <2>1
  <2>3. CASE n = 0
    <3> DEFINE g == [S \in SUBSET U |-> 0]
    <3>1. g \in [SUBSET U -> Nat]
      OBVIOUS
    <3>2. Upto(g, 0)
      <4> SUFFICES ASSUME NEW S \in SUBSET U, Cardinality(S) <= 0 PROVE g[S] = Round(f, g, S)
        OBVIOUS
      <4>1. S = {}
        BY <1>1, FS_EmptySet
      <4> QED  BY <4>1 DEF Round
    <3> QED  BY <2>1, <2>3, <3>1, <3>2
  <2>4. CASE n > 0
    <3>1. n - 1 \in Nat /\ n - 1 \notin T
      <4> HIDE DEF T
      <4>1. n - 1 \in Nat /\ n - 1 < n
        BY <2>2, <2>4
      <4> QED  BY <2>1, <2>2, <4>1
    <3>2. PICK h \in [SUBSET U -> Nat] : Upto(h, n - 1)
      BY <3>1
    <3> DEFINE g == [S \in SUBSET U |-> Round(f, h, S)]
    <3>3. g \in [SUBSET U -> Nat]
      BY <1>2
    <3>4. ASSUME NEW S \in SUBSET U, Cardinality(S) <= n PROVE g[S] = Round(f, g, S)
      <4>1. CASE S = {}
        BY <4>1 DEF Round
      <4>2. CASE S # {}
        <5> DEFINE R == S \ {Taken(S)}
        <5>1. R \in SUBSET U /\ Taken(S) \in S
          BY <4>2, TakenIn
        <5>2. Cardinality(R) = Cardinality(S) - 1
          BY <1>1, <5>1, FS_RemoveElement
        <5>3. Cardinality(R) <= n - 1
          BY <1>1, <2>2, <3>4, <5>2
        <5>4. h[R] = Round(f, h, R)
          BY <3>2, <5>1, <5>3
        <5>5. g[R] = h[R]
          BY <5>1, <5>4
        <5> HIDE DEF R
        <5>6. Round(f, h, S) = Round(f, g, S)
          <6> HIDE DEF g
          <6> QED  BY <4>2, <5>5 DEF Round, R
        <5> QED  BY <5>6
      <4> QED  BY <4>1, <4>2
    <3>5. Upto(g, n)
      BY <3>4
    <3> HIDE DEF Upto, g
    <3> QED  BY <2>1, <3>3, <3>5
  <2> QED  BY <2>2, <2>3, <2>4
<1>4. PICK g \in [SUBSET U -> Nat] : Upto(g, Cardinality(U))
  BY <1>1, <1>3
<1>5. \A S \in SUBSET U : Cardinality(S) <= Cardinality(U)
  BY FS_Subset
<1> QED
  BY <1>4, <1>5 DEF Sums

\* SumOfSizes is such a sum: it is the function on which all rounds agree, taken
\* at the set in question, whichever larger set it is summed within.
LEMMA SumIsRounds ==
  ASSUME NEW U, IsFiniteSet(U), NEW k, NEW g \in [SUBSET U -> Nat],
         \A x \in U : DataSize(x, k[x]) \in Nat,
         Sums(U, [x \in U |-> DataSize(x, k[x])], g),
         NEW S \in SUBSET U
  PROVE  SumOfSizes(k, S) = g[S]
<1> DEFINE f == [x \in U |-> DataSize(x, k[x])]
           Rounds(it) == it = [R \in SUBSET S |-> IF R = {} THEN 0
                               ELSE DataSize(Taken(R), k[Taken(R)]) + it[R \ {Taken(R)}]]
           it == CHOOSE it : Rounds(it)
<1>1. SumOfSizes(k, S) = it[S]
  BY Zenon DEF SumOfSizes, MapThenSumSet, MapThenFoldSet, Taken
<1>2. ASSUME NEW R \in SUBSET S, R # {}
      PROVE  Taken(R) \in R /\ Taken(R) \in U /\ R \ {Taken(R)} \in SUBSET S
  BY <1>2, TakenIn
<1>3. Rounds([R \in SUBSET S |-> g[R]])
  <2> DEFINE h == [R \in SUBSET S |-> g[R]]
  <2>1. ASSUME NEW R \in SUBSET S
        PROVE  h[R] = IF R = {} THEN 0 ELSE DataSize(Taken(R), k[Taken(R)]) + h[R \ {Taken(R)}]
    <3>1. g[R] = Round(f, g, R)
      BY DEF Sums
    <3>2. CASE R = {}
      BY <3>1, <3>2 DEF Round
    <3>3. CASE R # {}
      <4>1. f[Taken(R)] = DataSize(Taken(R), k[Taken(R)]) /\ h[R \ {Taken(R)}] = g[R \ {Taken(R)}]
        BY <1>2, <3>3
      <4>2. g[R] = f[Taken(R)] + g[R \ {Taken(R)}]
        BY <3>1, <3>3 DEF Round
      <4>3. h[R] = g[R]
        OBVIOUS
      <4> HIDE DEF h, f
      <4> QED  BY <3>3, <4>1, <4>2, <4>3
    <3> QED  BY <3>2, <3>3
  <2>2. h = [R \in SUBSET S |-> h[R]]
    OBVIOUS
  <2> HIDE DEF h
  <2>3. Rounds(h)
    BY <2>1, <2>2, Zenon
  <2> QED  BY <2>3 DEF h
<1>4. Rounds(it)
  <2> HIDE DEF Rounds
  <2> QED  BY <1>3, Zenon
<1> HIDE DEF it
<1> DEFINE P == {R \in SUBSET S : it[R] = g[R]}
<1>5. Inherited(S, P)
  <2> SUFFICES ASSUME NEW R \in SUBSET S, \A x \in R : R \ {x} \in P PROVE it[R] = g[R]
    BY DEF Inherited
  <2>1. it[R] = IF R = {} THEN 0 ELSE DataSize(Taken(R), k[Taken(R)]) + it[R \ {Taken(R)}]
    BY <1>4, Zenon
  <2>2. g[R] = Round(f, g, R)
    BY DEF Sums
  <2>3. CASE R = {}
    BY <2>1, <2>2, <2>3 DEF Round
  <2>4. CASE R # {}
    <3>1. it[R \ {Taken(R)}] = g[R \ {Taken(R)}] /\ f[Taken(R)] = DataSize(Taken(R), k[Taken(R)])
      BY <1>2, <2>4
    <3>2. g[R] = f[Taken(R)] + g[R \ {Taken(R)}]
      BY <2>2, <2>4 DEF Round
    <3> HIDE DEF f
    <3> QED  BY <2>1, <2>4, <3>1, <3>2
  <2> QED  BY <2>3, <2>4
<1>6. IsFiniteSet(S)
  BY FS_Subset
<1>7. S \in P
  <2> HIDE DEF P
  <2>1. SUBSET S \subseteq P
    BY <1>5, <1>6, RemovingOne
  <2> QED  BY <2>1
<1> QED
  BY <1>1, <1>7

\* The order of the rounds does not matter: any element could have come first.
LEMMA AnyFirst ==
  ASSUME NEW U, IsFiniteSet(U), NEW f \in [U -> Nat], NEW g \in [SUBSET U -> Nat],
         Sums(U, f, g)
  PROVE  InAnyOrder(U, f, g)
<1> DEFINE P == {S \in SUBSET U : \A x \in S : g[S] = f[x] + g[S \ {x}]}
<1>1. Inherited(U, P)
  <2> SUFFICES ASSUME NEW S \in SUBSET U, \A y \in S : S \ {y} \in P, NEW x \in S
               PROVE  g[S] = f[x] + g[S \ {x}]
    BY DEF Inherited
  <2> DEFINE t == Taken(S)
  <2>1. t \in S /\ g[S] = f[t] + g[S \ {t}]
    BY TakenIn DEF Round, Sums
  <2>2. CASE x = t
    BY <2>1, <2>2
  <2>3. CASE x # t
    <3> HIDE DEF t
    <3>1. /\ g[S \ {t}] = f[x] + g[(S \ {t}) \ {x}]
          /\ g[S \ {x}] = f[t] + g[(S \ {x}) \ {t}]
      <4>1. x \in S \ {t} /\ t \in S \ {x}
        BY <2>1, <2>3
      <4>2. S \ {t} \in P /\ S \ {x} \in P
        BY <2>1
      <4> QED  BY <4>1, <4>2
    <3>2. (S \ {t}) \ {x} = (S \ {x}) \ {t}
      OBVIOUS
    <3>3. f[x] \in Nat /\ f[t] \in Nat /\ g[(S \ {x}) \ {t}] \in Nat
      BY <2>1
    <3> DEFINE r == g[(S \ {x}) \ {t}]  ft == f[t]  fx == f[x]
    <3>4. g[S \ {t}] = fx + r /\ g[S \ {x}] = ft + r /\ ft \in Nat /\ fx \in Nat /\ r \in Nat
      BY <3>1, <3>2, <3>3
    <3>5. g[S] = ft + g[S \ {t}]
      BY <2>1
    <3> HIDE DEF r, ft, fx
    <3>6. g[S] = fx + g[S \ {x}]
      BY <3>4, <3>5
    <3> QED  BY <3>6 DEF fx
  <2> QED  BY <2>2, <2>3
<1> HIDE DEF P
<1>2. SUBSET U \subseteq P
  BY <1>1, RemovingOne
<1> QED
  BY <1>2 DEF P, InAnyOrder

\* So a sum over no blocks is 0, and one over some is any one of them and the rest.
LEMMA SumLaws ==
  ASSUME NEW U, IsFiniteSet(U), NEW k, \A x \in U : DataSize(x, k[x]) \in Nat
  PROVE  /\ SumOfSizes(k, {}) = 0
         /\ \A S \in SUBSET U :
              /\ SumOfSizes(k, S) \in Nat
              /\ \A x \in S : SumOfSizes(k, S) = DataSize(x, k[x]) + SumOfSizes(k, S \ {x})
<1> DEFINE f == [x \in U |-> DataSize(x, k[x])]
<1>1. f \in [U -> Nat]
  OBVIOUS
<1>2. PICK g \in [SUBSET U -> Nat] : Sums(U, f, g)
  <2> HIDE DEF f
  <2> QED  BY <1>1, SumExists
<1>3. \A S \in SUBSET U : SumOfSizes(k, S) = g[S]
  BY <1>2, SumIsRounds
<1>4. InAnyOrder(U, f, g)
  <2> HIDE DEF f
  <2> QED  BY <1>1, <1>2, AnyFirst
<1>5. g[{}] = 0
  <2>1. {} \in SUBSET U
    OBVIOUS
  <2> QED  BY <1>2, <2>1 DEF Round, Sums
<1>6. SumOfSizes(k, {}) = 0
  BY <1>3, <1>5
<1>7. ASSUME NEW S \in SUBSET U PROVE SumOfSizes(k, S) \in Nat
  BY <1>3
<1>8. ASSUME NEW S \in SUBSET U, NEW x \in S
      PROVE  SumOfSizes(k, S) = DataSize(x, k[x]) + SumOfSizes(k, S \ {x})
  <2>1. S \ {x} \in SUBSET U /\ x \in U
    OBVIOUS
  <2>2. g[S] = f[x] + g[S \ {x}]
    BY <1>4 DEF InAnyOrder
  <2> QED  BY <1>3, <2>1, <2>2
<1> QED
  BY <1>6, <1>7, <1>8

\* Blocks of which every size is what it should be.
Sized(k, S) == IsFiniteSet(S) /\ \A x \in S : DataSize(x, k[x]) \in Nat

\* A part of such blocks is one.
LEMMA SizedParts ==
  ASSUME NEW k, NEW S, Sized(k, S), NEW R \in SUBSET S
  PROVE  Sized(k, R)
BY FS_Subset DEF Sized

\* A sum of sizes is a size.
LEMMA SumNat ==
  ASSUME NEW k, NEW S, Sized(k, S)
  PROVE  SumOfSizes(k, S) \in Nat
<1>1. S \in SUBSET S
  OBVIOUS
<1> QED
  BY <1>1, SumLaws DEF Sized

\* No blocks have no size.
LEMMA SumNone ==
  ASSUME NEW k
  PROVE  SumOfSizes(k, {}) = 0
<1>1. IsFiniteSet({}) /\ \A x \in {} : DataSize(x, k[x]) \in Nat
  BY FS_EmptySet
<1> QED
  BY <1>1, SumLaws

\* Any block can be taken out.
LEMMA SumOne ==
  ASSUME NEW k, NEW S, Sized(k, S), NEW x \in S
  PROVE  SumOfSizes(k, S) = DataSize(x, k[x]) + SumOfSizes(k, S \ {x})
<1>1. S \in SUBSET S
  OBVIOUS
<1> QED
  BY <1>1, SumLaws DEF Sized

\* A further block adds its size.
LEMMA SumAdd ==
  ASSUME NEW k, NEW S, NEW x, x \notin S, Sized(k, S \cup {x})
  PROVE  SumOfSizes(k, S \cup {x}) = DataSize(x, k[x]) + SumOfSizes(k, S)
<1>1. x \in S \cup {x} /\ (S \cup {x}) \ {x} = S
  OBVIOUS
<1>2. SumOfSizes(k, S \cup {x}) = DataSize(x, k[x]) + SumOfSizes(k, (S \cup {x}) \ {x})
  BY <1>1, SumOne
<1> QED
  BY <1>1, <1>2

\* Two headers of one size count alike.
LEMMA SumSame ==
  ASSUME NEW k, NEW j, NEW S, Sized(k, S), \A x \in S : DataSize(x, j[x]) = DataSize(x, k[x])
  PROVE  SumOfSizes(j, S) = SumOfSizes(k, S)
<1> DEFINE P == {R \in SUBSET S : SumOfSizes(j, R) = SumOfSizes(k, R)}
<1>1. Inherited(S, P)
  <2> SUFFICES ASSUME NEW R \in SUBSET S, \A x \in R : R \ {x} \in P
               PROVE  SumOfSizes(j, R) = SumOfSizes(k, R)
    BY DEF Inherited
  <2>1. CASE R = {}
    BY <2>1, SumNone
  <2>2. CASE R # {}
    <3>1. PICK x \in R : TRUE
      BY <2>2
    <3>2. Sized(k, R)
      BY SizedParts
    <3>3. Sized(j, R)
      BY <3>2 DEF Sized
    <3>4. SumOfSizes(k, R) = DataSize(x, k[x]) + SumOfSizes(k, R \ {x})
      BY <3>2, SumOne
    <3>5. SumOfSizes(j, R) = DataSize(x, j[x]) + SumOfSizes(j, R \ {x})
      BY <3>3, SumOne
    <3>6. SumOfSizes(j, R \ {x}) = SumOfSizes(k, R \ {x})
      OBVIOUS
    <3> QED  BY <3>4, <3>5, <3>6
  <2> QED  BY <2>1, <2>2
<1>2. IsFiniteSet(S)
  BY DEF Sized
<1>3. S \in P
  <2> HIDE DEF P
  <2>1. SUBSET S \subseteq P
    BY <1>1, <1>2, RemovingOne
  <2> QED  BY <2>1
<1> QED
  BY <1>3

\* The sum over two sets apart is the sum of both.
LEMMA SumBoth ==
  ASSUME NEW k, NEW S, NEW T, S \cap T = {}, Sized(k, S \cup T)
  PROVE  SumOfSizes(k, S \cup T) = SumOfSizes(k, S) + SumOfSizes(k, T)
<1> DEFINE P == {R \in SUBSET S : SumOfSizes(k, R \cup T) = SumOfSizes(k, R) + SumOfSizes(k, T)}
<1>1. Inherited(S, P)
  <2> SUFFICES ASSUME NEW R \in SUBSET S, \A x \in R : R \ {x} \in P
               PROVE  SumOfSizes(k, R \cup T) = SumOfSizes(k, R) + SumOfSizes(k, T)
    BY DEF Inherited
  <2>0. SumOfSizes(k, T) \in Nat
    <3>1. Sized(k, T)
      BY SizedParts
    <3> QED  BY <3>1, SumNat
  <2>1. CASE R = {}
    <3>1. R \cup T = T /\ SumOfSizes(k, R) = 0
      BY <2>1, SumNone
    <3> QED  BY <2>0, <3>1
  <2>2. CASE R # {}
    <3>1. PICK x \in R : TRUE
      BY <2>2
    <3>2. /\ R \cup T \in SUBSET (S \cup T) /\ R \in SUBSET (S \cup T)
          /\ R \ {x} \in SUBSET (S \cup T)
      OBVIOUS
    <3>3. Sized(k, R \cup T) /\ Sized(k, R) /\ Sized(k, R \ {x})
      BY <3>2, SizedParts
    <3>4. SumOfSizes(k, R) = DataSize(x, k[x]) + SumOfSizes(k, R \ {x})
      BY <3>3, SumOne
    <3>5. SumOfSizes(k, R \cup T) = DataSize(x, k[x]) + SumOfSizes(k, (R \cup T) \ {x})
      <4>1. x \in R \cup T
        OBVIOUS
      <4> QED  BY <3>3, <4>1, SumOne
    <3>6. (R \cup T) \ {x} = (R \ {x}) \cup T
      <4>1. x \notin T
        OBVIOUS
      <4> QED  BY <4>1
    <3>7. SumOfSizes(k, (R \ {x}) \cup T) = SumOfSizes(k, R \ {x}) + SumOfSizes(k, T)
      OBVIOUS
    <3>8. DataSize(x, k[x]) \in Nat /\ SumOfSizes(k, R \ {x}) \in Nat
      BY <3>3, SumNat DEF Sized
    <3>9. SumOfSizes(k, R \cup T)
            = DataSize(x, k[x]) + (SumOfSizes(k, R \ {x}) + SumOfSizes(k, T))
      BY <3>5, <3>6, <3>7, Zenon
    <3> QED  BY <2>0, <3>4, <3>8, <3>9
  <2> QED  BY <2>1, <2>2
<1>2. IsFiniteSet(S)
  <2>1. S \in SUBSET (S \cup T)
    OBVIOUS
  <2> QED  BY <2>1, SizedParts DEF Sized
<1>3. S \in P
  <2> HIDE DEF P
  <2>1. SUBSET S \subseteq P
    BY <1>1, <1>2, RemovingOne
  <2> QED  BY <2>1
<1> QED
  BY <1>3

\* More blocks are not smaller.
LEMMA SumMore ==
  ASSUME NEW k, NEW T, Sized(k, T), NEW S \in SUBSET T
  PROVE  SumOfSizes(k, S) <= SumOfSizes(k, T)
<1>1. S \cup (T \ S) = T /\ S \cap (T \ S) = {} /\ T \ S \in SUBSET T
  OBVIOUS
<1>2. Sized(k, S) /\ Sized(k, T \ S)
  BY <1>1, SizedParts
<1>3. SumOfSizes(k, S) \in Nat /\ SumOfSizes(k, T \ S) \in Nat
  BY <1>2, SumNat
<1>4. SumOfSizes(k, S \cup (T \ S)) = SumOfSizes(k, S) + SumOfSizes(k, T \ S)
  BY <1>1, SumBoth
<1>5. SumOfSizes(k, T) = SumOfSizes(k, S) + SumOfSizes(k, T \ S)
  BY <1>1, <1>4
<1> QED
  BY <1>3, <1>5

------------------------------------------------------------------------------
(* The counts.                                                             *)

\* Headers that lie in the heap and end where they begin or later.
Laid(k) == \A b \in DOMAIN k : /\ b \in Nat /\ k[b].next \in Nat
                               /\ b + H + 1 <= k[b].next /\ k[b].next <= MemTop

\* The sizes of such headers are theirs, modulo nothing.
LEMMA LaidSized ==
  ASSUME NEW k, Laid(k)
  PROVE  /\ \A S \in SUBSET DOMAIN k : Sized(k, S)
         /\ \A b \in DOMAIN k : /\ DataSize(b, k[b]) \in Nat
                                /\ DataSize(b, k[b]) + b + H + 1 = k[b].next
<1> USE TypesOfConstants
<1>1. ASSUME NEW b \in DOMAIN k
      PROVE  DataSize(b, k[b]) \in Nat /\ DataSize(b, k[b]) + b + H + 1 = k[b].next
  <2>1. b \in Nat /\ k[b].next \in Nat /\ b + H + 1 <= k[b].next
    BY DEF Laid
  <2>2. DataSize(b, k[b]) = k[b].next - (b + H + 1)
    BY <2>1 DEF DataSize
  <2> QED  BY <2>1, <2>2
<1>2. IsFiniteSet(DOMAIN k)
  <2>1. \A b \in DOMAIN k : b \in Nat /\ b <= MemTop
    BY DEF Laid
  <2>2. DOMAIN k \in SUBSET Nat
    BY <2>1
  <2> QED  BY <2>1, <2>2, FS_BoundedSetOfNaturals
<1>3. \A S \in SUBSET DOMAIN k : IsFiniteSet(S)
  BY <1>2, FS_Subset
<1> QED
  BY <1>1, <1>3 DEF Sized

\* The list is laid like that, before and after a step.
LEMMA ListLaid ==
  /\ TypeOK /\ Chain => Laid(hdr)
  /\ TypeOK' /\ Chain' => Laid(hdr')
<1>1. TypeOK /\ Chain => Laid(hdr)
  BY DEF TypeOK, Chain, Laid, Blocks, Header
<1>2. TypeOK' /\ Chain' => Laid(hdr')
  BY DEF TypeOK, Chain, Laid, Blocks, Header
<1> QED
  BY <1>1, <1>2

\* H times a number of blocks.
LEMMA Times ==
  ASSUME NEW n \in Int, NEW m \in Int
  PROVE  H * (n + m) = H * n + H * m /\ H * (n - m) = H * n - H * m /\ m * H = H * m /\ H * n \in Int
BY TypesOfConstants

\* Between two blocks next to each other there is no third.
LEMMA Neighbours ==
  ASSUME TypeOK, Chain, NEW b \in Blocks, NEW x \in Blocks, b < x
  PROVE  hdr[b].next <= x
BY DEF Chain

\* Nothing is counted before the first request.
LEMMA InitCounts == Init => CountsInv
<1> SUFFICES ASSUME Init PROVE CountsInv
  OBVIOUS
<1>1. Blocks = {} /\ {b \in Blocks : hdr[b].used} = {}
  BY DEF Init, Blocks
<1>2. Cardinality(Blocks) = 0 /\ TotalSize(Blocks) = 0 /\ TotalSize({b \in Blocks : hdr[b].used}) = 0
  BY <1>1, FS_EmptySet, SumNone DEF TotalSize
<1>3. H * 0 = 0
  BY TypesOfConstants
<1> QED
  BY <1>2, <1>3 DEF Init, CountsInv, RunSummed, Searched, Accounts

\* What a step leaves alone.
LEMMA AccountsStay ==
  ASSUME Accounts, UNCHANGED <<hdr, kheapMem, inc>>, ~found' => ~found
  PROVE  Accounts'
BY DEF Accounts, Blocks, TotalSize

\* A run too small stays so while list and request stay.
LEMMA MissesStays ==
  ASSUME NEW b, Misses(b), UNCHANGED <<hdr, req>>
  PROVE  Misses(b)'
BY DEF Misses, Blocks, TotalSize, FreeRun

\* The outer loop: what it skips or passes begins no run that would do.
LEMMA ScanCounts ==
  ASSUME ListInv, CountsInv, ScanEnd \/ ScanFit \/ ScanSmall \/ ScanUsed, ListInv'
  PROVE  CountsInv'
<1> USE TypesOfConstants
<1>1. /\ pc = "scan" /\ TypeOK /\ Chain /\ Holders /\ SearchOK
      /\ RunSummed /\ Searched /\ Accounts /\ heapInitialized /\ ~found /\ pc' # "corrupt"
  BY DEF ListInv, CountsInv, ScanEnd, ScanFit, ScanSmall, ScanUsed, SearchOK
<1>2. Accounts'
  <2>1. UNCHANGED <<hdr, kheapMem, inc>> /\ (~found' => ~found)
    BY <1>1 DEF ScanEnd, ScanFit, ScanSmall, ScanUsed, list
  <2> QED  BY <1>1, <2>1, AccountsStay
<1>3. UNCHANGED <<hdr, req>>
  BY DEF ScanEnd, ScanFit, ScanSmall, ScanUsed, list
<1>4. \A b \in Blocks : b < cur => Misses(b)
  BY <1>1 DEF Searched
<1>5. /\ Blocks' = Blocks /\ cur \in Nat /\ lastBlock \in Nat /\ lastBlock \in Blocks
      /\ \A b \in Blocks : b \in Nat /\ b <= lastBlock /\ hdr[b].next \in Nat
  BY <1>1, <1>3 DEF Blocks, TypeOK, Chain, Header
<1>6. CASE ScanEnd
  <2>1. ASSUME NEW b \in Blocks PROVE Misses(b)
    <3>1. ~(cur <= lastBlock)
      BY <1>6 DEF ScanEnd, Scanning
    <3>2. b \in Nat /\ b <= lastBlock /\ cur \in Nat /\ lastBlock \in Nat
      BY <1>5
    <3>3. b < cur
      BY <3>1, <3>2
    <3> QED  BY <1>4, <3>3
  <2>2. Searched'
    BY <1>3, <1>5, <1>6, <2>1, MissesStays DEF ScanEnd, Searched
  <2>3. RunSummed'
    BY <1>6 DEF ScanEnd, RunSummed
  <2> QED  BY <1>2, <2>2, <2>3 DEF CountsInv
<1>7. CASE ScanFit
  <2>1. Searched' /\ RunSummed'
    BY <1>7 DEF ScanFit, Searched, RunSummed
  <2> QED  BY <1>2, <2>1 DEF CountsInv
<1>8. CASE ScanSmall
  <2>1. cur \in Blocks /\ ~hdr[cur].used
    BY <1>1, <1>8, CurInList DEF ScanSmall, Scanning, SearchOK
  <2>2. Searched'
    BY <1>3, <1>4, <1>5, <1>8, MissesStays DEF ScanSmall, Searched
  <2>3. nxt' = cur /\ cur' = cur /\ sum' = SizeOf(cur) /\ count' = 0
    BY <1>8 DEF ScanSmall
  <2>4. Run' = {cur}
    <3>1. Run' = {b \in Blocks : cur <= b /\ b <= cur /\ ~hdr[b].used}
      BY <1>3, <1>5, <2>3 DEF Run, FreeRun
    <3>2. \A b \in Blocks : cur <= b /\ b <= cur <=> b = cur
      BY <1>5
    <3> QED  BY <2>1, <3>1, <3>2
  <2>5. SumOfSizes(hdr, {cur}) = SizeOf(cur)
    <3>1. Sized(hdr, {cur}) /\ SizeOf(cur) \in Nat
      BY <1>1, <2>1, ListLaid, LaidSized DEF Blocks, SizeOf
    <3>2. SumOfSizes(hdr, {cur}) = SizeOf(cur) + SumOfSizes(hdr, {cur} \ {cur})
      BY <3>1, SumOne DEF SizeOf
    <3>3. {cur} \ {cur} = {}
      OBVIOUS
    <3> QED  BY <3>1, <3>2, <3>3, SumNone
  <2>6. sum' = TotalSize(Run)'
    BY <1>3, <2>3, <2>4, <2>5 DEF TotalSize
  <2>7. count' = Cardinality(Run \ {cur})'
    <3>1. (Run \ {cur})' = {}
      BY <2>3, <2>4
    <3> QED  BY <2>3, <3>1, FS_EmptySet
  <2>8. RunSummed'
    BY <1>3, <1>5, <2>1, <2>3, <2>6, <2>7 DEF RunSummed
  <2> QED  BY <1>2, <2>2, <2>8 DEF CountsInv
<1>9. CASE ScanUsed
  <2>1. cur \in Blocks /\ hdr[cur].used /\ cur' = hdr[cur].next /\ pc' = "scan"
    BY <1>1, <1>9, CurInList DEF ScanUsed, Scanning, SearchOK, Following
  <2>2. ASSUME NEW b \in Blocks, b < cur' PROVE Misses(b)
    <3>1. CASE b < cur
      BY <1>4, <3>1
    <3>2. CASE b = cur
      <4> SUFFICES ASSUME NEW c \in Blocks, b <= c PROVE \E x \in FreeRun(b, c) : hdr[x].used
        BY DEF Misses
      <4>1. b \in FreeRun(b, c)
        BY <1>5 DEF FreeRun
      <4> QED  BY <2>1, <3>2, <4>1
    <3>3. ~(b > cur)
      BY <1>1, <1>5, <2>1, <2>2, Neighbours
    <3> QED  BY <1>5, <3>1, <3>2, <3>3
  <2>3. Searched'
    BY <1>3, <1>5, <2>1, <2>2, MissesStays DEF Searched
  <2>4. RunSummed'
    BY <2>1 DEF RunSummed
  <2> QED  BY <1>2, <2>3, <2>4 DEF CountsInv
<1> QED
  BY <1>6, <1>7, <1>8, <1>9

\* A search starts below every block, or there is nothing to search.
LEMMA AddCounts ==
  ASSUME ListInv, CountsInv, NEW size \in Sizes, NEW m \in Modes,
         AddBlock(size, m[1], m[2])
  PROVE  CountsInv'
<1>1. /\ pc = "idle" /\ TypeOK /\ Chain /\ SearchOK /\ Accounts /\ ~found
  BY DEF ListInv, CountsInv, AddBlock, SearchOK
<1>2. UNCHANGED <<hdr, kheapMem, inc, found, heapInitialized>>
  BY DEF AddBlock, list
<1>3. Accounts'
  BY <1>1, <1>2, AccountsStay
<1>4. RunSummed'
  BY DEF AddBlock, RunSummed
<1>5. CASE heapInitialized /\ m[1] /\ kheapMem.blockCount # 0
  <2>1. pc' = "scan" /\ cur' = firstBlock
    BY <1>5 DEF AddBlock
  <2>2. \A b \in Blocks : ~(b < firstBlock)
    BY <1>1 DEF Chain, TypeOK, Blocks
  <2>3. Searched'
    BY <1>2, <2>1, <2>2 DEF Searched, Blocks
  <2> QED  BY <1>3, <1>4, <2>3 DEF CountsInv
<1>6. CASE ~(heapInitialized /\ m[1] /\ kheapMem.blockCount # 0)
  <2>1. pc' = "place" /\ req'.reuse = m[1]
    BY <1>6 DEF AddBlock
  <2>2. kheapMem.blockCount = 0 => Blocks = {}
    <3>1. IsFiniteSet(Blocks)
      <4>1. Blocks \in SUBSET DOMAIN hdr
        BY DEF Blocks
      <4> QED  BY <1>1, <4>1, ListLaid, LaidSized DEF Sized
    <3> QED  BY <1>1, <3>1, FS_EmptySet DEF Accounts
  <2>3. heapInitialized => Blocks # {}
    BY <1>1 DEF Chain
  <2>4. ~(req'.reuse /\ heapInitialized')
    BY <1>2, <1>6, <2>1, <2>2, <2>3
  <2>5. Searched'
    BY <2>1, <2>4 DEF Searched
  <2> QED  BY <1>3, <1>4, <2>5 DEF CountsInv
<1> QED
  BY <1>5, <1>6

\* The inner loop adds the next block to run, sum and count.
LEMMA MergeStepCounts ==
  ASSUME ListInv, CountsInv, MergeStep, ListInv'
  PROVE  CountsInv'
<1> USE TypesOfConstants
<1> DEFINE n == nxtHdr.next
<1>1. /\ pc = "merge" /\ TypeOK /\ Chain /\ SearchOK /\ RunSummed /\ Searched /\ Accounts
      /\ heapInitialized /\ ~found /\ pc' = "merge"
  BY DEF ListInv, CountsInv, MergeStep, SearchOK
<1>2. UNCHANGED <<hdr, kheapMem, inc, found, req, cur>> /\ nxt' = n
  BY DEF MergeStep, list
<1>3. Accounts'
  BY <1>1, <1>2, AccountsStay
<1>4. Blocks' = Blocks
  BY <1>2 DEF Blocks
<1>5. Searched'
  BY <1>1, <1>2, <1>4, MissesStays DEF Searched
<1>6. nxt \in Blocks /\ nxtHdr = hdr[nxt] /\ ~nxtHdr.used /\ sum < req.size
  BY <1>1, NxtInList DEF SearchOK, MergeStep, Joining
<1>7. /\ cur \in Blocks /\ cur \in Nat /\ nxt \in Nat /\ cur <= nxt /\ n \in Nat /\ nxt < n
      /\ \A b \in Blocks : b \in Nat /\ (nxt < b => n <= b)
  BY <1>1, <1>6 DEF SearchOK, TypeOK, Blocks, Chain, Header
<1>8. Laid(hdr) /\ \A S \in SUBSET Blocks : Sized(hdr, S)
  BY <1>1, ListLaid, LaidSized DEF Blocks
<1>9. sum = TotalSize(Run) /\ count = Cardinality(Run \ {cur}) /\ ~hdr[cur].used
  BY <1>1, <1>6 DEF RunSummed
<1>10. Run \in SUBSET Blocks /\ n \notin Run
  BY <1>7 DEF Run, FreeRun
<1>11. Run' = {b \in Blocks : cur <= b /\ b <= n /\ ~hdr[b].used}
  BY <1>2, <1>4 DEF Run, FreeRun
<1>12. CASE n \notin Blocks
  <2>1. \A b \in Blocks : b <= n <=> b <= nxt
    BY <1>7, <1>12
  <2>2. Run' = Run
    BY <1>11, <2>1 DEF Run, FreeRun
  <2>3. TotalSize(Run)' = sum
    BY <1>2, <1>9, <2>2 DEF TotalSize
  <2>4. RunSummed'
    BY <1>2, <1>4, <1>6, <1>9, <1>12, <2>3 DEF RunSummed
  <2> QED  BY <1>3, <1>5, <2>4 DEF CountsInv
<1>13. CASE n \in Blocks
  <2>1. \A b \in Blocks : b <= n <=> b <= nxt \/ b = n
    BY <1>7
  <2>2. IF hdr[n].used THEN UNCHANGED <<sum, count>>
        ELSE sum' = Plus(sum, DataSize(n, hdr[n])) /\ count' = count + 1
    BY <1>13 DEF MergeStep, ReadHeader
  <2>3. CASE hdr[n].used
    <3>1. Run' = Run
      BY <1>11, <2>1, <2>3 DEF Run, FreeRun
    <3>2. sum' = TotalSize(Run)' /\ count' = Cardinality(Run \ {cur})'
      BY <1>2, <1>9, <2>2, <2>3, <3>1 DEF TotalSize
    <3>3. RunSummed'
      BY <1>2, <1>4, <1>9, <1>13, <3>2 DEF RunSummed
    <3> QED  BY <1>3, <1>5, <3>3 DEF CountsInv
  <2>4. CASE ~hdr[n].used
    <3>1. Run' = Run \cup {n}
      <4>1. cur <= n
        BY <1>7
      <4> QED  BY <1>11, <1>13, <2>1, <2>4, <4>1 DEF Run, FreeRun
    <3>2. SumOfSizes(hdr, Run \cup {n}) = DataSize(n, hdr[n]) + sum
      <4>1. Sized(hdr, Run \cup {n})
        BY <1>8, <1>10, <1>13
      <4> QED  BY <1>9, <1>10, <4>1, SumAdd DEF TotalSize
    <3>3. sum' = sum + DataSize(n, hdr[n])
      <4>1. DataSize(n, hdr[n]) \in Nat /\ DataSize(n, hdr[n]) + n + H + 1 <= MemTop
        BY <1>8, <1>13, LaidSized DEF Laid, Blocks
      <4>2. sum \in Nat /\ sum <= n
        <5>1. NextFor(cur, sum + count * (H + 1)) = n
          BY <1>1, <1>6 DEF SearchOK
        <5>2. sum \in Nat /\ count * (H + 1) \in Nat
          BY <1>1 DEF TypeOK
        <5> QED  BY <1>7, <5>1, <5>2 DEF NextFor
      <4>3. sum + DataSize(n, hdr[n]) < WORD
        BY <1>7, <4>1, <4>2
      <4> QED  BY <2>2, <2>4, <4>3 DEF Plus
    <3>4. sum' = TotalSize(Run)'
      <4>1. TotalSize(Run)' = SumOfSizes(hdr, Run \cup {n})
        BY <1>2, <3>1 DEF TotalSize
      <4>2. sum \in Nat /\ DataSize(n, hdr[n]) \in Nat
        BY <1>1, <1>8, <1>13, LaidSized DEF TypeOK, Blocks
      <4> QED  BY <3>2, <3>3, <4>1, <4>2
    <3>5. count' = Cardinality(Run \ {cur})'
      <4>1. (Run \ {cur})' = (Run \ {cur}) \cup {n}
        <5>1. n # cur
          BY <1>7
        <5> QED  BY <1>2, <3>1, <5>1
      <4>2. IsFiniteSet(Run \ {cur})
        BY <1>8, <1>10 DEF Sized
      <4>3. Cardinality((Run \ {cur}) \cup {n}) = Cardinality(Run \ {cur}) + 1
        BY <1>10, <4>2, FS_AddElement
      <4> QED  BY <1>9, <2>2, <2>4, <4>1, <4>3
    <3>6. RunSummed'
      BY <1>2, <1>4, <1>9, <1>13, <3>4, <3>5 DEF RunSummed
    <3> QED  BY <1>3, <1>5, <3>6 DEF CountsInv
  <2> QED  BY <2>3, <2>4
<1> QED
  BY <1>12, <1>13

\* It gives up at a block in use or past the last one: from cur, too, no run does.
LEMMA GiveUpCounts ==
  ASSUME ListInv, CountsInv, MergeGiveUp
  PROVE  CountsInv'
<1> USE TypesOfConstants
<1>1. /\ pc = "merge" /\ TypeOK /\ Chain /\ SearchOK /\ RunSummed /\ Searched /\ Accounts
      /\ heapInitialized /\ ~found /\ pc' = "scan" /\ sum < req.size /\ ~Joining
  BY DEF ListInv, CountsInv, MergeGiveUp, SearchOK
<1>2. UNCHANGED <<hdr, kheapMem, inc, found, req>> /\ cur' = hdr[cur].next
  BY DEF MergeGiveUp, list, Following
<1>3. Accounts'
  BY <1>1, <1>2, AccountsStay
<1>4. Blocks' = Blocks
  BY <1>2 DEF Blocks
<1>5. RunSummed'
  BY <1>1 DEF RunSummed
<1>6. /\ cur \in Blocks /\ cur \in Nat /\ nxt \in Nat /\ cur <= nxt /\ hdr[cur].next \in Nat
      /\ \A b \in Blocks : b \in Nat
      /\ nxt \in Blocks => nxt <= lastBlock
      /\ nxt \notin Blocks => \A b \in Blocks : b <= nxt
  <2>1. nxt \notin Blocks => nxt = Frontier
    BY <1>1 DEF SearchOK
  <2>2. \A b \in Blocks : b \in Nat /\ hdr[b].next \in Nat /\ b <= lastBlock /\ b + H + 1 <= hdr[b].next
    BY <1>1 DEF TypeOK, Blocks, Chain, Header
  <2>3. lastBlock \in Blocks
    BY <1>1 DEF Chain
  <2>4. Frontier \in Nat /\ \A b \in Blocks : b <= Frontier
    BY <1>1, <2>2, <2>3 DEF Frontier
  <2>5. cur \in Blocks /\ cur <= nxt
    BY <1>1 DEF SearchOK
  <2>6. cur \in Nat /\ nxt \in Nat
    BY <1>1 DEF TypeOK
  <2> QED  BY <2>1, <2>2, <2>4, <2>5, <2>6
<1>7. \A S \in SUBSET Blocks : Sized(hdr, S)
  BY <1>1, ListLaid, LaidSized DEF Blocks
<1>8. TotalSize(Run) < req.size /\ TotalSize(Run) \in Nat /\ req.size \in Nat
  <2>1. TotalSize(Run) < req.size
    BY <1>1 DEF RunSummed
  <2>2. Run \in SUBSET Blocks
    BY DEF Run, FreeRun
  <2> QED  BY <1>1, <1>7, <2>1, <2>2, SumNat DEF TotalSize, TypeOK
<1>9. Misses(cur)
  <2> SUFFICES ASSUME NEW c \in Blocks, cur <= c, \A x \in FreeRun(cur, c) : ~hdr[x].used
               PROVE  TotalSize(FreeRun(cur, c)) < req.size
    BY DEF Misses
  <2>1. c <= nxt
    <3>1. CASE nxt \notin Blocks
      BY <1>6, <3>1
    <3>2. CASE nxt \in Blocks
      <4>1. hdr[nxt].used
        BY <1>1, <1>6, <3>2 DEF Joining, SearchOK
      <4>2. ~(nxt <= c)
        BY <1>6, <3>2, <4>1 DEF FreeRun
      <4> QED  BY <1>6, <4>2
    <3> QED  BY <3>1, <3>2
  <2>2. FreeRun(cur, c) \in SUBSET Run /\ Run \in SUBSET Blocks /\ FreeRun(cur, c) \in SUBSET Blocks
    <3>1. ASSUME NEW x \in FreeRun(cur, c) PROVE x \in Run
      <4>1. x \in Blocks /\ cur <= x /\ x <= c /\ ~hdr[x].used
        BY DEF FreeRun
      <4>2. x \in Nat /\ c \in Nat /\ nxt \in Nat
        BY <1>6, <4>1
      <4>3. x <= nxt
        BY <2>1, <4>1, <4>2
      <4> QED  BY <4>1, <4>3 DEF Run, FreeRun
    <3>2. Run \in SUBSET Blocks
      BY DEF Run, FreeRun
    <3> QED  BY <3>1, <3>2
  <2>3. SumOfSizes(hdr, FreeRun(cur, c)) <= SumOfSizes(hdr, Run)
    BY <1>7, <2>2, SumMore
  <2>4. SumOfSizes(hdr, FreeRun(cur, c)) \in Nat
    BY <1>7, <2>2, SumNat
  <2> QED  BY <1>8, <2>3, <2>4 DEF TotalSize
<1>10. ASSUME NEW b \in Blocks, b < cur' PROVE Misses(b)
  <2>1. CASE b < cur
    BY <1>1, <2>1 DEF Searched
  <2>2. CASE b = cur
    BY <1>9, <2>2
  <2>3. ~(b > cur)
    BY <1>1, <1>2, <1>6, <1>10, Neighbours
  <2> QED  BY <1>6, <2>1, <2>2, <2>3
<1>11. Searched'
  BY <1>1, <1>2, <1>4, <1>10, MissesStays DEF Searched
<1> QED
  BY <1>3, <1>5, <1>11 DEF CountsInv

\* Joining changes one size and takes the blocks joined out of every sum.
LEMMA JoinCounts ==
  ASSUME ListInv, CountsInv, MergeJoin, ListInv'
  PROVE  CountsInv'
<1> USE TypesOfConstants
<1>1. /\ pc = "merge" /\ TypeOK /\ Chain /\ SearchOK /\ RunSummed /\ Accounts
      /\ TypeOK' /\ Chain' /\ ~found /\ pc' = "place" /\ found' = TRUE
      /\ sum >= req.size /\ nxt \in Blocks
  BY DEF ListInv, CountsInv, MergeJoin, SearchOK
<1>2. /\ cur \in Blocks /\ cur \in Nat /\ nxt \in Nat /\ cur <= nxt /\ nxtHdr = hdr[nxt]
      /\ sum \in Nat /\ count \in Nat /\ req.size \in Nat /\ nxtHdr.next \in Nat
      /\ \A b \in Blocks : b \in Nat
  BY <1>1 DEF SearchOK, TypeOK, Blocks, Header
<1>3. ~nxtHdr.used /\ NextFor(cur, sum + count * (H + 1)) = nxtHdr.next
  BY <1>1, <1>2 DEF SearchOK
<1>4. \A b \in Blocks : cur <= b /\ b <= nxt => ~hdr[b].used
  BY <1>1, <1>2, <1>3 DEF SearchOK
<1> DEFINE Left == Blocks \ Joined
           Others == Left \ {cur}
<1>5. /\ Run = Joined \cup {cur} /\ Run \ {cur} = Joined /\ cur \notin Joined
      /\ Joined \in SUBSET Blocks
  <2>1. Run = {b \in Blocks : cur <= b /\ b <= nxt}
    BY <1>4 DEF Run, FreeRun
  <2>2. \A b \in Blocks : (cur <= b /\ b <= nxt) <=> ((cur < b /\ b <= nxt) \/ b = cur)
    BY <1>2
  <2>3. ~(cur < cur)
    BY <1>2
  <2> QED  BY <1>2, <2>1, <2>2, <2>3 DEF Joined
<1>6. /\ Blocks' = Left /\ cur \in Left
      /\ hdr'[cur].next = JoinedNext /\ ~hdr'[cur].used
      /\ \A b \in Others : hdr'[b] = hdr[b]
  <2>1. hdr' = [b \in Left |-> IF b = cur THEN [hdr[cur] EXCEPT !.next = JoinedNext] ELSE hdr[b]]
    BY DEF MergeJoin
  <2>2. cur \in Left
    BY <1>2, <1>5
  <2>3. hdr[cur] \in Header
    BY <1>1, <1>2 DEF TypeOK, Blocks
  <2>4. hdr'[cur] = [hdr[cur] EXCEPT !.next = JoinedNext]
    BY <2>1, <2>2
  <2>5. hdr'[cur].next = JoinedNext /\ hdr'[cur].used = hdr[cur].used
    BY <2>3, <2>4 DEF Header
  <2> QED  BY <1>2, <1>4, <2>1, <2>2, <2>5 DEF Blocks
<1>7. /\ \A S \in SUBSET Blocks : Sized(hdr, S)
      /\ \A S \in SUBSET Left : Sized(hdr', S)
      /\ DataSize(cur, hdr'[cur]) + cur + H + 1 = JoinedNext
      /\ DataSize(cur, hdr[cur]) \in Nat /\ DataSize(cur, hdr'[cur]) \in Nat
  <2>1. Laid(hdr) /\ Laid(hdr')
    BY <1>1, ListLaid
  <2>2. DOMAIN hdr = Blocks /\ DOMAIN hdr' = Left
    BY <1>6 DEF Blocks
  <2>3. \A S \in SUBSET Blocks : Sized(hdr, S)
    BY <2>1, <2>2, LaidSized
  <2>4. \A S \in SUBSET Left : Sized(hdr', S)
    BY <2>1, <2>2, LaidSized, Zenon
  <2>5. DataSize(cur, hdr'[cur]) \in Nat /\ DataSize(cur, hdr'[cur]) + cur + H + 1 = hdr'[cur].next
    <3>1. \A b \in DOMAIN hdr' : DataSize(b, hdr'[b]) \in Nat
                                 /\ DataSize(b, hdr'[b]) + b + H + 1 = hdr'[b].next
      BY <2>1, LaidSized
    <3> QED  BY <1>6, <2>2, <3>1
  <2>6. DataSize(cur, hdr[cur]) \in Nat
    BY <1>2, <2>1, <2>2, LaidSized
  <2> QED  BY <1>6, <2>3, <2>4, <2>5, <2>6
<1>8. /\ kheapMem' = [kheapMem EXCEPT !.blockCount = kheapMem.blockCount - count]
      /\ inc = 0 /\ inc' = H * count /\ H * count \in Nat
  <2>1. kheapMem' = [kheapMem EXCEPT !.blockCount = kheapMem.blockCount - count] /\ inc' = count * H
    BY DEF MergeJoin, JoinGain
  <2>2. inc = 0
    BY <1>1 DEF Accounts
  <2>3. count * H = H * count /\ H * count \in Nat
    BY <1>2
  <2> QED  BY <2>1, <2>2, <2>3
<1>9. /\ kheapMem'.blockCount = kheapMem.blockCount - count
      /\ kheapMem'.heapSpaceUsed = kheapMem.heapSpaceUsed
      /\ kheapMem'.heapSpaceAllocated = kheapMem.heapSpaceAllocated
      /\ kheapMem'.heapMemUsed = kheapMem.heapMemUsed
      /\ kheapMem'.heapMemAllocated = kheapMem.heapMemAllocated
      /\ kheapMem.blockCount \in Int /\ kheapMem.heapSpaceUsed \in Int
      /\ kheapMem.heapSpaceAllocated \in Int
  BY <1>1, <1>8 DEF TypeOK, Totals
<1>10. count = Cardinality(Joined) /\ sum = SumOfSizes(hdr, Joined) + DataSize(cur, hdr[cur])
       /\ SumOfSizes(hdr, Joined) \in Nat
  <2>1. sum = SumOfSizes(hdr, Joined \cup {cur}) /\ count = Cardinality(Joined)
    BY <1>1, <1>5 DEF RunSummed, TotalSize
  <2>2. Sized(hdr, Joined \cup {cur}) /\ Sized(hdr, Joined)
    BY <1>2, <1>5, <1>7
  <2>3. SumOfSizes(hdr, Joined \cup {cur}) = DataSize(cur, hdr[cur]) + SumOfSizes(hdr, Joined)
    BY <1>5, <2>2, SumAdd
  <2>4. SumOfSizes(hdr, Joined) \in Nat
    BY <2>2, SumNat
  <2> QED  BY <1>7, <2>1, <2>3, <2>4
<1>11. Cardinality(Blocks)' = Cardinality(Blocks) - count
  <2>1. IsFiniteSet(Blocks) /\ IsFiniteSet(Joined) /\ IsFiniteSet(Left)
    BY <1>5, <1>7 DEF Sized
  <2>2. Blocks = Left \cup Joined /\ Left \cap Joined = {}
    BY <1>5
  <2>3. Cardinality(Left \cup Joined) = Cardinality(Left) + Cardinality(Joined) - Cardinality(Left \cap Joined)
    <3> HIDE DEF Left
    <3> QED  BY <2>1, FS_Union
  <2>4. Cardinality(Left \cap Joined) = 0
    BY <2>2, FS_EmptySet
  <2>5. Cardinality(Left) \in Nat /\ Cardinality(Joined) \in Nat
    BY <2>1, FS_CardinalityType
  <2>6. Cardinality(Blocks) = Cardinality(Left) + count
    <3> HIDE DEF Left
    <3> QED  BY <1>10, <2>2, <2>3, <2>4, <2>5
  <2>7. Cardinality(Blocks)' = Cardinality(Left)
    BY <1>6
  <2> QED  BY <1>10, <2>5, <2>6, <2>7
<1>12. {b \in Blocks : hdr[b].used}' = {b \in Blocks : hdr[b].used}
  <2>1. \A b \in Joined \cup {cur} : ~hdr[b].used
    BY <1>2, <1>4, <1>5 DEF Joined
  <2> QED  BY <1>6, <2>1
<1>13. TotalSize({b \in Blocks : hdr[b].used})' = TotalSize({b \in Blocks : hdr[b].used})
  <2> DEFINE U == {b \in Blocks : hdr[b].used}
  <2>1. U \in SUBSET Blocks /\ \A b \in U : hdr'[b] = hdr[b]
    <3>1. ASSUME NEW b \in U PROVE b \in Others
      <4>1. b \in Blocks /\ hdr[b].used
        OBVIOUS
      <4>2. b \notin Joined /\ b # cur
        BY <1>2, <1>4, <4>1 DEF Joined
      <4> QED  BY <4>1, <4>2
    <3> HIDE DEF Others
    <3> QED  BY <1>6, <3>1
  <2>2. Sized(hdr, U)
    BY <1>7, <2>1
  <2>3. SumOfSizes(hdr', U) = SumOfSizes(hdr, U)
    <3> HIDE DEF U
    <3> QED  BY <2>1, <2>2, SumSame
  <2> QED  BY <1>12, <2>3 DEF TotalSize
<1>14. /\ SumOfSizes(hdr, Blocks) = SumOfSizes(hdr, Others) + sum
       /\ SumOfSizes(hdr', Left) = SumOfSizes(hdr, Others) + DataSize(cur, hdr'[cur])
       /\ SumOfSizes(hdr, Others) \in Nat
  <2>1. Others \in SUBSET Blocks /\ Others \in SUBSET Left /\ cur \notin Others /\ Left = Others \cup {cur}
    BY <1>6
  <2>2. Blocks = Others \cup (Joined \cup {cur}) /\ Others \cap (Joined \cup {cur}) = {}
    BY <1>2, <1>5
  <2>3. Sized(hdr, Others) /\ Sized(hdr, Blocks) /\ Sized(hdr', Left)
    BY <1>7, <2>1
  <2>4. sum = SumOfSizes(hdr, Joined \cup {cur})
    BY <1>1, <1>5 DEF RunSummed, TotalSize
  <2> HIDE DEF Others, Left
  <2>5. SumOfSizes(hdr, Others \cup (Joined \cup {cur})) = SumOfSizes(hdr, Others) + sum
    BY <2>2, <2>3, <2>4, SumBoth
  <2>6. SumOfSizes(hdr', Others \cup {cur}) = DataSize(cur, hdr'[cur]) + SumOfSizes(hdr', Others)
    BY <2>1, <2>3, SumAdd
  <2>7. SumOfSizes(hdr', Others) = SumOfSizes(hdr, Others)
    BY <1>6, <2>3, SumSame
  <2>8. SumOfSizes(hdr, Others) \in Nat
    BY <2>3, SumNat
  <2>9. SumOfSizes(hdr, Blocks) = SumOfSizes(hdr, Others) + sum
    BY <2>2, <2>5
  <2>10. SumOfSizes(hdr', Left) = DataSize(cur, hdr'[cur]) + SumOfSizes(hdr, Others)
    BY <2>1, <2>6, <2>7
  <2> QED  BY <1>7, <2>8, <2>9, <2>10
<1>15. DataSize(cur, hdr'[cur]) >= sum + H * count
  <2>1. JoinedNext = NextFor(cur, sum + count * H) \/ JoinedNext = nxtHdr.next
    BY DEF JoinedNext, JoinGain
  <2>2. count * H = H * count /\ count * (H + 1) = H * count + count
    BY <1>2
  <2>3. JoinedNext >= cur + H + (sum + H * count) + 1
    BY <1>2, <1>3, <1>8, <2>1, <2>2 DEF NextFor
  <2>4. JoinedNext \in Nat
    BY <1>1, <1>6 DEF TypeOK, Header, Blocks
  <2> QED  BY <1>2, <1>7, <1>8, <2>3, <2>4
<1>16. H * kheapMem'.blockCount + inc' = H * kheapMem.blockCount /\ H * kheapMem.blockCount \in Int
  <2>1. H * (kheapMem.blockCount - count) = H * kheapMem.blockCount - H * count
        /\ H * kheapMem.blockCount \in Int
    BY <1>2, <1>9, Times
  <2> QED  BY <1>8, <1>9, <2>1
<1>17. Accounts'
  <2>1. kheapMem'.blockCount = Cardinality(Blocks)'
    BY <1>1, <1>9, <1>11 DEF Accounts
  <2>2. kheapMem'.heapSpaceUsed = TotalSize({b \in Blocks : hdr[b].used})'
    BY <1>1, <1>9, <1>13 DEF Accounts
  <2>3. /\ kheapMem'.heapMemUsed = kheapMem'.heapSpaceUsed + H * kheapMem'.blockCount + inc'
        /\ kheapMem'.heapMemAllocated = kheapMem'.heapSpaceAllocated + H * kheapMem'.blockCount + inc'
    <3>1. /\ kheapMem.heapMemUsed = kheapMem.heapSpaceUsed + H * kheapMem.blockCount + 0
          /\ kheapMem.heapMemAllocated = kheapMem.heapSpaceAllocated + H * kheapMem.blockCount + 0
      BY <1>1, <1>8 DEF Accounts
    <3>2. H * kheapMem'.blockCount \in Int
      BY <1>2, <1>9, Times
    <3> QED  BY <1>8, <1>9, <1>16, <3>1, <3>2
  <2>4. kheapMem'.heapSpaceAllocated + inc' <= TotalSize(Blocks)'
    <3>1. kheapMem.heapSpaceAllocated + 0 <= SumOfSizes(hdr, Blocks)
      BY <1>1, <1>8 DEF Accounts, TotalSize
    <3>2. TotalSize(Blocks)' = SumOfSizes(hdr', Left)
      BY <1>6 DEF TotalSize
    <3> HIDE DEF Left, Others
    <3> QED  BY <1>2, <1>7, <1>8, <1>9, <1>14, <1>15, <3>1, <3>2
  <2> QED  BY <1>1, <2>1, <2>2, <2>3, <2>4 DEF Accounts
<1>18. RunSummed' /\ Searched'
  BY <1>1 DEF RunSummed, Searched
<1> QED
  BY <1>17, <1>18 DEF CountsInv

\* Blocks whose sizes stay count as before.
LEMMA SameTotals ==
  ASSUME Laid(hdr), NEW S \in SUBSET Blocks, \A b \in S : hdr'[b].next = hdr[b].next
  PROVE  SumOfSizes(hdr', S) = SumOfSizes(hdr, S)
<1>1. Sized(hdr, S)
  BY LaidSized DEF Blocks
<1>2. \A b \in S : DataSize(b, hdr'[b]) = DataSize(b, hdr[b])
  BY DEF DataSize
<1> QED
  BY <1>1, <1>2, SumSame

\* A new block adds its size, its header and itself.
LEMMA NewCounts ==
  ASSUME ListInv, CountsInv, PlaceNew, ListInv'
  PROVE  CountsInv'
<1> USE TypesOfConstants
<1> DEFINE f == Frontier
           U == {b \in Blocks : hdr[b].used}
<1>1. /\ pc = "place" /\ ~found /\ TypeOK /\ Chain /\ SearchOK /\ Accounts
      /\ TypeOK' /\ Chain' /\ pc' = "idle" /\ found' = FALSE /\ inc' = 0 /\ inc = 0
  BY DEF ListInv, CountsInv, PlaceNew, LocalsDead, Accounts
<1>2. /\ f \in Nat /\ f \notin Blocks /\ req.size \in Nat
      /\ kheapMem \in Totals
  BY <1>1 DEF TypeOK, Chain, Blocks, Frontier, Header
<1>3. /\ Blocks' = Blocks \cup {f} /\ hdr'[f].used /\ hdr'[f].next = NextFor(f, req.size)
      /\ \A b \in Blocks : hdr'[b] = hdr[b]
  <2>1. hdr' = [b \in Blocks \cup {f} |->
                  IF b = f THEN [next |-> NextFor(f, req.size), used |-> TRUE] ELSE hdr[b]]
    BY DEF PlaceNew
  <2> HIDE DEF f
  <2>2. hdr'[f] = [next |-> NextFor(f, req.size), used |-> TRUE]
    BY <2>1
  <2>3. DOMAIN hdr' = Blocks \cup {f} /\ \A b \in Blocks : hdr'[b] = hdr[b]
    BY <1>2, <2>1
  <2> QED  BY <2>2, <2>3 DEF Blocks
<1>4. Laid(hdr) /\ Laid(hdr')
  BY <1>1, ListLaid
<1>5. DataSize(f, hdr'[f]) = req.size
  <2>1. f \in DOMAIN hdr'
    BY <1>3 DEF Blocks
  <2>2. DataSize(f, hdr'[f]) \in Nat /\ DataSize(f, hdr'[f]) + f + H + 1 = hdr'[f].next
    BY <1>4, <2>1, LaidSized
  <2> HIDE DEF f
  <2> QED  BY <1>2, <1>3, <2>2 DEF NextFor
<1>6. \A S \in SUBSET Blocks :
        /\ SumOfSizes(hdr', S \cup {f}) = req.size + SumOfSizes(hdr, S)
        /\ SumOfSizes(hdr, S) \in Nat
  <2> SUFFICES ASSUME NEW S \in SUBSET Blocks
               PROVE  /\ SumOfSizes(hdr', S \cup {f}) = req.size + SumOfSizes(hdr, S)
                      /\ SumOfSizes(hdr, S) \in Nat
    OBVIOUS
  <2> HIDE DEF f
  <2>1. S \cup {f} \in SUBSET DOMAIN hdr' /\ f \notin S
    BY <1>2, <1>3 DEF Blocks
  <2>2. Sized(hdr', S \cup {f}) /\ Sized(hdr, S)
    BY <1>4, <2>1, LaidSized DEF Blocks
  <2>3. SumOfSizes(hdr', S \cup {f}) = DataSize(f, hdr'[f]) + SumOfSizes(hdr', S)
    BY <2>1, <2>2, SumAdd
  <2>4. SumOfSizes(hdr', S) = SumOfSizes(hdr, S)
    BY <1>3, <1>4, SameTotals
  <2> QED  BY <1>5, <2>2, <2>3, <2>4, SumNat
<1>7. TotalSize(Blocks)' = req.size + SumOfSizes(hdr, Blocks) /\ SumOfSizes(hdr, Blocks) \in Nat
  BY <1>3, <1>6 DEF TotalSize
<1>8. TotalSize({b \in Blocks : hdr[b].used})' = req.size + SumOfSizes(hdr, U) /\ SumOfSizes(hdr, U) \in Nat
  <2>1. {b \in Blocks : hdr[b].used}' = U \cup {f}
    BY <1>3
  <2>2. U \in SUBSET Blocks
    OBVIOUS
  <2> HIDE DEF U
  <2> QED  BY <1>6, <2>1, <2>2 DEF TotalSize
<1>9. Cardinality(Blocks)' = Cardinality(Blocks) + 1
  <2>1. IsFiniteSet(Blocks)
    BY <1>4, LaidSized DEF Blocks, Sized
  <2> QED  BY <1>2, <1>3, <2>1, FS_AddElement
<1>10. /\ kheapMem'.blockCount = kheapMem.blockCount + 1
       /\ kheapMem'.heapSpaceUsed = kheapMem.heapSpaceUsed + req.size
       /\ kheapMem'.heapSpaceAllocated = kheapMem.heapSpaceAllocated + req.size
       /\ kheapMem'.heapMemUsed = kheapMem.heapMemUsed + H + req.size
       /\ kheapMem'.heapMemAllocated = kheapMem.heapMemAllocated + H + req.size
  BY DEF PlaceNew
<1>11. /\ kheapMem.blockCount \in Int /\ kheapMem.heapSpaceUsed \in Int
       /\ kheapMem.heapSpaceAllocated \in Int
       /\ kheapMem.heapMemUsed \in Int /\ kheapMem.heapMemAllocated \in Int
  BY <1>2 DEF Totals
<1>12. /\ H * kheapMem'.blockCount = H * kheapMem.blockCount + H
       /\ H * kheapMem.blockCount \in Int
  <2>1. H * 1 = H
    OBVIOUS
  <2> QED  BY <1>10, <1>11, <2>1, Times
<1>13. /\ kheapMem.blockCount = Cardinality(Blocks)
       /\ kheapMem.heapSpaceUsed = SumOfSizes(hdr, U)
       /\ kheapMem.heapMemUsed = kheapMem.heapSpaceUsed + H * kheapMem.blockCount
       /\ kheapMem.heapMemAllocated = kheapMem.heapSpaceAllocated + H * kheapMem.blockCount
       /\ kheapMem.heapSpaceAllocated <= SumOfSizes(hdr, Blocks)
  BY <1>1, <1>11, <1>12 DEF Accounts, TotalSize
<1>14. Accounts'
  <2> HIDE DEF U
  <2>1. kheapMem'.blockCount = Cardinality(Blocks)'
    BY <1>9, <1>10, <1>13
  <2>2. kheapMem'.heapSpaceUsed = TotalSize({b \in Blocks : hdr[b].used})'
    BY <1>8, <1>2, <1>10, <1>13
  <2>3. /\ kheapMem'.heapMemUsed = kheapMem'.heapSpaceUsed + H * kheapMem'.blockCount + inc'
        /\ kheapMem'.heapMemAllocated = kheapMem'.heapSpaceAllocated + H * kheapMem'.blockCount + inc'
    BY <1>1, <1>2, <1>10, <1>11, <1>12, <1>13
  <2>4. kheapMem'.heapSpaceAllocated + inc' <= TotalSize(Blocks)'
    BY <1>1, <1>2, <1>7, <1>10, <1>11, <1>13
  <2> QED  BY <1>1, <2>1, <2>2, <2>3, <2>4 DEF Accounts
<1>15. RunSummed' /\ Searched'
  BY <1>1 DEF RunSummed, Searched
<1> QED
  BY <1>14, <1>15 DEF CountsInv

\* A block reused adds its size to the used space; what a join gained is settled.
LEMMA ReusedCounts ==
  ASSUME ListInv, CountsInv, PlaceReused, ListInv'
  PROVE  CountsInv'
<1> USE TypesOfConstants
<1> DEFINE U == {b \in Blocks : hdr[b].used}
           s == SizeOf(cur)
<1>1. /\ pc = "place" /\ found /\ TypeOK /\ Chain /\ SearchOK /\ Accounts
      /\ TypeOK' /\ Chain' /\ pc' = "idle" /\ found' = FALSE /\ inc' = 0
      /\ cur \in Blocks /\ ~hdr[cur].used /\ inc \in Nat /\ kheapMem \in Totals
  BY DEF ListInv, CountsInv, PlaceReused, LocalsDead, SearchOK, TypeOK
<1>2. /\ Blocks' = Blocks /\ hdr'[cur].used
      /\ \A b \in Blocks : hdr'[b].next = hdr[b].next
      /\ \A b \in Blocks : b # cur => hdr'[b].used = hdr[b].used
  <2>1. hdr' = [hdr EXCEPT ![cur].used = TRUE]
    BY DEF PlaceReused
  <2>2. hdr[cur] \in Header
    BY <1>1 DEF TypeOK, Blocks
  <2> QED  BY <1>1, <2>1, <2>2 DEF Blocks, Header
<1>3. Laid(hdr) /\ \A S \in SUBSET Blocks : Sized(hdr, S) /\ SumOfSizes(hdr', S) = SumOfSizes(hdr, S)
  BY <1>1, <1>2, ListLaid, LaidSized, SameTotals DEF Blocks
<1>4. s \in Nat
  BY <1>1, SizeOfBlock
<1>5. TotalSize({b \in Blocks : hdr[b].used})' = s + SumOfSizes(hdr, U) /\ SumOfSizes(hdr, U) \in Nat
  <2>1. {b \in Blocks : hdr[b].used}' = U \cup {cur} /\ cur \notin U
    BY <1>1, <1>2
  <2>2. U \cup {cur} \in SUBSET Blocks /\ U \in SUBSET Blocks
    BY <1>1
  <2> HIDE DEF U
  <2>3. Sized(hdr, U \cup {cur}) /\ Sized(hdr, U)
    BY <1>3, <2>2
  <2>4. SumOfSizes(hdr, U \cup {cur}) = DataSize(cur, hdr[cur]) + SumOfSizes(hdr, U)
    BY <2>1, <2>3, SumAdd
  <2>5. TotalSize({b \in Blocks : hdr[b].used})' = SumOfSizes(hdr', U \cup {cur})
    BY <2>1 DEF TotalSize
  <2>6. SumOfSizes(hdr', U \cup {cur}) = SumOfSizes(hdr, U \cup {cur})
    BY <1>3, <2>2
  <2> QED  BY <2>3, <2>4, <2>5, <2>6, SumNat DEF SizeOf
<1>6. TotalSize(Blocks)' = SumOfSizes(hdr, Blocks)
  <2>1. Blocks \in SUBSET Blocks
    OBVIOUS
  <2> QED  BY <1>2, <1>3, <2>1 DEF TotalSize
<1>7. /\ kheapMem'.blockCount = kheapMem.blockCount
      /\ kheapMem'.heapSpaceUsed = kheapMem.heapSpaceUsed + s
      /\ kheapMem'.heapSpaceAllocated = kheapMem.heapSpaceAllocated + inc
      /\ kheapMem'.heapMemUsed = kheapMem.heapMemUsed + s - inc
      /\ kheapMem'.heapMemAllocated = kheapMem.heapMemAllocated
  BY <1>1 DEF PlaceReused, Totals
<1>8. /\ kheapMem.blockCount \in Int /\ kheapMem.heapSpaceUsed \in Int
      /\ kheapMem.heapSpaceAllocated \in Int
      /\ kheapMem.heapMemUsed \in Int /\ kheapMem.heapMemAllocated \in Int
      /\ H * kheapMem.blockCount \in Int
  BY <1>1, Times DEF Totals
<1>9. /\ kheapMem.blockCount = Cardinality(Blocks)
      /\ kheapMem.heapSpaceUsed = SumOfSizes(hdr, U)
      /\ kheapMem.heapMemUsed = kheapMem.heapSpaceUsed + H * kheapMem.blockCount + inc
      /\ kheapMem.heapMemAllocated = kheapMem.heapSpaceAllocated + H * kheapMem.blockCount + inc
      /\ kheapMem.heapSpaceAllocated + inc <= SumOfSizes(hdr, Blocks)
  BY <1>1 DEF Accounts, TotalSize
<1>10. Accounts'
  <2> HIDE DEF U, s
  <2>1. kheapMem'.blockCount = Cardinality(Blocks)'
    BY <1>2, <1>7, <1>9
  <2>2. kheapMem'.heapSpaceUsed = TotalSize({b \in Blocks : hdr[b].used})'
    BY <1>4, <1>5, <1>7, <1>9
  <2>3. /\ kheapMem'.heapMemUsed = kheapMem'.heapSpaceUsed + H * kheapMem'.blockCount + inc'
        /\ kheapMem'.heapMemAllocated = kheapMem'.heapSpaceAllocated + H * kheapMem'.blockCount + inc'
    BY <1>1, <1>4, <1>7, <1>8, <1>9
  <2>4. kheapMem'.heapSpaceAllocated + inc' <= TotalSize(Blocks)'
    BY <1>1, <1>6, <1>7, <1>8, <1>9
  <2> QED  BY <1>1, <2>1, <2>2, <2>3, <2>4 DEF Accounts
<1>11. RunSummed' /\ Searched'
  BY <1>1 DEF RunSummed, Searched
<1> QED
  BY <1>10, <1>11 DEF CountsInv

\* A free takes the same size away again.
LEMMA FreeCounts ==
  ASSUME ListInv, CountsInv, NEW p \in DOMAIN live, FreeBlock(p), ListInv'
  PROVE  CountsInv'
<1> USE TypesOfConstants
<1> DEFINE U == {b \in Blocks : hdr[b].used}
           a == p - H
           s == SizeOf(a)
<1>1. /\ pc = "idle" /\ ~found /\ TypeOK /\ Chain /\ Holders /\ SearchOK /\ Accounts
      /\ TypeOK' /\ Chain' /\ pc' = "idle" /\ found' = found /\ inc' = inc /\ inc = 0
      /\ kheapMem \in Totals
  BY DEF ListInv, CountsInv, FreeBlock, SearchOK, Accounts, locals, TypeOK
<1>2. a \in Blocks /\ hdr[a].used
  BY <1>1 DEF Holders
<1> HIDE DEF a
<1>3. /\ Blocks' = Blocks /\ ~hdr'[a].used
      /\ \A b \in Blocks : hdr'[b].next = hdr[b].next
      /\ \A b \in Blocks : b # a => hdr'[b].used = hdr[b].used
  <2>1. hdr' = [hdr EXCEPT ![a].used = FALSE]
    BY DEF FreeBlock, a
  <2>2. hdr[a] \in Header
    BY <1>1, <1>2 DEF TypeOK, Blocks
  <2> QED  BY <1>2, <2>1, <2>2 DEF Blocks, Header
<1>4. Laid(hdr) /\ \A S \in SUBSET Blocks : Sized(hdr, S) /\ SumOfSizes(hdr', S) = SumOfSizes(hdr, S)
  BY <1>1, <1>3, ListLaid, LaidSized, SameTotals DEF Blocks
<1>5. s \in Nat
  BY <1>1, <1>2, SizeOfBlock
<1>6. /\ SumOfSizes(hdr, U) = s + TotalSize({b \in Blocks : hdr[b].used})'
      /\ TotalSize({b \in Blocks : hdr[b].used})' \in Nat
  <2>1. {b \in Blocks : hdr[b].used}' = U \ {a} /\ a \in U
    BY <1>2, <1>3
  <2>2. U \ {a} \in SUBSET Blocks /\ U \in SUBSET Blocks
    OBVIOUS
  <2> HIDE DEF U
  <2>3. Sized(hdr, U \ {a}) /\ Sized(hdr, U)
    BY <1>4, <2>2
  <2>4. SumOfSizes(hdr, U) = DataSize(a, hdr[a]) + SumOfSizes(hdr, U \ {a})
    BY <2>1, <2>3, SumOne
  <2>5. TotalSize({b \in Blocks : hdr[b].used})' = SumOfSizes(hdr', U \ {a})
    BY <2>1 DEF TotalSize
  <2>6. SumOfSizes(hdr', U \ {a}) = SumOfSizes(hdr, U \ {a})
    BY <1>4, <2>2
  <2> QED  BY <2>3, <2>4, <2>5, <2>6, SumNat DEF SizeOf
<1>7. TotalSize(Blocks)' = SumOfSizes(hdr, Blocks)
  <2>1. Blocks \in SUBSET Blocks
    OBVIOUS
  <2> QED  BY <1>3, <1>4, <2>1 DEF TotalSize
<1>8. /\ kheapMem'.blockCount = kheapMem.blockCount
      /\ kheapMem'.heapSpaceUsed = kheapMem.heapSpaceUsed - s
      /\ kheapMem'.heapSpaceAllocated = kheapMem.heapSpaceAllocated
      /\ kheapMem'.heapMemUsed = kheapMem.heapMemUsed - s
      /\ kheapMem'.heapMemAllocated = kheapMem.heapMemAllocated
  BY <1>1 DEF FreeBlock, Totals, a
<1>9. /\ kheapMem.blockCount \in Int /\ kheapMem.heapSpaceUsed \in Int
      /\ kheapMem.heapSpaceAllocated \in Int
      /\ kheapMem.heapMemUsed \in Int /\ kheapMem.heapMemAllocated \in Int
      /\ H * kheapMem.blockCount \in Int
  BY <1>1, Times DEF Totals
<1>10. /\ kheapMem.blockCount = Cardinality(Blocks)
       /\ kheapMem.heapSpaceUsed = SumOfSizes(hdr, U)
       /\ kheapMem.heapMemUsed = kheapMem.heapSpaceUsed + H * kheapMem.blockCount + inc
       /\ kheapMem.heapMemAllocated = kheapMem.heapSpaceAllocated + H * kheapMem.blockCount + inc
       /\ kheapMem.heapSpaceAllocated + inc <= SumOfSizes(hdr, Blocks)
  BY <1>1 DEF Accounts, TotalSize
<1>11. Accounts'
  <2> HIDE DEF U, s
  <2>1. kheapMem'.blockCount = Cardinality(Blocks)'
    BY <1>3, <1>8, <1>10
  <2>2. kheapMem'.heapSpaceUsed = TotalSize({b \in Blocks : hdr[b].used})'
    BY <1>5, <1>6, <1>8, <1>10
  <2>3. /\ kheapMem'.heapMemUsed = kheapMem'.heapSpaceUsed + H * kheapMem'.blockCount + inc'
        /\ kheapMem'.heapMemAllocated = kheapMem'.heapSpaceAllocated + H * kheapMem'.blockCount + inc'
    BY <1>1, <1>5, <1>8, <1>9, <1>10
  <2>4. kheapMem'.heapSpaceAllocated + inc' <= TotalSize(Blocks)'
    BY <1>1, <1>7, <1>8, <1>9, <1>10
  <2> QED  BY <1>1, <2>1, <2>2, <2>3, <2>4 DEF Accounts
<1>12. RunSummed' /\ Searched'
  BY <1>1 DEF RunSummed, Searched
<1> QED
  BY <1>11, <1>12 DEF CountsInv

\* One step per action: no step breaks the counts.
LEMMA StepCounts == ListInv /\ CountsInv /\ [Next]_vars => CountsInv'
<1> SUFFICES ASSUME ListInv, CountsInv, [Next]_vars PROVE CountsInv'
  OBVIOUS
<1>0. ListInv'
  BY StepListInv
<1>1. CASE UNCHANGED vars
  BY <1>1 DEF vars, list, locals, inner, CountsInv, RunSummed, Searched, Accounts, Misses,
              Run, FreeRun, TotalSize, Blocks
<1>2. ASSUME NEW size \in Sizes, NEW m \in Modes, AddBlock(size, m[1], m[2])
      PROVE  CountsInv'
  BY <1>2, AddCounts
<1>3. ASSUME NEW p \in DOMAIN live, FreeBlock(p) PROVE CountsInv'
  BY <1>0, <1>3, FreeCounts
<1>4. CASE ScanEnd \/ ScanFit \/ ScanSmall \/ ScanUsed
  BY <1>0, <1>4, ScanCounts
<1>5. CASE MergeStep
  BY <1>0, <1>5, MergeStepCounts
<1>6. CASE MergeJoin
  BY <1>0, <1>6, JoinCounts
<1>7. CASE MergePhantom
  BY <1>7 DEF MergePhantom, CountsInv
<1>8. CASE MergeGiveUp
  BY <1>8, GiveUpCounts
<1>9. CASE PlaceNew
  BY <1>0, <1>9, NewCounts
<1>10. CASE PlaceReused
  BY <1>0, <1>10, ReusedCounts
<1> QED
  BY <1>1, <1>2, <1>3, <1>4, <1>5, <1>6, <1>7, <1>8, <1>9, <1>10 DEF Next, Kernel, Search

\* The counts of the search and the totals agree with the list at every step.
THEOREM Invariant == Spec => []IInv
<1>1. Init => IInv
  BY InitListInv, InitCounts DEF IInv
<1>2. IInv /\ [Next]_vars => IInv'
  BY StepListInv, StepCounts DEF IInv
<1> QED
  BY <1>1, <1>2, PTL DEF Spec

\* The totals that memusage prints are those of the list, however many requests
\* split into searches, joins and frees came before.
THEOREM TotalsAgree == Spec => []TotalsAddUp
<1>1. IInv => TotalsAddUp
  <2> SUFFICES ASSUME IInv, pc = "idle" PROVE TotalsAddUp
    BY DEF TotalsAddUp
  <2>1. Accounts /\ ~found /\ TypeOK
    BY DEF IInv, ListInv, CountsInv, SearchOK
  <2>2. inc = 0
    BY <2>1 DEF Accounts
  <2>3. /\ kheapMem.blockCount \in Int /\ kheapMem.heapSpaceUsed \in Int
        /\ kheapMem.heapSpaceAllocated \in Int /\ H * kheapMem.blockCount \in Int
    BY <2>1, Times DEF TypeOK, Totals
  <2> QED  BY <2>1, <2>2, <2>3 DEF Accounts, TotalsAddUp
<1> QED
  BY <1>1, Invariant, PTL

\* kheap_addBlock grows the heap only if no run of free blocks holds the request,
\* however the blocks are laid out and whatever lies past them.
THEOREM SearchComplete == Spec => []GrowsOnlyWhenFull
<1>1. IInv => GrowsOnlyWhenFull
  <2> SUFFICES ASSUME IInv, pc = "place", ~found, req.reuse, heapInitialized
               PROVE  \A b \in Blocks : Misses(b)
    BY DEF GrowsOnlyWhenFull, Misses
  <2> QED  BY DEF IInv, CountsInv, Searched
<1> QED
  BY <1>1, Invariant, PTL

\* memusage prints every block of the heap, in order, and nothing else.
THEOREM MemusageComplete == Spec => []MemusageShowsAll
<1>1. IInv => MemusageShowsAll
  <2> USE TypesOfConstants
  <2> SUFFICES ASSUME IInv, pc = "idle", kheapMem.blockCount > 0
               PROVE  MemusageShowsAll
    BY DEF MemusageShowsAll
  <2>0. Chain /\ TypeOK /\ Accounts
    BY DEF IInv, ListInv, CountsInv
  <2>1. heapInitialized /\ Chain /\ TypeOK
    <3>1. Blocks # {}
      BY <2>0, FS_EmptySet DEF Accounts
    <3> QED  BY <2>0, <3>1 DEF Chain
  <2>2. \A b \in Blocks : b \in Nat /\ hdr[b].next \in Nat
    BY <2>1 DEF TypeOK, Blocks, Header
  <2>3. firstBlock \in Blocks /\ lastBlock \in Blocks /\ \A b \in Blocks : firstBlock <= b /\ b <= lastBlock
    BY <2>1 DEF Chain
  <2>4. ASSUME NEW b \in Blocks
        PROVE  IF WalkGoesOn(hdr[b].next)
                 THEN hdr[b].next \in Blocks /\ \A c \in Blocks : b < c => hdr[b].next <= c
                 ELSE \A c \in Blocks : c <= b
    <3>1. CASE b = lastBlock
      <4>1. b < hdr[b].next
        BY <2>1, <2>2 DEF Chain
      <4> QED  BY <2>2, <2>3, <3>1, <4>1 DEF WalkGoesOn, DataAddress
    <3>2. CASE b # lastBlock
      <4>1. hdr[b].next \in Blocks
        BY <2>1, <3>2 DEF Chain
      <4>2. WalkGoesOn(hdr[b].next)
        BY <2>2, <2>3, <4>1 DEF WalkGoesOn, DataAddress
      <4> QED  BY <2>1, <4>1, <4>2 DEF Chain
    <3> QED  BY <3>1, <3>2
  <2>5. WalkGoesOn(firstBlock)
    BY <2>2, <2>3 DEF WalkGoesOn, DataAddress
  <2> QED
    BY <2>3, <2>4, <2>5 DEF MemusageShowsAll
<1> QED
  BY <1>1, Invariant, PTL
==============================================================================
