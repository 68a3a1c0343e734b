---------------------------------- MODULE Acpi ----------------------------------
(***************************************************************************)
(* The acpidev command: kernel/acpi/acpi.c looks for the root descriptor in *)
(* the BIOS area, follows it to the root table (RSDT), and dumps what the   *)
(* FADTs listed there point to.                                            *)
(*                                                                         *)
(* The search slides a window of one signature's length over the area, byte *)
(* by byte.  The window is an array nobody has initialised, so the first   *)
(* bytes are compared together with whatever the stack held.               *)
(*                                                                         *)
(* Strings are sequences of bytes with a NUL (0) behind them.  A table is a *)
(* record of what the code looks at: its signature, the sum of its header, *)
(* the entries behind it or the address of the DSDT.                       *)
(***************************************************************************)
EXTENDS Integers, Sequences, FiniteSets, Folds, SequencesExt

CONSTANTS Begin, End,          \* EBDA_BEGIN_ADDR and EBDA_END_ADDR
          Areas,               \* contents of the area, functions from Begin .. End
          RSDP_SIG, FACP_SIG,  \* the signatures; RSDP_SIG has at least one byte
          Junk,                \* contents of the uninitialised window
          Descriptors,         \* what may stand at the address found
          RootTables           \* what may stand where the descriptor points

ASSUME AcpiAssumption ==
  /\ Begin \in Nat /\ End \in Nat /\ Begin < End
  /\ RSDP_SIG \in Seq(1..255) /\ Len(RSDP_SIG) > 0
  /\ Areas \subseteq [Begin .. End -> 0..255]
  /\ \A w \in Junk : w \in Seq(0..255) /\ Len(w) = Len(RSDP_SIG)
  /\ \A t \in RootTables :       \* RSDT_t holds four words, whatever the length says
       /\ Len(t.entries) = 4
       /\ \A k \in 1..4 : LET s == t.entries[k].Signature IN s \in Seq(0..255) /\ Len(s) >= 4

VARIABLES phase,       \* "scan", "descriptor", "root", "entries" or "done"
          area, i,     \* the memory scanned, and the address in turn
          currentSignature,
          rsdpAddress,
          rsdp,        \* the descriptor
          root,        \* the root table
          entry,       \* entries of the root table looked at
          report       \* what was printed: the outcome, then the tables dumped

acpiVars == <<phase, area, i, currentSignature, rsdpAddress, rsdp, root, entry, report>>

------------------------------------------------------------------------------
(* kstring.c *)

NULByte == 0
CharAt(s, n) == IF n < Len(s) THEN s[n + 1] ELSE NULByte
Stops(s1, s2, n) == CharAt(s1, n) = NULByte \/ CharAt(s2, n) = NULByte
                    \/ CharAt(s1, n) # CharAt(s2, n)
FirstStop(s1, s2) == CHOOSE n \in 0..Len(s1) :
                       Stops(s1, s2, n) /\ \A k \in 0..n-1 : ~Stops(s1, s2, k)
kstrcmp(s1, s2) == LET n == FirstStop(s1, s2) IN CharAt(s1, n) - CharAt(s2, n)
kstrncmp_all(s1, s2, n) == kstrcmp(s1, s2)                     \* mutant: without the n
kstrncmp(s1, s2, n) == IF FirstStop(s1, s2) >= n THEN 0 ELSE kstrcmp(s1, s2)

------------------------------------------------------------------------------
(* acpi.c *)

acpi_get_n_byte(val, nbyte) == (val \div 256 ^ nbyte) % 256
acpi_sum_bytes(p) == FoldLeft(LAMBDA count, b : count + b, 0, p)
acpi_checksum_sdt_header(bytes) == acpi_sum_bytes(bytes) % 256 = 0

\* The letters of "FACP" sum to 282.
ASSUME SignatureAssumption ==
  FACP_SIG \in Seq(1..255) /\ Len(FACP_SIG) = 4 /\ ~acpi_checksum_sdt_header(FACP_SIG)

AcpiInit ==
  /\ phase = "scan" /\ area \in Areas /\ i = Begin /\ currentSignature \in Junk
  /\ rsdpAddress = 0 /\ rsdp \in Descriptors /\ root \in RootTables
  /\ entry = 0 /\ report = <<>>

(* One byte of the area: the window moves on and is compared. *)
SlidFromTwo(window, byte) ==                             \* mutant: x starts at 2
  <<window[1]>> \o SubSeq(window, 3, Len(window)) \o <<byte>>
Slid(window, byte) == Append(Tail(window), byte)

ScanByte ==
  /\ phase = "scan" /\ i < End
  /\ currentSignature' = Slid(currentSignature, area[i])
  /\ IF kstrcmp(currentSignature', RSDP_SIG) = 0
       THEN /\ phase' = "descriptor" /\ rsdpAddress' = i - (Len(RSDP_SIG) - 1) /\ UNCHANGED i
       ELSE i' = i + 1 /\ UNCHANGED <<phase, rsdpAddress>>
  /\ UNCHANGED <<area, rsdp, root, entry, report>>

ScanEnds ==
  /\ phase = "scan" /\ i = End
  /\ phase' = "done" /\ report' = <<"RSDP_missing">>
  /\ UNCHANGED <<area, i, currentSignature, rsdpAddress, rsdp, root, entry>>

(* Revision 0 has one checksum, any other a second one over its later fields. *)
DescriptorValid ==
  /\ acpi_get_n_byte(acpi_sum_bytes(rsdp.first), 0) = 0
  /\ rsdp.revision # 0 => acpi_get_n_byte(acpi_sum_bytes(rsdp.later), 0) = 0

CheckDescriptor ==
  /\ phase = "descriptor"
  /\ IF DescriptorValid THEN phase' = "root" /\ UNCHANGED report
     ELSE phase' = "done" /\ report' = <<"RSDP_checksum">>
  /\ UNCHANGED <<area, i, currentSignature, rsdpAddress, rsdp, root, entry>>

(* The root table is refused when its header's bytes do sum to zero. *)
CheckRoot ==
  /\ phase = "root"
  /\ IF acpi_checksum_sdt_header(root.header)
       THEN phase' = "done" /\ report' = <<"RSDT_checksum">>
       ELSE phase' = "entries" /\ report' = <<"RSDT_found">>
  /\ UNCHANGED <<area, i, currentSignature, rsdpAddress, rsdp, root, entry>>

(* Four entries are followed, however many the table has.  The header's sum *)
(* is taken over the size of a pointer, which is the signature.            *)
Entries == 4
Follow ==
  /\ phase = "entries" /\ entry < Entries
  /\ LET h == root.entries[entry + 1] IN
       report' = IF kstrncmp(h.Signature, FACP_SIG, Len(FACP_SIG)) # 0 THEN report
                 ELSE Append(report, IF acpi_checksum_sdt_header(SubSeq(h.Signature, 1, 4))
                                       THEN "FADT_checksum" ELSE h.dsdt)
  /\ entry' = entry + 1
  /\ UNCHANGED <<phase, area, i, currentSignature, rsdpAddress, rsdp, root>>

EntriesEnd ==
  /\ phase = "entries" /\ entry = Entries /\ phase' = "done"
  /\ UNCHANGED <<area, i, currentSignature, rsdpAddress, rsdp, root, entry, report>>

AcpiNext == ScanByte \/ ScanEnds \/ CheckDescriptor \/ CheckRoot \/ Follow \/ EntriesEnd
AcpiSpec == AcpiInit /\ [][AcpiNext]_acpiVars

------------------------------------------------------------------------------
Fits(a) == \A k \in 1..Len(RSDP_SIG) : a + k - 1 >= Begin => area[a + k - 1] = RSDP_SIG[k]
Inside(a) == a >= Begin /\ a + Len(RSDP_SIG) - 1 < End

(* The search finds the first place of the area that holds the signature, at *)
(* any alignment and also when a failed match overlaps it, and only misses   *)
(* one that ends with the last byte.  What it finds before the area begins   *)
(* was half made of the stack's leftovers.                                 *)
SearchIsExact ==
  LET real == {a \in Begin..End : Inside(a) /\ Fits(a)} IN
    /\ phase = "done" /\ report = <<"RSDP_missing">> => real = {}
    /\ phase \notin {"scan"} /\ rsdpAddress # 0 =>
         /\ Fits(rsdpAddress) /\ rsdpAddress + Len(RSDP_SIG) - 1 < End
         /\ \A a \in real : rsdpAddress <= a

(* Once the descriptor's sums are right and the root table's header is not    *)
(* refused, exactly the tables that begin with the signature among the four  *)
(* words behind the header are dumped, in order, past the table's end too.   *)
Begins(h) == SubSeq(h.Signature, 1, Len(FACP_SIG)) = FACP_SIG
Dumped(n) ==
  \E at \in [1..Len(report) - 1 -> 1..n] :
    /\ \A j, k \in DOMAIN at : j < k => at[j] < at[k]
    /\ {at[k] : k \in DOMAIN at} = {e \in 1..n : Begins(root.entries[e])}
    /\ \A k \in DOMAIN at : report[k + 1] = root.entries[at[k]].dsdt
FadtsDumped ==
  phase = "done" /\ Len(report) > 0 /\ report[1] = "RSDT_found" => Dumped(Entries)
==============================================================================
