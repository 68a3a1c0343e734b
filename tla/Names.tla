--------------------------------- MODULE Names ---------------------------------
(***************************************************************************)
(* File names of the table (prsfs/prsfs.c): convert_filename makes the      *)
(* eleven bytes of an entry, get_filename the name that is printed.        *)
(*                                                                         *)
(* A name stands in memory with a NUL behind it and then the next argument, *)
(* which convert_filename may read into: it stops at the eleventh byte of   *)
(* the name, not at its end.  Letters are numbers; names hold no space, and *)
(* at least six letters before the dot: with fewer, the code stores past    *)
(* its own array.                                                          *)
(***************************************************************************)
EXTENDS Integers, Sequences, FiniteSetsExt

CONSTANTS FileNames,     \* names: [stem, ext], the letters before and behind the dot
          Behind         \* what memory may hold after a name, at least four bytes

ASSUME NamesAssumption ==
  /\ \A n \in FileNames : {n.stem, n.ext} \subseteq Seq(Nat \ {0}) /\ Len(n.stem) \in 6..8
  /\ \A b \in Behind : b \in Seq(Int) /\ Len(b) >= 4

VARIABLES filename,      \* the name given to prsfs
          behind         \* the memory after it

Dot == -1
Space == -2
Null == 0

StemEnd(text, stop) == Min({8} \cup {j \in 0..7 : text[j + 1] = stop})
SameLetter(text, stem) == SubSeq(text, stem + 1, 11)    \* mutant: no ++j
Tail11(text, stem) == SubSeq(text, stem + 2, 11)

\* The bytes add_entry_table copies.
convert_filename(text) ==
  LET stem == StemEnd(text, Dot) IN
    SubSeq(SubSeq(text, 1, stem) \o [s \in 1..8 - stem |-> Space] \o Tail11(text, stem) \o <<Null>>, 1, 11)

CString(bytes) == SubSeq(bytes, 1, Min({Len(bytes)} \cup {n \in 0..Len(bytes)-1 : bytes[n + 1] = Null}))
get_filename(field) ==
  CString(SubSeq(field, 1, StemEnd(field, Space))
       \o (IF field[9] = Space THEN <<>> ELSE <<Dot>>) \o SubSeq(field, 9, 11))

------------------------------------------------------------------------------
Given == filename.stem \o <<Dot>> \o filename.ext
Field == convert_filename(Given \o <<Null>> \o behind)
Kept == IF Len(filename.stem) = 8 THEN 2 ELSE 3          \* letters of the extension

(* prsfs.c "Convert filename to file system filename.": what is printed is the *)
(* name that was given, less the letters of its extension that were not kept, *)
(* and what lay behind the name shows nowhere.  An extension of three letters *)
(* gives the eleven bytes load_file looks for, if the name is below eight.    *)
NamesComeBack ==
  /\ get_filename(Field) =
       filename.stem \o <<Dot>> \o SubSeq(filename.ext, 1, Min({Kept, Len(filename.ext)}))
  /\ Len(filename.ext) = 3 /\ Kept = 3 =>
       Field = filename.stem \o [s \in 1..8 - Len(filename.stem) |-> Space] \o filename.ext

NamesInit == filename \in FileNames /\ behind \in Behind
==============================================================================
