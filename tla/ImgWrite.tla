-------------------------------- MODULE ImgWrite --------------------------------
(***************************************************************************)
(* The imgwrite tool (imgwrite/main.c): copies an image to a device in      *)
(* chunks of MAXBUF - 1 bytes, repeating a chunk whose write stays short,    *)
(* then reads both again in chunks of MAXBUF and compares.  Any write may   *)
(* stay short; reading the input may fail MaxErrors times, which looks like *)
(* its end.                                                                *)
(***************************************************************************)
EXTENDS Integers, Sequences

CONSTANTS MAXBUF,       \* bytes of the buffer
          Sizes,        \* sizes of the input
          MaxErrors     \* failing reads

ASSUME ImgWriteAssumption == MAXBUF \in Nat /\ MAXBUF > 1 /\ Sizes \subseteq Nat /\ MaxErrors \in Nat

VARIABLES doing,        \* "copy", "verify", "success" or "failure"
          input,        \* the input's bytes
          output,       \* the device's bytes
          inAt, outAt,  \* the two file positions
          total_bytes, total_checked,
          errors        \* reads that failed

writeVars == <<doing, input, output, inAt, outAt, total_bytes, total_checked, errors>>

WriteInit ==
  /\ doing = "copy" /\ \E n \in Sizes : input = [b \in 1..n |-> b]
  /\ output = <<>> /\ inAt = 0 /\ outAt = 0 /\ total_bytes = 0 /\ total_checked = 0
  /\ errors = 0

Fread(file, at, n) == SubSeq(file, at + 1, IF at + n < Len(file) THEN at + n ELSE Len(file))
Over(file, at, bytes) == SubSeq(file, 1, at) \o bytes \o SubSeq(file, at + Len(bytes) + 1, Len(file))
Fetched == Fread(input, inAt, MAXBUF - 1)

(* A chunk is written as a whole, or both files go back to where it began.   *)
CopyWhole ==
  /\ doing = "copy" /\ Fetched # <<>>
  /\ output' = Over(output, outAt, Fetched)
  /\ inAt' = inAt + Len(Fetched) /\ outAt' = outAt + Len(Fetched)
  /\ total_bytes' = total_bytes + Len(Fetched)
  /\ UNCHANGED <<doing, input, total_checked, errors>>

NotBack == <<inAt + Len(Fetched), outAt>>                \* mutant: only the output goes back
Back == <<inAt, outAt>>
CopyShort ==
  /\ doing = "copy"
  /\ \E n \in 0..Len(Fetched) - 1 : output' = Over(output, outAt, SubSeq(Fetched, 1, n))
  /\ inAt' = Back[1] /\ outAt' = Back[2]
  /\ UNCHANGED <<doing, input, total_bytes, total_checked, errors>>

CopyEnds ==
  /\ doing = "copy" /\ Fetched = <<>>
  /\ doing' = "verify" /\ inAt' = 0 /\ outAt' = 0
  /\ UNCHANGED <<input, output, total_bytes, total_checked, errors>>

------------------------------------------------------------------------------
GoesOn(bytes) == Len(bytes) < 0                        \* mutant: while(fread(...) >= 0)
NoneLeft(bytes) == bytes = <<>>

Result == IF total_bytes = total_checked THEN "success" ELSE "failure"

(* Chunks of different lengths are read again; equal ones are counted; the    *)
(* first that differs ends the comparison.                                 *)
Verify ==
  LET bytes_read == Fread(input, inAt, MAXBUF)
      bytes_written == Fread(output, outAt, MAXBUF)
      n == Len(bytes_read) IN
    /\ doing = "verify"
    /\ IF NoneLeft(bytes_read) \/ (n = Len(bytes_written) /\ bytes_read # bytes_written)
         THEN doing' = Result /\ UNCHANGED <<inAt, outAt, total_checked>>
       ELSE IF n # Len(bytes_written) THEN UNCHANGED <<doing, inAt, outAt, total_checked>>
       ELSE /\ total_checked' = total_checked + n /\ inAt' = inAt + n /\ outAt' = outAt + n
            /\ UNCHANGED doing
    /\ UNCHANGED <<input, output, total_bytes, errors>>

(* A read that fails looks like the end of the input to either loop.         *)
ReadError ==
  /\ errors < MaxErrors /\ errors' = errors + 1
  /\ \/ doing = "copy" /\ doing' = "verify" /\ inAt' = 0 /\ outAt' = 0
     \/ doing = "verify" /\ doing' = Result /\ UNCHANGED <<inAt, outAt>>
  /\ UNCHANGED <<input, output, total_bytes, total_checked>>

WriteRuns == CopyEnds \/ Verify
WriteNext == CopyWhole \/ CopyShort \/ WriteRuns \/ ReadError
WriteSpec == WriteInit /\ [][WriteNext]_writeVars

------------------------------------------------------------------------------
(* "Successfully copied and verified." is true, whatever writes stayed short   *)
(* and with one read that failed.                                          *)
SuccessMeansCopied == doing = "success" => output = input

(* The copy ends, if a write does not stay short for ever and no read failed: *)
(* after a failing read it may compare chunks of different lengths for ever. *)
CopyDone == <>(doing \in {"success", "failure"} \/ errors > 0)
==============================================================================
