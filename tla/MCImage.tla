-------------------------------- MODULE MCImage --------------------------------
(* The floppy built and started, or an image copied to a device. *)
EXTENDS Boot, ImgWrite

CONSTANT Parts
VARIABLE part

Letters(name) == IF name = "other" THEN 8 ELSE 6
F(name, size) == [name |-> name, letters |-> Letters(name), size |-> size, missing |-> FALSE]
Missing(name) == [name |-> name, letters |-> Letters(name), size |-> 1, missing |-> TRUE]
MCFileLists ==
  {<<F("stage2", 3), F("kernel", 4)>>, <<F("stage2", 2), F("other", 1), F("kernel", 1)>>,
   <<F("kernel", 3), F("stage2", 1)>>, <<F("stage2", 1), Missing("other"), F("kernel", 2)>>,
   <<Missing("stage2"), F("kernel", 2)>>, <<F("kernel", 2)>>,
   <<F("stage2", 0), F("kernel", 2), F("other", 1), F("other", 1)>>,
   <<F("kernel", 17), F("stage2", 1)>>, <<F("stage2", 1), F("other", 5), F("kernel", 2)>>}
MCLowZeros == {{}, {1}, {2}}

ImageRests ==
  /\ phase = "failed" /\ files = <<>> /\ boot = 1 /\ image = <<>> /\ offset = 0 /\ table = <<>>
  /\ k = 1 /\ start = 0 /\ i = 0 /\ pos = 0 /\ nsect = 0 /\ total = 0 /\ faults = 0 /\ damaged = 0
WriteRests ==
  /\ doing = "success" /\ input = <<>> /\ output = <<>> /\ inAt = 0 /\ outAt = 0
  /\ total_bytes = 0 /\ total_checked = 0 /\ errors = 0

Init ==
  /\ part \in Parts /\ BootInit
  /\ IF part = "floppy" THEN ImageInit ELSE ImageRests
  /\ IF part = "copy" THEN WriteInit ELSE WriteRests
Build == ImageNext /\ UNCHANGED <<part, bootVars, writeVars>>
Start == BootNext /\ UNCHANGED <<part, imageVars, writeVars>>
Run == WriteRuns /\ UNCHANGED <<part, imageVars, bootVars>>
Copy == WriteNext /\ UNCHANGED <<part, imageVars, bootVars>>
Next == Build \/ Start \/ Copy
vars == <<part, imageVars, bootVars, writeVars>>
Spec == Init /\ [][Next]_vars /\ WF_vars(Build \/ Start) /\ WF_vars(Run)
             /\ SF_vars(CopyWhole /\ UNCHANGED <<part, imageVars, bootVars>>)
==============================================================================
