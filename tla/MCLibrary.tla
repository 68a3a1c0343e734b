------------------------------- MODULE MCLibrary -------------------------------
(* One of the library's parts at a time: a formatted print, a call on bytes, *)
(* a copy, the search for the ACPI tables, or a file's name.  The others rest. *)
EXTENDS Format, Bytes, Copies, Acpi, Names

CONSTANTS Parts,            \* the parts that run
          MaxTokens, Sizes  \* tokens of a format; sizes of snprintf's buffer

VARIABLE part
vars == <<part, formatVars, input, given, acpiVars, filename, behind>>

------------------------------------------------------------------------------
Tokens == {<<"a">>, <<"0">>, <<"%", "%">>, <<"%", "d">>, <<"%", "0", "9", "d">>,
           <<"%", "s">>, <<"%", "u">>, <<"%", "X">>, <<"%", "9", "d">>}
OnScreen ==
  [tokens : UNION {[1..n -> Tokens] : n \in 1..MaxTokens},
   args   : {<<7, -7, 12345>>, <<12345, 7, -7>>},
   stack  : {1}, char : {"c"}, str : {<<>>, <<EOFChar, "b">>},
   device : {"screen"}, size : {0}]
MCCalls == OnScreen \cup
  {[c EXCEPT !.device = "buffer", !.size = n] : c \in OnScreen, n \in Sizes}

MCCopyCalls == [top : {40}, dst : 4..13, src : 0..9, size : 0..9]
MCInputs ==
  [kind : {"fill"}, top : {40}, dst : 4..13, size : 0..9]
  \cup [kind : {"sum"}, width : {3, 4}, bytes : UNION {[1..n -> 0..7] : n \in 0..3}]

Sig == <<1, 2, 1>>
Fadt == <<70, 65, 67, 80>>
MCAreas == [Begin .. End -> {1, 2}]
MCJunk == {<<0, b, c>> : b, c \in {1, 2}}
MCDescriptors ==
  [revision : {0, 2}, first : {<<200, 56>>, <<200, 57>>}, later : {<<>>, <<1>>}]
Other == [Signature |-> <<70, 65, 67, 0>>, dsdt |-> "none"]
FadtA == [Signature |-> Fadt \o <<116>>, dsdt |-> "A"]
FadtB == [Signature |-> Fadt \o <<0>>, dsdt |-> "B"]
MCRootTables ==
  [header : {<<255, 1>>, <<255, 2>>},
   entries : {<<Other, FadtA, Other, FadtB>>, <<FadtB, FadtA, FadtA, Other>>, <<Other, Other, Other, Other>>}]

Letters == <<1, 2, 3, 4, 5, 6, 7, 8>>
MCFileNames ==
  {[stem |-> SubSeq(Letters, 1, s), ext |-> SubSeq(Letters, 1, e)] : s \in 6..8, e \in 0..5}
MCBehind == [1..4 -> {Null, 1, Dot}]

------------------------------------------------------------------------------
TextRests ==
  /\ call = CHOOSE c \in OnScreen : c.tokens = <<<<"a">>>>
  /\ fmt = <<>> /\ used = 0 /\ written = 1 /\ real = 1 /\ lead = NUL /\ width = 0
  /\ out = <<"a">> /\ ended = FALSE /\ ret = 1
BytesRest == input = CHOOSE call0 \in MCInputs : call0.kind = "sum"
CopyRests == given = [top |-> 0, dst |-> 0, src |-> 0, size |-> 0]
AcpiRests ==
  /\ phase = "done" /\ area = [a \in Begin .. End |-> 2] /\ i = End
  /\ currentSignature = <<2, 2, 2>> /\ rsdpAddress = 0 /\ report = <<"RSDP_missing">>
  /\ rsdp = CHOOSE d \in MCDescriptors : TRUE
  /\ root = CHOOSE t \in MCRootTables : TRUE
  /\ entry = 0
NamesRest ==
  filename = [stem |-> SubSeq(Letters, 1, 6), ext |-> <<>>] /\ behind = [b \in 1..4 |-> Null]

Init ==
  /\ part \in Parts
  /\ IF part = "text" THEN FormatInit ELSE TextRests
  /\ IF part = "bytes" THEN BytesInit ELSE BytesRest
  /\ IF part = "copies" THEN CopiesInit ELSE CopyRests
  /\ IF part = "acpi" THEN AcpiInit ELSE AcpiRests
  /\ IF part = "names" THEN NamesInit ELSE NamesRest
Next ==
  \/ FormatNext /\ UNCHANGED <<part, input, given, acpiVars, filename, behind>>
  \/ AcpiNext /\ UNCHANGED <<part, formatVars, input, given, filename, behind>>
Spec == Init /\ [][Next]_vars /\ WF_vars(Next)
==============================================================================
