------------------------------ MODULE MCConsole -------------------------------
(***************************************************************************)
(* Instances of Console for TLC. The keys: a letter, left shift, the right *)
(* control with its 0xE0 prefix, the left Windows key whose code is past   *)
(* the table, caps lock, enter and backspace.                              *)
(***************************************************************************)
EXTENDS Console

K(c) == [code |-> c, ext |-> FALSE]
E(c) == [code |-> c, ext |-> TRUE]

Modifiers == {K(30), K(42), E(29), E(91), K(58)}
Editing   == {K(30), K(42), K(14), K(28)}
Locks     == {K(30), K(58)}

\* Adversarial memory past the table: each index the driver reads there (0x5B,
\* 0x60 for 0xE0, 0x7A for 0xFA, 0x7E for 0xFE) looks like a modifier.
Adverse == [c \in 89..127 |-> CASE c = 91 -> "ctrl" [] c = 96 -> "shift"
                                [] c = 122 -> "alt" [] OTHER -> "other"]
==============================================================================
