------------------------------- MODULE Terminal -------------------------------
(***************************************************************************)
(* What the terminal promises whoever prints and types: an endless roll of *)
(* rows W cells wide of which the last Keep stay readable.  Characters go  *)
(* to the last row, a full row or a line feed begins a new one, and the    *)
(* oldest row makes room.  Moving the view or clearing the screen does not *)
(* touch the roll.  Garbled is the state in which nothing is promised.     *)
(***************************************************************************)
EXTENDS Naturals, Sequences

CONSTANTS W,          \* cells of a row
          Keep,       \* rows that stay readable
          Chars,      \* the characters
          Blank

VARIABLES rows,       \* the readable rows, oldest first, each 0..W-1 -> cell
          at          \* where the next character goes in the last row

vars == <<rows, at>>

Garbled == rows = <<>>
BlankRow == [c \in 0..W-1 |-> Blank]

Init == rows = <<BlankRow>> /\ at = 0

Last == Len(rows)
Begin(roll) == Append(IF Len(roll) = Keep THEN Tail(roll) ELSE roll, BlankRow)

Write(c) ==
  /\ ~Garbled
  /\ LET roll == [rows EXCEPT ![Last][at] = c] IN
       IF at + 1 < W THEN rows' = roll /\ at' = at + 1
                     ELSE rows' = Begin(roll) /\ at' = 0

LineFeed == ~Garbled /\ rows' = Begin(rows) /\ at' = 0

Erase ==
  /\ ~Garbled /\ at > 0
  /\ rows' = [rows EXCEPT ![Last][at - 1] = Blank] /\ at' = at - 1

Garble == rows' = <<>> /\ at' = 0

Next == (\E c \in Chars : Write(c)) \/ LineFeed \/ Erase \/ Garble

Spec == Init /\ [][Next]_vars
==============================================================================
