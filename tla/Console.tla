------------------------------- MODULE Console --------------------------------
(***************************************************************************)
(* The kernel reading a command line, getch and get_command of             *)
(* kernel/kernel.c, while the keyboard driver fills the mailbox under it.  *)
(*                                                                         *)
(* getch polls the mailbox and then empties it: two steps, and IRQ1 may    *)
(* come between them.  get_command stores what getch returns, handles      *)
(* backspace, and pauses three ticks after every other key.                *)
(***************************************************************************)
EXTENDS Keyboard, SequencesExt

CONSTANT Size         \* the size of the caller's buffer

ASSUME ConsoleAssumption == Size \in Nat \ {0}

VARIABLES
  pc,         \* where the kernel is: poll, discard, handle, pause, done
  key,        \* the scan code getch returns, mapped where it is used
  i, buf,     \* get_command's cursor and the buffer, by index
  \* history, for the properties only
  arrived,    \* how many make codes the driver has stored in the mailbox
  boxStamp,   \* which of them the mailbox got last
  keyStamp,   \* which of them getch returned last
  line        \* the keys getch has returned for this command, as handled

fgVars == <<pc, key, i, buf>>
hist   == <<arrived, boxStamp, keyStamp, line>>
vars   == <<kbdVars, fgVars, hist>>

NUL == [code |-> 0, upper |-> FALSE]
BKSP == [code |-> 14, upper |-> FALSE]    \* in line only

Init ==
  /\ KbdInit
  /\ pc = "poll" /\ key = INVALID_SCANCODE /\ i = 0
  /\ buf = [n \in 0..Size |-> NUL]
  /\ arrived = 0 /\ boxStamp = 0 /\ keyStamp = 0 /\ line = <<>>

------------------------------------------------------------------------------
\* kbd_get_last_key finds a key the table knows.
KeyPending == scancode # INVALID_SCANCODE /\ KeyAt(scancode) # "unknown"

\* kernel.c:45-47
GetchPoll ==
  /\ pc = "poll" /\ cpu = "fg" /\ KeyPending
  /\ pc' = "discard" /\ key' = scancode
  /\ keyStamp' = boxStamp
  /\ UNCHANGED <<kbdVars, i, buf, arrived, boxStamp, line>>

\* kernel.c:48: empties the mailbox, whatever is in it by now.
KeepKey == scancode                                     \* mutant: no discard
Emptied == INVALID_SCANCODE
GetchDiscard ==
  /\ pc = "discard" /\ cpu = "fg"
  /\ scancode' = Emptied
  /\ pc' = "handle"
  /\ UNCHANGED <<device, wire, port, cpu, mods, key, i, buf, hist>>

\* kbd_key_to_ascii, of the modifiers as they are now; a letter is upper case
\* under shift or caps lock, another character is shifted under shift alone.
ToAscii(code) ==
  [code |-> code,
    upper |-> CASE KeyAt(code) = "letter" -> shift \/ capslock
               [] KeyAt(code) = "symbol" -> shift /\ ~capslock
               [] OTHER -> FALSE]

IsAscii(code) == KEYCODE(KeyAt(code)) \subseteq 0..127

\* The body of get_command's loop up to its delay.
HandleReturn ==
  /\ KeyAt(key) = "enter"
  /\ pc' = "done" /\ UNCHANGED <<i, buf, line>>

HandleBackspace ==
  /\ KeyAt(key) = "bksp"
  /\ IF i > 0 THEN buf' = [buf EXCEPT ![i] = NUL] /\ i' = i - 1
              ELSE UNCHANGED <<i, buf>>
  /\ line' = Append(line, BKSP)
  /\ pc' = "poll"

StoreAfter == buf' = [buf EXCEPT ![i + 1] = ToAscii(key)]     \* mutant: ++i
Store == buf' = [buf EXCEPT ![i] = ToAscii(key)]
HandleOther ==
  /\ KeyAt(key) \notin {"enter", "bksp"}
  /\ IF IsAscii(key)
       THEN /\ Store /\ i' = i + 1
            /\ line' = Append(line, ToAscii(key))
       ELSE UNCHANGED <<i, buf, line>>
  /\ pc' = "pause"

Handle ==
  /\ pc = "handle" /\ cpu = "fg"
  /\ HandleReturn \/ HandleBackspace \/ HandleOther
  /\ UNCHANGED <<kbdVars, key, arrived, boxStamp, keyStamp>>

MoreOrEqual == i <= Size                                \* mutant: off by one
More == i < Size

\* delay(3) is over, and the loop's condition is tested.
PauseEnds ==
  /\ pc = "pause" /\ cpu = "fg"
  /\ pc' = IF More THEN "poll" ELSE "done"
  /\ UNCHANGED <<kbdVars, key, i, buf, hist>>

\* kernel.c:93 ends the string and returns; kernel_main handles the command and
\* asks for the next one.
CommandEnds ==
  /\ pc = "done" /\ cpu = "fg"
  /\ pc' = "poll" /\ i' = 0
  /\ buf' = [buf EXCEPT ![i] = NUL]
  /\ line' = <<>>
  /\ UNCHANGED <<kbdVars, key, arrived, boxStamp, keyStamp>>

Kernel == GetchPoll \/ GetchDiscard \/ Handle \/ PauseEnds \/ CommandEnds

\* The driver's steps, with the count of what it puts into the mailbox.
Driver ==
  /\ KbdNext
  /\ IF KeyboardCallback /\ Head(wire) < 128
       THEN arrived' = arrived + 1 /\ boxStamp' = arrived + 1
       ELSE UNCHANGED <<arrived, boxStamp>>
  /\ UNCHANGED <<fgVars, keyStamp, line>>

Next == Driver \/ Kernel

Spec == Init /\ [][Next]_vars

\* Interrupts are delivered and the kernel keeps polling between them.
FairSpec == Spec /\ KbdFairness /\ WF_vars(Kernel)

------------------------------------------------------------------------------
TypeOK ==
  /\ held \subseteq Keys /\ makes \in 0..MaxMakes /\ resends \in 0..MaxResends
  /\ wire \in Seq(0..255)
  /\ cmdByte \in 0..NoByte /\ ledCmd \in BOOLEAN /\ leds \in 0..255
  /\ cpu \in {"fg", "led1", "led2", "halted"}
  /\ scancode \in 0..127
  /\ {shift, ctrl, alt, capslock, scrolllock, resend} \subseteq BOOLEAN
  /\ pc \in {"poll", "discard", "handle", "pause", "done"}
  /\ key \in 0..127 /\ i \in 0..Size
  /\ DOMAIN buf = 0..Size

\* Whatever the prefix, acknowledge and release bytes do to the flags on the
\* way, once no key is down and every byte is handled no modifier is left on.
ModifiersRelease ==
  held = {} /\ wire = <<>> => ~shift /\ ~ctrl /\ ~alt

\* getch returns keys in the order they came, each at most once, however IRQ1
\* falls between its polls: a later getch returns a later key.
KeysInOrder == [][keyStamp' # keyStamp \/ GetchPoll => keyStamp' > keyStamp]_vars

\* The line handed to the shell is the line the handled keys spell: letters in
\* order, each backspace taking back the one before it.
Typed(text, k) ==
  IF k # BKSP THEN Append(text, k) ELSE IF text = <<>> THEN text ELSE Front(text)
Edit(keys) == FoldLeft(Typed, <<>>, keys)
CommandIsEdited ==
  pc = "done" => /\ i = Len(Edit(line))
                 /\ \A n \in 1..i : buf[n - 1] = Edit(line)[n]

\* The caps lock light agrees with the driver's caps lock whenever the two bytes
\* of the last toggle have been taken: no toggle is lost between the handler's
\* two writes, as long as the keyboard understands them.
CapsLedFollows ==
  cpu = "fg" /\ cmdByte = NoByte /\ resends = 0 => (leds >= 4 <=> capslock)

\* A key in the mailbox is taken out of it in the end.
MailboxEmptied == KeyPending ~> scancode = INVALID_SCANCODE

------------------------------------------------------------------------------
(* What the comments say and the code does not do.                         *)

\* kernel.c:40 "Get key from keyboard.": the key getch takes out of the mailbox
\* is the key it returns.
DiscardsWhatItReturns == [][GetchDiscard => boxStamp = keyStamp]_vars

\* keyboard.c:132 "Send command byte to keyboard encoder.": the send ends.
SendEnds == cpu # "fg" ~> cpu = "fg"
==============================================================================
