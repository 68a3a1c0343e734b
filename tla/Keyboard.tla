------------------------------- MODULE Keyboard -------------------------------
(***************************************************************************)
(* The PS/2 keyboard driver, kernel/drivers/keyboard.c, with the keyboard  *)
(* and its controller as far as the driver talks to them.                  *)
(*                                                                         *)
(* The keyboard queues a byte for every press and release (with the prefix *)
(* 0xE0 for the extended keys) and for every command byte it acknowledges. *)
(* IRQ1 hands the bytes to keyboard_callback one at a time; the callback   *)
(* leaves the last make code in the one-place mailbox _scancode and tracks *)
(* the modifiers.  A lock key also sends two bytes back to set the LEDs,   *)
(* and that happens inside the handler, with interrupts off.               *)
(*                                                                         *)
(* cpu says who runs: "fg" (the kernel, interrupts on), the two writes of  *)
(* kbd_set_leds inside the handler, or nobody ("halted": hlt with          *)
(* interrupts off, which no interrupt ends).                               *)
(***************************************************************************)
EXTENDS Integers, Sequences, FiniteSets

CONSTANTS Keys,         \* the keys of the keyboard, [code, ext]
          BeyondTable,  \* what lies in memory past the end of _kbd_std_table
          MaxMakes,     \* bound: presses of one history
          MaxResends,   \* bound: bytes the keyboard answers with 0xFE
          MaxWire       \* bound: the user waits while so many bytes are queued

Classes == {"unknown", "shift", "ctrl", "alt", "caps", "scroll",
            "enter", "bksp", "letter", "symbol", "plain", "other"}

ASSUME KeyboardAssumption ==
  /\ Keys \subseteq [code : 1..127, ext : BOOLEAN]
  /\ BeyondTable \in [89..127 -> Classes]
  /\ MaxMakes \in Nat /\ MaxResends \in Nat /\ MaxWire \in Nat

VARIABLES
  held,       \* the keys the user holds down
  makes,      \* how many presses the user has made
  resends,    \* how many command bytes the keyboard did not understand
  wire,       \* bytes queued by the keyboard
  cmdByte,    \* byte in the controller's input buffer, NoByte when empty
  ledCmd,     \* the keyboard has taken 0xED and waits for the LED byte
  leds,       \* the LED byte it took last
  cpu,
  scancode,   \* _scancode
  shift, ctrl, alt, capslock, scrolllock,
  resend      \* _kbd_resend_res

device  == <<held, makes>>
port    == <<resends, cmdByte, ledCmd, leds>>
mods    == <<shift, ctrl, alt, capslock, scrolllock, resend>>
kbdVars == <<device, wire, port, cpu, scancode, mods>>

NoByte  == 256
INVALID_SCANCODE == 0

------------------------------------------------------------------------------
(* Codes.  _kbd_std_table has the 89 entries 0..0x58; an index past them   *)
(* reads what the linker put there.     Num lock is not in the table.     *)
TableLast == 88
Letter == (16..25) \cup (30..38) \cup (44..50)
Symbol == (2..13) \cup {26, 27, 39, 40, 41, 43, 51, 52, 53, 74, 76}   \* two characters each
Plain == {55, 57, 78}                            \* one: space, * and + of the keypad
Unnamed == {0, 84, 85, 86}

ClassOf(c) ==
  CASE c \in Unnamed  -> "unknown"
    [] c \in {42, 54} -> "shift"
    [] c = 29         -> "ctrl"
    [] c = 56         -> "alt"
    [] c = 58         -> "caps"
    [] c = 70         -> "scroll"
    [] c = 28         -> "enter"
    [] c = 14         -> "bksp"
    [] c \in Letter   -> "letter"
    [] c \in Symbol   -> "symbol"
    [] c \in Plain    -> "plain"
    [] OTHER          -> "other"

\* The values the keys of a class have in enum KEYCODE: characters, or numbers
\* no character has.
KEYCODE(class) ==
  CASE class = "letter"  -> 97..122
    [] class = "symbol"  -> (48..57) \cup {39, 44, 45, 46, 47, 59, 61, 91, 92, 93, 96}
    [] class = "plain"   -> {32, 42, 43}
    [] class = "enter"   -> {13}
    [] class = "bksp"    -> {8}
    [] class = "shift"   -> {16386, 16390}
    [] class = "ctrl"    -> {16387, 16391}
    [] class = "alt"     -> {16388, 16392}
    [] class = "caps"    -> {16385}
    [] class = "scroll"  -> {16400}
    [] class = "unknown" -> {16402}
    [] OTHER -> {4097} \cup (4352..4355) \cup (4609..4623)
                \cup {12303, 12304, 16384, 16389, 16393, 16401} \cup (16394..16399)

KeyAt(c) == IF c <= TableLast THEN ClassOf(c) ELSE BeyondTable[c]

\* kbd_enc_read_buf returns a char: bytes from 0x80 up come out negative.
SignExtend(byte) == IF byte >= 128 THEN byte - 256 ELSE byte

\* The bytes a key sends when it goes down and up.
Prefix(k) == IF k.ext THEN <<224>> ELSE <<>>
MakeBytes(k) == Prefix(k) \o <<k.code>>
BreakBytes(k) == Prefix(k) \o <<k.code + 128>>

\* kbd_set_leds: each line overwrites data, so only the last one counts.
LedsSwapped(num, caps, scroll) == IF scroll THEN (IF num THEN 5 ELSE 4) ELSE 0  \* mutant
LedData(num, caps, scroll) == IF caps THEN (IF num THEN 5 ELSE 4) ELSE 0

Num == TRUE      \* _numlock: set by install_kbd, toggled by no key of the table

\* install_kbd has run and its two LED bytes have been taken.
KbdInit ==
  /\ held = {} /\ makes = 0 /\ resends = 0 /\ wire = <<>>
  /\ cmdByte = NoByte /\ ledCmd = FALSE /\ leds = LedData(Num, FALSE, FALSE)
  /\ cpu = "fg" /\ scancode = INVALID_SCANCODE
  /\ shift = FALSE /\ ctrl = FALSE /\ alt = FALSE
  /\ capslock = FALSE /\ scrolllock = FALSE /\ resend = FALSE

------------------------------------------------------------------------------
(* The user and the keyboard. *)
Press(k) ==
  /\ k \notin held /\ makes < MaxMakes /\ Len(wire) < MaxWire
  /\ held' = held \cup {k} /\ makes' = makes + 1
  /\ wire' = wire \o MakeBytes(k)
  /\ UNCHANGED <<port, cpu, scancode, mods>>

Release(k) ==
  /\ k \in held /\ Len(wire) < MaxWire
  /\ held' = held \ {k} /\ wire' = wire \o BreakBytes(k)
  /\ UNCHANGED <<makes, port, cpu, scancode, mods>>

\* The keyboard takes a command byte and answers 0xFA (ack), or 0xFE (resend)
\* to a byte it did not understand; only 0xED takes a data byte.
TakeCommand ==
  /\ cmdByte # NoByte
  /\ cmdByte' = NoByte
  /\ \/ /\ wire' = Append(wire, 250)
        /\ ledCmd' = (~ledCmd /\ cmdByte = 237)
        /\ leds' = IF ledCmd THEN cmdByte ELSE leds
        /\ UNCHANGED resends
     \/ /\ wire' = Append(wire, 254)
        /\ resends < MaxResends /\ resends' = resends + 1
        /\ UNCHANGED <<ledCmd, leds>>
  /\ UNCHANGED <<device, cpu, scancode, mods>>

------------------------------------------------------------------------------
(* keyboard_callback on one byte. *)

\* lines 194-196, never true of a sign-extended code
IsExtension(code) == code \in {224, 225}

\* line 199: bit 7 of the code, as the int it was extended to
IsBreak(code) == code < 0 \/ code >= 128

\* lines 201-220: a released modifier
ClearAltForCtrl(class) ==                       \* mutant: the wrong flag
  /\ shift' = (shift /\ class # "shift")
  /\ alt' = (alt /\ class \notin {"ctrl", "alt"})
  /\ UNCHANGED <<ctrl, capslock, scrolllock>>

Clear(class) ==
  /\ shift' = (shift /\ class # "shift")
  /\ ctrl' = (ctrl /\ class # "ctrl")
  /\ alt' = (alt /\ class # "alt")
  /\ UNCHANGED <<capslock, scrolllock>>

\* lines 225-255: a pressed modifier or lock key
Set(class) ==
  /\ shift' = (shift \/ class = "shift")
  /\ ctrl' = (ctrl \/ class = "ctrl")
  /\ alt' = (alt \/ class = "alt")
  /\ capslock' = (capslock # (class = "caps"))
  /\ scrolllock' = (scrolllock # (class = "scroll"))

\* lines 258-272, after a break code has become its make code
Watch(code) == resend' = (resend \/ code = 254)

OnBreak(code) ==
  /\ Clear(KeyAt(code))
  /\ Watch(code)
  /\ UNCHANGED <<scancode, cpu>>

OnMake(code) ==
  /\ scancode' = code
  /\ Set(KeyAt(code))
  /\ cpu' = IF KeyAt(code) \in {"caps", "scroll"} THEN "led1" ELSE cpu
  /\ Watch(code)

\* IRQ1.  Unless LEDs are to be set the handler ends here with its EOI.
KeyboardCallback ==
  /\ cpu = "fg" /\ wire # <<>>
  /\ wire' = Tail(wire)
  /\ LET code == SignExtend(Head(wire)) IN
       \/ IsExtension(code) /\ UNCHANGED <<scancode, cpu, mods>>
       \/ ~IsExtension(code) /\ IsBreak(code) /\ OnBreak(code + 128)
       \/ ~IsExtension(code) /\ ~IsBreak(code) /\ OnMake(code)
  /\ UNCHANGED <<device, port>>

\* kbd_enc_send_cmd from the handler: wait for an empty input buffer with hlt,
\* else write the byte; after the second byte the handler returns.
SendFromHandler(at, byte, next) ==
  /\ cpu = at
  /\ IF cmdByte # NoByte THEN cpu' = "halted" /\ UNCHANGED cmdByte
                         ELSE cpu' = next /\ cmdByte' = byte
  /\ UNCHANGED <<device, resends, wire, ledCmd, leds, scancode, mods>>

SetLeds == \/ SendFromHandler("led1", 237, "led2")
           \/ SendFromHandler("led2", LedData(Num, capslock, scrolllock), "fg")

KbdNext == \/ \E k \in Keys : Press(k) \/ Release(k)
           \/ TakeCommand \/ KeyboardCallback \/ SetLeds

\* The keyboard's bytes are delivered and the handler runs on.
KbdFairness == WF_kbdVars(TakeCommand) /\ WF_kbdVars(KeyboardCallback) /\ WF_kbdVars(SetLeds)
==============================================================================
