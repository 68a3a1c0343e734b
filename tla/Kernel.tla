-------------------------------- MODULE Kernel ---------------------------------
(***************************************************************************)
(* The kernel from kernel_main on (kernel/kernel.c, kernel/shell.c) under   *)
(* its interrupts (kernel/cpu/isr.c, int.asm, timer.c): start-up, the login *)
(* and command loop, and what IRQ0, IRQ1 and a line without a handler do    *)
(* between any two of its steps.                                            *)
(*                                                                         *)
(* The program is a list of steps still to do; a command adds the steps of  *)
(* its function.  A line of text is one key (Console has the reading of a   *)
(* line) and a wait is one tick or more (Timer has their length).  The two  *)
(* 8259 interrupt controllers and the keyboard controller are hardware.     *)
(***************************************************************************)
EXTENDS Integers, SequencesExt

CONSTANTS Queue,       \* DEBUG_COMMANDS_TO_RUN
          Lines,       \* what the user types
          MaxLines,    \* bound: lines typed
          Exceptions,  \* vectors the fault of a command may raise
          Fields       \* registers cmd_regs prints

ASSUME KernelAssumption ==
  /\ Queue \in Seq(STRING) /\ Lines \subseteq STRING
  /\ MaxLines \in Nat /\ Exceptions \subseteq 0..31 /\ Fields \in Nat

None == "none"
InKernel == 0
Halted == -1
NoFault == [raised |-> -1, int_no |-> -1, message |-> None, eip |-> None]

VARIABLES
  \* the program
  todo,          \* the steps to do, the next one first
  login_active, currentDebugCommand,
  prompts,       \* prompts shown since the last line was taken
  scancode,      \* the mailbox of the keyboard driver: a line, or None
  ticked,        \* a tick since the kernel last asked (a wait, a register request)
  handlers,      \* interrupt_handlers: who serves a vector
  regs_update, snapshot,   \* the flag, and how many snapshots were taken
  asked, inTime, shown,    \* cmd_regs: snapshots when it asked, whether a tick
                           \* came before the first load, and the ones loaded
  fault,         \* what isr_handler printed: vector, its message, the word shown as eip
  uart,          \* the serial port: "off", "normal" or "loopback"
  gdt,           \* the descriptor table in force: "boot" or "kernel"
  idt, idtr,     \* the stub a vector's gate leads to, and whether the table is loaded
  pic, outs,     \* the words each controller was given since its last reset, and
                 \* how many writes of isr_install are done
  \* the processor and the hardware
  cpu,           \* InKernel, Halted, or the vector whose handler runs
  enabled,       \* the interrupt flag
  requested,     \* IRQ lines whose edge the controllers have latched
  inService,     \* what each controller waits an EOI for
  byte,          \* the keyboard's output buffer: a line, or None
  thr,           \* the serial transmitter: "empty" or "full"
  \* history
  typed,         \* lines typed
  early          \* a key came before there was a handler for it

program  == <<todo, login_active, currentDebugCommand, prompts>>
driver   == <<scancode, ticked, handlers>>
regs     == <<regs_update, snapshot, asked, inTime, shown>>
machine  == <<cpu, enabled, requested, inService>>
keyboard == <<byte, typed, early>>
serial   == <<uart, thr>>
tables   == <<gdt, idt, idtr, pic, outs>>
vars == <<program, driver, regs, fault, tables, machine, keyboard, serial>>

LoginPrompt == "LOGIN? "
CommandPrompt == "> "

IRQ0 == 32
IRQ1 == 33
IRQ14 == 46                   \* stands for the lines nobody registers for
Vectors == Exceptions \cup {IRQ0, IRQ1, IRQ14}    \* those that can be raised here

NoGate == -1

\* isr_install's writes to the interrupt controllers: port and value.
RemapLate ==                                   \* mutant: the wiring before the vectors
  <<<<32, 17>>, <<160, 17>>, <<33, 4>>, <<161, 2>>, <<33, 32>>, <<161, 40>>,
    <<33, 1>>, <<161, 1>>, <<33, 0>>, <<161, 0>>>>
Remap ==
  <<<<32, 17>>, <<160, 17>>, <<33, 32>>, <<161, 40>>, <<33, 4>>, <<161, 2>>,
    <<33, 1>>, <<161, 1>>, <<33, 0>>, <<161, 0>>>>

isr_install == <<"disable", "SET_ISR">> \o [w \in 1..Len(Remap) |-> "outb"]
                 \o <<"SET_IRQ", "set_idt", "enable">>
irq_install == <<"register_IRQ0", "install_timer", "register_IRQ1">>
Boot == <<"serialcom_init_port", "gdt_install">> \o isr_install \o irq_install
        \o <<"welcome", "kbd_discard_last_key", "loop">>

Init ==
  /\ todo = Boot /\ login_active = TRUE /\ currentDebugCommand = 0 /\ prompts = {}
  /\ scancode = None /\ ticked = FALSE /\ handlers = [v \in 32..47 |-> None]
  /\ regs_update = FALSE /\ snapshot = 0 /\ asked = 0 /\ inTime = FALSE /\ shown = <<>>
  /\ fault = NoFault /\ uart = "off"
  /\ gdt = "boot" /\ idt = [v \in Vectors |-> NoGate] /\ idtr = FALSE /\ outs = 0
  /\ pic = [master |-> <<8, 4, 1, 184>>, slave |-> <<112, 2, 1, 142>>]   \* the BIOS's
  /\ cpu = InKernel /\ enabled = FALSE /\ requested \in SUBSET {IRQ0, IRQ14}
  /\ inService = [master |-> {}, slave |-> {}]
  /\ byte = None /\ thr = "empty" /\ typed = 0 /\ early = FALSE

------------------------------------------------------------------------------
(* The stack a handler gets (int.asm): what the processor pushes, what the  *)
(* stub pushes, pusha, and ds; registers_t lays over it from the last word.  *)
HasCode(v) == v \in {8} \cup 10..14

StubsAlike(v) == IF v < 32 THEN <<0, v>> ELSE <<v - 32, v>>     \* mutant: no isr_return
StubSwapped(v) == IF v >= 32 THEN <<v, v - 32>>                   \* mutant: push order
                  ELSE IF HasCode(v) THEN <<v>> ELSE <<0, v>>
Stub(v) == IF v >= 32 THEN <<v - 32, v>>
           ELSE IF HasCode(v) THEN <<v>> ELSE <<0, v>>

Frame(v) ==
  Reverse(<<"eflags", "cs", "eip">> \o (IF HasCode(v) THEN <<"code">> ELSE <<>>) \o Stub(v)
          \o <<"eax", "ecx", "edx", "ebx", "esp", "ebp", "esi", "edi">> \o <<"ds">>)

\* Members of registers_t, by their place.
int_no(frame) == frame[10]
eip(frame) == frame[12]

exception_messages ==
  <<"Division By Zero", "Debug", "Non Maskable Interrupt", "Breakpoint",
    "Into Detected Overflow", "Out of Bounds", "Invalid Opcode", "No Coprocessor",
    "Double Fault", "Coprocessor Segment Overrun", "Bad TSS", "Segment Not Present",
    "Stack Fault", "General Protection Fault", "Page Fault", "Unknown Interrupt",
    "Coprocessor Fault", "Alignment Check", "Machine Check">>
  \o [n \in 1..13 |-> "Reserved"]

------------------------------------------------------------------------------
(* Segments: the loader's table (boot/gdt.inc) and the kernel's (gdt.c).  A 32-bit *)
(* number is its two halves.                                               *)
gdt_set_gate(base, limit, access, gran) ==
  [base_low |-> base[2], base_mid |-> base[1] % 256, base_high |-> base[1] \div 256,
   limit |-> limit[2], grand |-> (limit[1] % 16) + (gran - (gran % 16)), access |-> access]

Zero == <<0, 0>>
Ones == <<65535, 65535>>
NullEntry == gdt_set_gate(Zero, Zero, 0, 0)
BootEntry(access) ==
  [base_low |-> 0, base_mid |-> 0, base_high |-> 0, limit |-> 65535, grand |-> 207, access |-> access]
gdt_entries == [boot   |-> <<NullEntry, BootEntry(154), BootEntry(146)>>,
                kernel |-> <<NullEntry>> \o [s \in 1..4 |->
                             gdt_set_gate(Zero, Ones, <<154, 146, 250, 242>>[s], 207)]]
KERNEL_CS == 8
KERNEL_DS == 16                      \* gdt_flush and the stubs load it

\* What the processor makes of a selector: the kernel's, all four gigabytes.
Flat(sel, access) ==
  LET e == gdt_entries[gdt][sel \div 8 + 1] IN
    /\ e.base_low = 0 /\ e.base_mid = 0 /\ e.base_high = 0 /\ e.access = access
    /\ e.grand \div 64 = 3 /\ (e.grand % 16) * 65536 + e.limit = 1048575

------------------------------------------------------------------------------
(* The hardware. *)
Latch(line) == requested' = requested \cup {line}

\* timer_callback takes far less than a tick.
PitTicks ==
  /\ cpu # IRQ0 /\ IRQ0 \notin requested /\ Latch(IRQ0)
  /\ UNCHANGED <<program, driver, regs, fault, tables, cpu, enabled, inService, keyboard, serial>>

OtherLine ==
  /\ IRQ14 \notin requested /\ Latch(IRQ14)
  /\ UNCHANGED <<program, driver, regs, fault, tables, cpu, enabled, inService, keyboard, serial>>

\* The line rises only when the buffer was empty.
KeyArrives(l) ==
  /\ byte = None /\ typed < MaxLines
  /\ byte' = l /\ typed' = typed + 1 /\ Latch(IRQ1)
  /\ early' = (early \/ handlers[IRQ1] = None)
  /\ UNCHANGED <<program, driver, regs, fault, tables, cpu, enabled, inService, serial>>

Transmitted ==
  /\ thr = "full" /\ thr' = "empty"
  /\ UNCHANGED <<program, driver, regs, fault, tables, machine, keyboard, uart>>

\* A slave's line reaches the master as its line 2.
AtMaster(v) == IF v >= 40 THEN 34 ELSE v
Deliverable(v) ==
  /\ enabled /\ v \in requested
  /\ \A w \in requested : AtMaster(v) <= AtMaster(w)
  /\ \A w \in inService.master : AtMaster(v) < w
  /\ v >= 40 => \A w \in inService.slave : v < w

(* A controller takes words by their order: after the reset (17 at the even  *)
(* port), the vector of its first line, its wiring, its mode, then masks.   *)
ChipAt(port) == IF port >= 160 THEN "slave" ELSE "master"
Resets(write) == write = <<32, 17>> \/ write = <<160, 17>>
Programmed(words, write) == IF Resets(write) THEN <<>> ELSE Append(words, write[2])
Lines8(p) == IF p = "slave" THEN 40..47 ELSE 32..39

\* It may forget the edges it had latched, and forgets whom it waits for.
Forgets(p) ==
  /\ \E kept \in SUBSET (requested \cap Lines8(p)) : requested' = (requested \ Lines8(p)) \cup kept
  /\ inService' = [inService EXCEPT ![p] = {}]

InService(v) == [master |-> inService.master \cup {AtMaster(v)},
                 slave |-> inService.slave \cup ({v} \cap 40..47)]

------------------------------------------------------------------------------
(* timer_callback *)
KeepUpdating == regs_update                        \* mutant: the flag stays up
Updated == FALSE
timer_callback ==
  /\ ticked' = TRUE
  /\ snapshot' = snapshot + (IF regs_update THEN 1 ELSE 0)
  /\ regs_update' = (regs_update /\ Updated)
  /\ UNCHANGED <<scancode, byte>>

(* keyboard_callback, of a key that ends a line. *)
keyboard_callback ==
  /\ scancode' = byte /\ byte' = None
  /\ UNCHANGED <<ticked, snapshot, regs_update>>

(* irq_handler calls whoever registered for the number the stub pushed, with  *)
(* interrupts off (the gates are interrupt gates).                           *)
Serves(v) == LET n == int_no(Frame(idt[v])) IN IF n \in DOMAIN handlers THEN handlers[n] ELSE None
Interrupt(v) ==
  /\ cpu = InKernel /\ Deliverable(v)
  /\ cpu' = v /\ enabled' = FALSE
  /\ requested' = requested \ {v} /\ inService' = InService(v)
  /\ \/ Serves(v) = "timer" /\ timer_callback
     \/ Serves(v) = "kbd" /\ keyboard_callback
     \/ Serves(v) = None /\ UNCHANGED <<scancode, ticked, snapshot, regs_update, byte>>
  /\ UNCHANGED <<program, handlers, asked, inTime, shown, fault, tables, typed, early, serial>>

(* Then the ends of interrupt, and iret. *)
OneEoi(v) == IF v >= 40 THEN {"slave"} ELSE {"master"}      \* mutant: else
EoiUnserved(v) == IF Serves(v) # None THEN {} ELSE OneEoi(v) \* mutant: return after handler(r)
Eois(v) == {"master"} \cup (IF v >= 40 THEN {"slave"} ELSE {})

Highest(set) == {v \in set : \A w \in set : v <= w}
InterruptReturn ==
  /\ cpu \in 32..47
  /\ inService' = [p \in {"master", "slave"} |->
                     inService[p] \ (IF p \in Eois(cpu) THEN Highest(inService[p]) ELSE {})]
  /\ cpu' = InKernel /\ enabled' = TRUE
  /\ UNCHANGED <<program, driver, regs, fault, tables, requested, keyboard, serial>>

------------------------------------------------------------------------------
(* The steps of the kernel. *)
At(step) == cpu = InKernel /\ todo # <<>> /\ Head(todo) = step
Step(step) == At(step) /\ todo' = Tail(todo)
Session == <<login_active, currentDebugCommand>>

\* The port is left in loopback if the byte sent did not come back.
serialcom_init_port ==
  /\ Step("serialcom_init_port") /\ uart' \in {"normal", "loopback"}
  /\ UNCHANGED <<Session, prompts, driver, regs, fault, tables, machine, keyboard, thr>>

gdt_install ==
  /\ Step("gdt_install") /\ gdt' = "kernel"
  /\ UNCHANGED <<Session, prompts, driver, regs, fault, idt, idtr, pic, outs, machine, keyboard, serial>>

\* The stubs of exceptions, then those of the lines, 32 vectors on.
set_idt_gate ==
  /\ \/ Step("SET_ISR") /\ idt' = [v \in Vectors |-> IF v < 32 THEN v ELSE idt[v]]
     \/ Step("SET_IRQ") /\ idt' = [v \in Vectors |-> IF v < 32 THEN idt[v] ELSE v]
  /\ UNCHANGED <<Session, prompts, driver, regs, fault, gdt, idtr, pic, outs, machine, keyboard, serial>>

set_idt ==
  /\ Step("set_idt") /\ idtr' = TRUE
  /\ UNCHANGED <<Session, prompts, driver, regs, fault, gdt, idt, pic, outs, machine, keyboard, serial>>

outb ==
  /\ Step("outb") /\ outs' = outs + 1
  /\ LET write == Remap[outs + 1]
         p == ChipAt(write[1]) IN
       /\ pic' = [pic EXCEPT ![p] = Programmed(@, write)]
       /\ IF Resets(write) THEN Forgets(p) ELSE UNCHANGED <<requested, inService>>
  /\ UNCHANGED <<Session, prompts, driver, regs, fault, gdt, idt, idtr, cpu, enabled, keyboard, serial>>

enable ==
  /\ Step("enable") /\ enabled' = TRUE
  /\ UNCHANGED <<Session, prompts, driver, regs, fault, tables, cpu, requested, inService, keyboard, serial>>

register_interrupt_handler ==
  /\ \/ Step("register_IRQ0") /\ handlers' = [handlers EXCEPT ![IRQ0] = "timer"]
     \/ Step("register_IRQ1") /\ handlers' = [handlers EXCEPT ![IRQ1] = "kbd"]
  /\ UNCHANGED <<Session, prompts, scancode, ticked, regs, fault, tables, machine, keyboard, serial>>

install_timer ==
  /\ Step("install_timer") /\ regs_update' = TRUE
  /\ UNCHANGED <<Session, prompts, driver, snapshot, asked, inTime, shown, fault, tables, machine, keyboard, serial>>

kbd_discard_last_key ==
  /\ Step("kbd_discard_last_key") /\ scancode' = None
  /\ UNCHANGED <<Session, prompts, ticked, handlers, regs, fault, tables, machine, keyboard, serial>>

Quiet == UNCHANGED <<Session, driver, regs, fault, tables, machine, keyboard, serial>>
Prompt(p) == prompts' = prompts \cup {p}

\* "> " after a command, unless it was logout.
AlwaysPrompts == Prompt(CommandPrompt)                          \* mutant: no condition
AfterCommand == IF login_active THEN UNCHANGED prompts ELSE Prompt(CommandPrompt)

Output ==
  /\ \/ Step("print") /\ UNCHANGED prompts
     \/ Step("welcome") /\ Prompt(LoginPrompt)
     \/ Step("login_prompt") /\ Prompt(LoginPrompt)
     \/ Step("prompt") /\ Prompt(CommandPrompt)
     \/ Step("after") /\ AfterCommand
  /\ Quiet

\* sleep or delay: over once a tick has come.
Wait ==
  /\ Step("wait") /\ ticked' = FALSE
  /\ UNCHANGED <<Session, prompts, scancode, handlers, regs, fault, tables, machine, keyboard, serial>>
Woken == Step("until") /\ ticked /\ UNCHANGED prompts /\ Quiet

\* login_active is written by a login and by logout.
SetLogin ==
  /\ \/ Step("logged_in") /\ login_active' = FALSE
     \/ Step("logged_out") /\ login_active' = TRUE
  /\ UNCHANGED <<currentDebugCommand, prompts, driver, regs, fault, tables, machine, keyboard, serial>>

get_current_regs ==
  /\ Step("get_current_regs")
  /\ regs_update' = TRUE /\ asked' = snapshot /\ ticked' = FALSE /\ shown' = <<>> /\ inTime' = FALSE
  /\ UNCHANGED <<Session, prompts, scancode, handlers, snapshot, fault, tables, machine, keyboard, serial>>

\* One field of _regs.
Load ==
  /\ Step("load") /\ shown' = Append(shown, snapshot)
  /\ inTime' = IF shown = <<>> THEN ticked ELSE inTime
  /\ UNCHANGED <<Session, prompts, driver, regs_update, snapshot, asked, fault, tables, machine, keyboard, serial>>

serialcom_write ==
  /\ Step("serialcom_write") /\ thr = "empty" /\ thr' = "full"
  /\ UNCHANGED <<Session, prompts, driver, regs, fault, tables, machine, keyboard, uart>>

\* An exception enters isr_handler through an interrupt gate; it never returns.
Fault ==
  /\ Step("fault")
  /\ \E v \in Exceptions : LET frame == Frame(idt[v]) IN
       fault' = [raised |-> v, int_no |-> int_no(frame),
                 message |-> exception_messages[int_no(frame) + 1], eip |-> eip(frame)]
  /\ cpu' = Halted /\ enabled' = FALSE
  /\ UNCHANGED <<Session, prompts, driver, regs, tables, requested, inService, keyboard, serial>>

disable ==
  /\ Step("disable") /\ enabled' = FALSE
  /\ UNCHANGED <<Session, prompts, driver, regs, fault, tables, cpu, requested, inService, keyboard, serial>>

halt ==
  /\ Step("halt") /\ cpu' = IF enabled THEN cpu ELSE Halted
  /\ UNCHANGED <<Session, prompts, driver, regs, fault, tables, enabled, requested, inService, keyboard, serial>>

------------------------------------------------------------------------------
(* A line: what process_command runs for it, or what the login makes of it.  *)
Asleep == <<"wait", "until">>
cmd_regs == <<"get_current_regs", "print">> \o [f \in 1..Fields |-> "load"] \o <<"print">>
cmd_logout == <<"print">> \o Asleep \o <<"print", "logged_out">> \o Asleep \o Asleep
              \o <<"print", "login_prompt">>
cmd_exit == <<"print", "disable", "halt">>
cmd_serial_com_test == <<"serialcom_write", "serialcom_write">>
cmd_trowexception == <<"fault">>
Prints == <<"print">>             \* clear, help, version, and no command at all

commands == <<"clear", "regs", "acpidev", "vgatest", "serial_com_test", "trowexception",
              "kprintf_usage", "memusage", "memtest", "logout", "version", "help", "exit">>
func(c) ==
  CASE c = "regs" -> cmd_regs
    [] c = "logout" -> cmd_logout
    [] c = "exit" -> cmd_exit
    [] c = "serial_com_test" -> cmd_serial_com_test
    [] c = "trowexception" -> cmd_trowexception
    [] OTHER -> Prints

\* memtest runs the command at place 7 around its calls of the heap (KHeap has those).
memusageOffset == 7
cmd_memtest == LET m == func(commands[memusageOffset + 1]) IN m \o m \o m \o m \o m \o m \o m \o m

process_command(l) ==
  IF l \notin ToSet(commands) THEN Prints
  ELSE IF l = "memtest" THEN cmd_memtest ELSE func(l)

Login(l) == IF l = "root" THEN <<"logged_in", "print", "prompt">> ELSE <<"login_prompt">>

RunLine(l) ==
  todo' = (IF login_active THEN Login(l) ELSE process_command(l) \o <<"after">>) \o <<"loop">>

\* The debug queue comes first; then get_command waits for a line.
kernel_main ==
  /\ At("loop") /\ prompts' = {}
  /\ IF currentDebugCommand < Len(Queue)
       THEN /\ RunLine(Queue[currentDebugCommand + 1])
            /\ currentDebugCommand' = currentDebugCommand + 1 /\ UNCHANGED scancode
       ELSE /\ scancode # None /\ RunLine(scancode)
            /\ scancode' = None /\ UNCHANGED currentDebugCommand
  /\ UNCHANGED <<login_active, ticked, handlers, regs, fault, tables, machine, keyboard, serial>>

Kernel ==
  \/ serialcom_init_port \/ gdt_install \/ set_idt_gate \/ outb \/ set_idt \/ enable \/ register_interrupt_handler \/ install_timer
  \/ kbd_discard_last_key \/ Output \/ Wait \/ Woken \/ SetLogin \/ get_current_regs \/ Load
  \/ serialcom_write \/ Fault \/ disable \/ halt \/ kernel_main

Interrupts == (\E v \in {IRQ0, IRQ1, IRQ14} : Interrupt(v)) \/ InterruptReturn

Next == \/ Kernel \/ Interrupts
        \/ PitTicks \/ OtherLine \/ Transmitted \/ \E l \in Lines : KeyArrives(l)

\* The timer ticks on, requests are delivered, and handlers leave time to the
\* kernel: they are far shorter than a tick.
Spec == Init /\ [][Next]_vars
FairSpec ==
  /\ Spec /\ WF_vars(PitTicks) /\ WF_vars(Transmitted) /\ WF_vars(InterruptReturn)
  /\ SF_vars(Kernel) /\ SF_vars(Interrupt(IRQ0)) /\ SF_vars(Interrupt(IRQ1))

------------------------------------------------------------------------------
Waiting == At("loop") /\ currentDebugCommand = Len(Queue)

TypeOK ==
  /\ todo # <<>> \/ cpu = Halted
  /\ login_active \in BOOLEAN /\ currentDebugCommand \in 0..Len(Queue)
  /\ prompts \subseteq {LoginPrompt, CommandPrompt} /\ scancode \in Lines \cup {None}
  /\ cpu \in {InKernel, Halted} \cup 32..47
  /\ snapshot \in 0..MaxLines + Len(Queue) + 1 /\ asked \in 0..snapshot /\ Len(shown) <= Fields
  /\ byte \in Lines \cup {None} /\ typed \in 0..MaxLines

(* kernel_main, logout and the login write the flag and show the prompts in    *)
(* different places: where the kernel waits, the only prompt since the last   *)
(* line is the one of the reader it waits in.                                *)
PromptMatches == Waiting => prompts = IF login_active THEN {LoginPrompt} ELSE {CommandPrompt}

(* "Display register values.": if a tick came between request and first load,  *)
(* every register is of the snapshot that tick took; else each is of that      *)
(* snapshot or of the one before, never turning back to the older.            *)
RegsOfOneMoment ==
  /\ \A f \in DOMAIN shown : shown[f] \in (IF inTime THEN {} ELSE {asked}) \cup {asked + 1}
  /\ \A f, g \in DOMAIN shown : f < g => shown[f] <= shown[g]

(* Whenever the kernel runs no controller waits for an EOI, so no line is      *)
(* blocked by one already served, a slave's included.                        *)
AllAcknowledged == cpu \in {InKernel, Halted} => inService = [master |-> {}, slave |-> {}]

(* Whenever interrupts are on, both controllers are wired and unmasked at their *)
(* vectors, each vector leads to its own stub, and the segments are flat: no     *)
(* word of the controllers' set-up was taken for another.                        *)
VectorsReady ==
  enabled =>
    /\ idtr /\ \A v \in Vectors : idt[v] = v
    /\ pic.master[1] = IRQ0 /\ pic.slave[1] = IRQ0 + 8 /\ pic.master[2] = 2 ^ pic.slave[2]
    /\ \A p \in {"master", "slave"} : pic[p][3] = 1 /\ (Len(pic[p]) > 3 => Last(pic[p]) = 0)
    /\ Flat(KERNEL_CS, 154) /\ Flat(KERNEL_DS, 146)

(* The report of an exception names the vector raised, by number and message,   *)
(* and the instruction.                                                      *)
FaultNamed ==
  fault # NoFault =>
    /\ fault.int_no = fault.raised /\ fault.message = exception_messages[fault.raised + 1]
    /\ fault.eip = "eip"

(* Every line, and the start-up, ends in waiting for the next line, or halts.  *)
Answers == cpu # Halted ~> (Waiting \/ cpu = Halted)

(* A key in the keyboard's buffer is read; one that came before its handler     *)
(* was registered may stay for ever and shut the keyboard up.                 *)
KeysRead == byte # None ~> (byte = None \/ cpu = Halted \/ early)
==============================================================================
