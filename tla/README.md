# InfinityOS: models, checks and proofs

InfinityOS is a 32-bit x86 hobby kernel with its own boot loader, a flat file
table (PRSFS), and three host tools that build and write the disk image. This
directory holds TLA+ modules of the parts that carry its logic, TLC
configurations that check them on small instances, and TLAPS proofs of the
theorems that hold for every value of the constants. Paths below are relative to
`src/`.

    tlc -workers 2 -config MCKHeap.cfg MCKHeap      # one run
    tlapm KHeapProofs.tla                           # the proofs

`PROJECT.json` lists every component, run, mapped definition, known hazard,
finding and theorem.

## 1. Inventory

The kernel is one thread of control, `kernel_main`, interrupted by two handlers
(timer IRQ0, keyboard IRQ1) that run with interrupts off. There are no locks:
what the handlers and the kernel share is plain memory, read and written in
machine words. The boot loader and the host tools are sequential programs whose
difficulty is in failure: sectors that cannot be read, files that cannot be
opened, writes that come back short.

| component | code | state | operations | talks to |
|---|---|---|---|---|
| kernel heap | `kernel/memory/kheap.c`, `kmalloc.c` | list of block headers in RAM, `firstBlock`, `lastBlock`, five totals | `kmalloc`, `kfree` | shell (`memtest`, `memusage`), every caller |
| keyboard driver | `kernel/drivers/keyboard.c` | one-key mailbox `_scancode`, modifiers, lock keys, error flags | IRQ1 handler, `kbd_get_last_key`, `kbd_discard_last_key`, `kbd_key_to_ascii`, `kbd_set_leds` | controller ports, command line input, `getch` |
| command line input | `kernel/kernel.c` `getch`, `get_command` | cursor and buffer | read a line with backspace | keyboard mailbox, `delay`, VGA |
| timer and waits | `kernel/cpu/timer.c`, `kernel/common/helper.c` | 64-bit tick counter, register snapshot | IRQ0 handler, `delay`, `sleep` | everything that waits; `cmd_regs` |
| shell and session | `kernel/kernel.c`, `kernel/shell.c` | `login_active`, debug command queue, user name and password buffers | login loop, `process_command`, `logout`, `exit` | command line input, VGA, heap, timer |
| VGA terminal | `kernel/drivers/vga2.c` | buffer of 499 rows, window on it, cursor, colours | print, wrap, scroll up/down/bottom, clear, echo of keys | everything that prints |
| interrupt dispatch | `kernel/cpu/isr.c`, `idt.c`, `int.asm` | handler table, gates | install, dispatch, EOI, fault report | timer, keyboard |
| descriptor tables, ports | `kernel/cpu/gdt.c`, `ports.c`, `entry.asm` | the loader's table and the kernel's | set-up, `inb`/`outb` | all drivers |
| serial port | `kernel/drivers/serial_com.c` | none | busy-wait write, self test | debug output |
| ACPI | `kernel/acpi/acpi.c` | located table pointers | search for RSDP and RSDT, checksum | boot of the kernel |
| memory utilities | `kernel/memory/memutils.c` | none | copy, fill, compare, RAM probe | everywhere |
| bits, strings, numbers, formatting | `kernel/common/*.c` | none | conversions, `snprintf`, `printf` | everywhere |
| boot loader | `boot/*.asm`, `boot/*.inc` | disk geometry, retry counters | find a file in the table, read its sectors, switch mode | the file table that `prsfs` wrote |
| file table tool | `prsfs/` | table of entries with sector ranges | add an entry, write table and files | boot loader, disk image |
| image tools | `imagefs/`, `imgwrite/` | sector counts, offsets | build the floppy image, copy it to a device | `prsfs` output |
| HPET, far pointers, vendored headers | `kernel/drivers/hpet.c`, `kernel/common/farptr.h`, `libs/` | none | none that the kernel calls | none |

What is hard, and what correctness means, component by component:

* **kernel heap.** A sequence of calls, not a race, breaks it: blocks are joined
  while the list is walked, the last block moves down, and the joining loop reads
  one header past the end of the list. Correct means: no two callers and no header
  ever overlap; a block is in use exactly while somebody holds it; the search
  ends, and finds a run of free blocks if there is one; the totals agree with the
  blocks.
* **keyboard driver.** Bytes of several meanings (make, break, prefix,
  acknowledge, resend) share one path, and the handler talks back to the
  controller with interrupts off. Correct means: modifiers follow the keys,
  the LEDs follow the locks, the handler always returns.
* **command line input.** IRQ1 falls between any two steps of the kernel.
  Correct means: keys are returned in order and at most once, none is thrown away
  unread while it waits, the line is what was typed, and the buffer is not
  overrun.
* **timer.** The counter is wider than a machine word and the seconds it yields are
  zero most of the time. Correct means: a wait ends, not early and not late.
* **shell and session.** `logout` and the login loop write the same flag across
  sleeps, the debug queue injects commands, the register snapshot is taken by the
  timer handler. Correct means: no command runs without a login, and what a
  command prints is one moment's state.
* **VGA terminal.** Cursor, buffer row, window top and the memory-mapped screen
  must agree after any mix of printing, wrapping, backspacing and scrolling, also
  at the end of the buffer.
* **interrupt dispatch.** Interrupts are enabled before the handlers of the devices
  exist; an EOI that is not sent ends all interrupts.
* **boot loader.** Five attempts per sector with a reset in between; the last
  sector of a track; a table that does not hold the file. Correct means: it
  boots what the table describes, stops, or (when the search finds nothing) starts over.
* **file table and image tools.** A file that fails to open, a size that is no
  multiple of a sector, a short write. Correct means: the boot loader finds at
  the place the table names the bytes that were put there.

The list of hazards, each at its line and with the properties that would catch it,
is in `PROJECT.json`.

## 2. Modules

| modules | model | abstract specification | checked by | proved in |
|---|---|---|---|---|
| `KHeap` | heap | `Allocator`, refined by `KHeap` | `heap`, `heap_phantom` | `KHeapProofs` |
| `Keyboard`, `Console` (extends it) | keyboard driver under the line reader | the editing of a line as a function of its keys | `console_*` | `ConsoleProofs` |
| `Timer` | tick counter, `delay`, `sleep` | none | `timer` | `TimerProofs` |
| `Vga` | terminal: buffer, window, cursor, scrolling | `Terminal`, a roll of rows, refined by `Vga` | `vga` | `VgaProofs` |
| `Kernel` | start-up, login, commands, under its interrupts | none | `kernel` | `KernelProofs` |
| `Image`, `Boot` (extends it), `ImgWrite` | the tools that build the floppy; starting from it; copying it | the files given to `prsfs` | `image`, `image_retry` | `ImageProofs`, `ImgWriteProofs` |
| `Numbers` (extends `MemUtils`), `Format` (extends it), `Copies`, `Bytes` (both extend `MemUtils`), `Acpi`, `Names` | formatted output, copies, bytes, ACPI search, file names | what the documentation of each says | `library` | `LibraryProofs` |

`MCKHeap`, `MCConsole`, `MCKernel`, `MCImage` and `MCLibrary` hold what TLC needs:
keys, files, lists of tables. The last two also put independent machines side by
side: `part` chooses one in the initial state and the others rest, so their
states add up instead of multiplying.

Each module takes from the others only what its own questions need. `Console` has
the reading of a line, key by key, and so `Kernel` may take a line as one key.
`Timer` has how long a wait lasts, and in `Kernel` it is over after some tick.
`KHeap` has what `memtest` does to the heap, and in `Kernel` `memtest` is eight
lists printed. `Image` leaves on the floppy exactly what `Boot` starts from.

Section 12 lists what is proved and what stays with TLC.

## 3. The heap

### Correspondence

`KHeap` keeps the headers as a function from address to `[next, used]` whose domain
is the set of blocks on the list; the memory between headers is not represented,
except that reading a header where there is no block gives any member of
`Garbage`. `heapInitialized`, `firstBlock`, `lastBlock` and the totals `kheapMem`
are the code's. `live`, the pointers callers hold with the sizes they asked for, is
history for the properties.

A call of `kheap_addBlock` is a sequence of steps over `pc`, because the loops
are where the mistakes would be: `AddBlock` (entry, lines 134-148), the outer
loop `ScanEnd`/`ScanFit`/`ScanSmall`/`ScanUsed` (66-84), the inner loop
`MergeStep` (85-95), its three outcomes `MergeJoin`, `MergePhantom`,
`MergeGiveUp` (97-120), and `PlaceNew` or `PlaceReused` (149-198). `FreeBlock` is
`kheap_freeBlock` (205-215). Size arithmetic is modulo `WORD`, as `size_t` is.

The inner loop tests its condition on the block it stands on, so from `lastBlock` it
takes one more step, to the address where the next block *would* start. What
is read there is old RAM. If it looks like a free block it can complete a run,
and the code then writes a wild `nextBlock`: the model ends such a history in
`pc = "corrupt"`, because the code from there on follows pointers that are no list.
Every property of the list is therefore conditional on `pc # "corrupt"`, and the
run `heap_phantom` shows how near that state is: `kmalloc(1)`, `kfree`,
`kmalloc(3)` over zeroed RAM.

### Runs

* `heap` (`MCKHeap.cfg`): three sizes, all four combinations of the two flags of
  `kheap_addBlock`, RAM past the end that holds nothing, a used, a one-byte or a
  huge block, and addresses up to 54 with real five-byte headers. That fits
  six smallest blocks, hence runs of free blocks of length up to six, joins at the
  front, in the middle and at the end, and joins of joined blocks. `MemTop` is
  the only bound: a request that would push the heap past it is not made. The
  largest size exceeds the smallest blocks by more than a header, so a request
  may need three blocks. `CHECK_DEADLOCK FALSE` is there because `MemTop` ends the
  requests and `corrupt` ends the model.

  It shows: callers never overlap each other or a header (`NoOverlap`); the totals
  between calls are those of the blocks (`TotalsAddUp`; `heapSpaceAllocated` may stay below the blocks' space,
  see section 10); the walk of `memusage`, which goes by addresses up to `lastBlock`,
  shows every block once and nothing else (`MemusageShowsAll`); the heap grows only if no run of free blocks would do
  (`GrowsOnlyWhenFull`); no step but the holder's `kfree` touches a block in use
  (`HeldUntouched`); the search ends (`Answered`, under weak fairness of the
  kernel's own steps: nothing can stop straight-line code with no wait in it); the
  heap implements `Allocator` (`ImplementsAllocator`).
* `heap_phantom` (`KHeapPhantom.cfg`): `JoinsEnough` is violated.

### Proofs

`KHeapProofs` proves, for every header size, heap bound, set of sizes and flags,
word size and content of RAM, from `KHeapAssumption` alone (the one real restriction
is `MemTop + H + 1 < WORD`: the heap ends before the address space does):

| theorem | says |
|---|---|
| `Invariant` | `IInv` is invariant; the run checks it too |
| `TypeCorrect` | every variable keeps its type; no size computed by the search is negative |
| `CallersApart` | `NoOverlap` |
| `HoldersKnown` | `HeldIsInUse`: blocks in use and callers agree (not in the run, where `IInv` stands for it) |
| `HeldUntouchedAlways` | `HeldUntouched` |
| `Refinement` | `ImplementsAllocator`, the implementation of the abstract allocator |
| `TotalsAgree` | `TotalsAddUp` |
| `SearchComplete` | `GrowsOnlyWhenFull` |
| `MemusageComplete` | `MemusageShowsAll` |

`NoOverlap` is not inductive: it says nothing of where a new block goes, nor of what
the join may swallow. `IInv` has two halves. `ListInv` is about the list. `Chain`: blocks ascend, each next
pointer names the next block, the last one the frontier. `Holders`: pointers and
used blocks correspond, with room for the size asked for. `SearchOK`: what the
search knows where it stands; its heart is the equation
`NextFor(cur, sum + count * (H + 1)) = nxtHdr.next`, which ties the sum of sizes to
addresses and makes the recomputed next pointer of a joined last block agree with
the frontier it replaces, less the spare byte of each joined block.

`CountsInv` is about what is counted. `RunSummed`: `sum` and `count` are the sizes and the number
of the free blocks from `cur` on, and past the last block, where a header nobody wrote may
have been added, they are known to have been too small before it. `Searched`: no run of free
blocks that begins below `cur` holds the request. `Accounts`: the totals at every step, in
the middle of a join too, where the count of blocks is already that of the joined list
and the headers gained (`inc`) are not yet space. `GrowsOnlyWhenFull` and `TotalsAddUp` are
`Searched` and `Accounts` where the search ends.

Both halves are proved with one lemma per action. Sums over sets are recursive in the library; what
they obey (`SumOne`, `SumBoth`, `SumMore`, `SumSame`) is proved first, by induction over the
subsets of a finite set. The library's induction theorems take a predicate as a
parameter, which the provers cannot instantiate; `RemovingOne` takes the set of the subsets
for which the claim holds, and is proved from the least size of one for which it does not.

`Answered` needs fairness and stays with TLC.

## 4. Keyboard and command line

### Correspondence

`Keyboard` holds the device (keys held, the queue `wire` of bytes it has to deliver),
the controller (`cmdByte`, its one-byte input buffer), and the driver
(`scancode`, `shift`, `ctrl`, `alt`, `capslock`, `scrolllock`, `resend`).
`KeyboardCallback` is the whole handler on one byte, with the sign extension of
`kbd_enc_read_buf` that keeps 0xE0 from ever being recognised, the release path
that prefix and answer bytes therefore take, and table indexes past the 89 entries of
`_kbd_std_table`, which read `BeyondTable`: memory the linker chose. A code maps to the
class of its `KEYCODE`: the driver tells only those apart. A lock key
leaves the handler in `cpu = "led1"`, and `SetLeds` performs the two
`kbd_enc_send_cmd`, each of which halts the processor for good if the controller is
still full (`hlt` with interrupts off). `Press`, `Release` and `TakeCommand` are the
user and the hardware.

`Console` adds the kernel: `GetchPoll` and `GetchDiscard` are the two steps of
`getch`, `Handle` the body of the loop of `get_command`, `PauseEnds` its three-tick
delay and loop test, `CommandEnds` the terminator and the return. Characters are
`[code, upper]`, classes of keys stand for the ASCII table. `arrived`,
`boxStamp`, `keyStamp` and `line` are history: which key is in the mailbox, which one
was returned, and what was handled.

### Runs

* `console_edit`: a letter, shift, backspace and enter; a buffer of three; four
  presses; at most two bytes queued before the user waits. Shows that the buffer
  holds the edited line (`CommandIsEdited`), keys come in order and once
  (`KeysInOrder`), and a waiting key is taken (`MailboxEmptied`). Four presses fill the
  buffer and leave one for backspace or enter; two queued bytes allow a key to
  arrive between any two steps of the kernel.
* `console_keys`: a letter, shift, right control (prefixed), left Windows (past the
  table) and caps lock, with `BeyondTable` chosen against the driver, and one
  byte the keyboard may refuse. Shows that no modifier stays on once all keys are
  up (`ModifiersRelease`), and that the caps light agrees with caps lock when the
  keyboard understood both bytes (`CapsLedFollows`).
* `console_discard`, `console_halt`: see section 10.

A line that fills the buffer ends without return and its terminator goes one byte past
the buffer (`kernel.c:93`). `CommandIsEdited` says what the buffer holds in that case too.

Fairness: bytes queued are delivered (`WF(KeyboardCallback)`: interrupts are on
whenever `cpu = "fg"`), the controller takes command bytes, the handler and the kernel
run on. All are weak, over one processor that never stops except in `halted`.
`console_halt` is a counterexample under exactly this fairness.
`CHECK_DEADLOCK FALSE`: the user stops typing at `MaxMakes`.

### Proofs

`ConsoleProofs` proves, for every set of keys, every content of the memory past the
table, every buffer size and all bounds:

| theorem | says |
|---|---|
| `Invariant` | `IInv` is invariant |
| `TypeCorrect` | `TypeOK`; the LED byte is any byte, for after a refusal the keyboard may take the command byte 0xED for it |
| `NothingSticks` | `ModifiersRelease` |
| `LightFollows` | `CapsLedFollows` |
| `Ordered` | `KeysInOrder` |
| `Edited` | `CommandIsEdited` |

None of these properties is inductive. A modifier that is on with no byte queued and no
key down is one step away from a state with a break byte still queued, so `IInv` says
of *every* state what will take the flag back (`Taken`): for a flag that is on, and
for each make code still in the queue that will switch it on, there is a key of that
class still down or a break byte behind it. `BeyondTable` does not disturb this, because
a byte of a class is judged by what the driver makes of it, whoever sent it. `OnTheWay`
says where the command byte and the LED byte are at each point of the handler while no
byte was refused. `Stamps` orders the key in the mailbox after the last one
returned, except between the two steps of `getch`. `Room` is what the types need: `getch` is
called with room in the buffer.

`CommandIsEdited` says what the buffer holds when the line is done; `LineEdited` says it at
every moment: below the cursor, the buffer is `Edit(line)`. A step that handles a key
needs one fact about the fold, that editing one more key is `Typed` applied to the edit of
the others. The library's fold chooses a function by a recursion over sets of places, so
the proof first shows that such a function exists for every table of steps
(`RoundsExist`), by `Counting`, the induction that the well-foundedness of the natural
numbers gives for a set, and then that the choice agrees with it place by place.

## 5. Timer

### Correspondence

`Timer` counts ticks; `get_timer_ticks` is two loads of one word each in either
order (`LoadWord`), because the counter is 64 bits wide and the kernel 32-bit code
with interrupts on. `Call`, `SetTarget`, `PollAgain` and `Return` are `delay` and
`sleep`, which differ in `Measure`. `get_timer_seconds` is `Seconds`: zero unless the
tick is a whole second. `torn` remembers that a carry of the low word fell between
two loads of the wait that runs: the one event after which a wait may be anything.

A `Tick` requires that a waiting kernel has completed one read since the last tick
(`polled`): the loop is a dozen instructions and a tick a millisecond. Without that a
sleep could miss its second for ever.

### Run

`timer`: delays of 1 and 3 ticks, sleeps of 1 and 2 seconds of 4 ticks, called at
every tick of an uptime of 50, with words of ten values: the low word carries five
times, a wait begins at every distance from a carry and at every phase of a second.
Waits end, a sleep does not miss the single tick its second shows in (`WaitEnds`);
none is late (`NotTooLong`); a delay is not early (`DelayLongEnough`); a sleep ends
within the tick of a whole second of uptime, not before its n-th, and lasts
n seconds only if the counter showed a second at the call (`SleepEndsOnSecond`). The
last is what the code keeps of "Sleep for a specific number of seconds": called
between two seconds, `get_timer_seconds` is 0 and `sleep(1)` returns at the next
whole second. Each of the four excuses a torn load by
name, `WaitEnds` only for a sleep, and nothing else. Fairness: the
timer ticks (`WF(Tick)`) and the kernel runs (`WF(Wait)`). `CHECK_DEADLOCK FALSE`:
`MaxTicks` ends the uptime.

### Proofs

`TimerProofs` proves, for every word size, second, uptime and set of arguments, from
`TimerAssumption` (an uptime fits in two words; no `delay(0)` and no `sleep(0)`, which the
kernel never calls: a `delay(0)` may take two ticks, one for each of its reads):
`TypeCorrect`, `DelayNeverShort` (`DelayLongEnough`), `NeverTooLong` (`NotTooLong`) and
`SleepOnSecond` (`SleepEndsOnSecond`).

What a wait returns on depends on two loads made at different ticks. `IInv` ties them to
the counter: `LoadsFresh` says that, unless torn,
the words loaded so far are those of one tick since the call, this one or the one
before, and that the word still to come will be too; that needs `polled`, which bounds
how far apart two loads can be. `TargetAhead` says how far the target lies behind
`began`; `IdleRests` and `WaitIsKnown` tie the rest of the state to `pc`. The arithmetic of
division that SMT cannot do by itself (a value below `W * W` is its two words;
neighbours share their high word unless one carries) is in lemmas of its own.

That no wait is too long is about what did *not* happen: `ReadsAtOnce` says that the read
a target is set from begins in the tick of the call or the next, and `NoneMissed` that none of
the ticks since, each of which got a whole read of its own, would have ended the wait. The
tick that ends it exists within the bound (`EndsInTime`), so it is at most the
one after it that finds the wait still running.

`WaitEnds` needs fairness and stays with TLC.

## 6. Terminal

### Correspondence

`Vga` has the screen and the buffer as functions from offsets (`row * W + col`, as
the code addresses them) to cells. A character is its serial number, so any two rows
differ; `Blank` is a painted space, `Unset` a cell of the buffer's zeroed memory.
`bufRow`, `bufCol`, `scrollPos`, `scrollMax`, `linesCleared` are the globals
without their prefix; `saved` is the saved cursor as one offset. Of the keys `get_command` hands to
`vga_on_key_pressed` two do something, the page keys; the arms of the arrows are empty.
`VgaAssumption` says that a typed line fits on the screen (the code's 100 characters on
24 rows of 80): a line longer than that could be erased back past the first cell.

The kernel's printing and `get_command`'s echo call `vga_print_char` for one character
at a time; each call is one step, with the `vga_scroll_bottom` it may begin with
(`Shown`, `Here`, `Window`) and the `vga_scroll_down(true)` it may end with
(`MakeRoom`). `PageUp` is `vga_scroll_up`, `PageDown` is
`vga_scroll_down(false)`, and `Clear`, `ClearRow`, `ClearEnds` are
`vga_clear_screen`, one step per row. `mode` keeps the order of `kernel_main`: the kernel
prints and clears, shows a prompt, and then keys are typed, erased and scrolled until
return. Every caller clears at the start of a line, and a prompt never wraps.

`Terminal` is what a user relies on: a roll of rows, the last `Keep` of them readable.
`ImplementsTerminal` maps it to the rows of the buffer.

Three events set the counters apart for good, and `strayed` remembers them:

* `backspace`: erasing at the start of a wrapped row makes `bufCol` -1; cell and cursor
  still agree, but the next wrap counts a row that was already counted;
* `bottom`: `vga_scroll_bottom` with the cursor in the middle of the screen, which is
  where it is after a clear, copies the wrong rows;
* `full`: once the buffer is full, a new row in the middle of the screen (again after
  a clear) has no row of the buffer to go to, and clearing discards rows without
  moving the window.

### Runs

* `vga`: rows of three cells, a screen of three rows, a buffer of six (the code's two
  pages or more), nine characters and line feeds, three characters typed. Six line
  feeds fill the buffer and push the first row out, which leaves a prompt of two and
  a typed character that wraps; a clear costs one. Shows, as long as none of the
  three events has happened: the screen is the window on the buffer that
  `scrollPos` says, also while paging after a clear (`ScreenIsWindow`); the next
  character goes to the same cell of both (`CursorFollows`); nothing printed is lost
  from the roll (`ImplementsTerminal`). The bounds of every counter hold even after
  them (`TypeOK`). No liveness: the terminal only reacts.

### Proofs

`VgaProofs` proves, for every size of screen and buffer, every length of output and of line:

| theorem | says |
|---|---|
| `Invariant` | `IInv` is invariant |
| `TypeCorrect` | `TypeOK`: every offset computed from the counters is on the screen or in the buffer, strayed or not |
| `Follows` | `CursorFollows` |
| `IsWindow` | `ScreenIsWindow` |
| `Refinement` | `ImplementsTerminal` |

`IInv` has two halves. `Bounds` holds whatever has happened: the view is scrolled back exactly
while a cursor is saved (`Saved`); the buffer's column is never right of the
screen's and is below zero by no more than was typed (`Columns`); the window does
not pass the last row printed to (`Rows`). `Agreeing` holds until the first of the three
events: the row and column of the cursor are those of the buffer (`Together`); nothing
is printed behind them (`BlankBehind`), which is why a new row need not be blanked; the
screen is the window at `scrollPos` (`WindowOn`). Its fourth part, `Cleared`, is what makes
paging after a clear right, and took longest to find: `vga_scroll_down(false)` decides
from `linesCleared` whether the row that comes in is copied or blank, and the decision is
right because the rows above the window were all cleared, or the cursor is at the bottom,
or at least a screen less one row was cleared (`IncomingRow`). Offsets are rows and
columns by the lemmas at the beginning of the module (`Split`, `Unique`, `Behind`, `Shifted`).

The refinement reads the roll off the buffer. A character is `Write`, a row that ends
appends a blank row and drops the first if the buffer is full (`RollBegun`, `RollLifted`),
a backspace is `Erase`, clearing and paging leave it alone, and an event is `Garble`.
TLC checked `IInv` on five sizes of screen and buffer before it was proved.

## 7. Kernel and interrupts

### Correspondence

The kernel is one thread, so `Kernel` keeps it as `todo`, the list of steps it still has
to do, each a string named for what it does. `kernel_main` takes the next line, first from
the debug queue and then from the mailbox, and puts the steps of its command in front;
`func` gives them per command, `Login` what the login makes of a line. A step is the
largest piece of code in which an interrupt changes nothing: `login_active` is written
by one, each field of the register snapshot is loaded by one, each byte sent to the
serial port waits for the transmitter in one.

The hardware below is in the module too, because what the code does right depends on
it: the two 8259 controllers latch requests (`Latch`), deliver the highest one not
blocked by a line in service (`Deliverable`), the slave's through the master's line 2,
and wait for an end of interrupt per controller (`Eois`); the keyboard raises its line
only when its buffer was empty; the timer ticks. `Interrupt` is delivery, the stub and
the dispatch of `irq_handler` to whoever registered, `InterruptReturn` the ends of
interrupt and `iret`. `isr_install` is the list of its own steps: a controller takes the
words of `Remap` by their order since its reset (`Programmed`), may forget edges at the
reset (`Forgets`), and `idt` says which stub a gate leads to. The descriptor tables are
those of the loader and of `gdt_install`, field by field, and `Flat` is what the processor
makes of a selector. `Frame` is the stack as the processor, the stub and `pusha` leave
it, word by word, and `int_no` and `eip` are the places where `registers_t` looks.

### Run

`kernel`: the debug queue of `kernel.c`, two typed lines of any kind (a login, `regs`,
`logout`, `exit`, the serial test, a fault), the timer, the keyboard and one line nobody
serves on the slave, exceptions with (13) and without (0) an error code, two
registers. The first line logs in from the queue, so two typed lines are enough for
a logout and a second login, for `regs` twice, for a key during `logout`'s sleeps, and for
either of them with any tick anywhere.

| property | says |
|---|---|
| `VectorsReady` | whenever interrupts are on, both controllers have their vectors, wiring and masks, every gate (of the vectors the run can raise) leads to its own stub, and the segments are flat |
| `PromptMatches` | where the kernel waits, the one prompt shown is that of the reader it waits in, though `logout`, the login and `kernel_main` each show prompts and write the flag on their own |
| `RegsOfOneMoment` | the registers shown are of one snapshot if a tick came before the first was loaded; else of that one or the one before, never turning back |
| `AllAcknowledged` | while the kernel runs no controller waits for an end of interrupt, also after a line nobody serves and after the slave's |
| `FaultNamed` | the report of a fault shows the vector, the message of that vector and the instruction, whatever number of words that vector pushes |
| `Answers` | every line, and the start-up, ends in waiting for the next line or in a halt |
| `KeysRead` | a key in the keyboard's buffer is read, except one that came before its handler was registered |

Fairness. Ticks keep coming, the transmitter empties, a handler returns (weak). The
kernel, IRQ0 and IRQ1 are strongly fair: each is disabled again and again by the others,
but a handler takes microseconds of a millisecond, so none is kept out for ever. A
tick is not raised while the last one is handled (`PitTicks`), for the same reason.
`CHECK_DEADLOCK FALSE`: `exit` and a fault halt.

The exception in `KeysRead` is the code's: `isr_install` enables interrupts before
`irq_install` has registered anybody. A key of that moment is acknowledged and its byte
left in the controller, which then raises no further edge: the keyboard is dead.

### Proofs

`KernelProofs` proves the five safety properties for every debug queue, every set of
lines, every set of exceptions and every number of registers: `Acknowledged`,
`RegistersAgree`, `Ready`, `PromptOfReader`, `FaultReported`. None is inductive; what the
invariant `IInv` adds is

* `OnlyThatOne`: a controller waits for the end of exactly the interrupt whose handler
  runs. `Deliverable` then allows no second one, and the ends of interrupt of the handler
  leave nothing in service;
* `Snapshots`: since the kernel asked, at most one snapshot was taken, none while the flag
  is up; while registers are still to be loaded, a tick that came has taken it. What was
  shown so far is of the one before and then of that one, never turning back;
* `Program`: the kernel is at the k-th step of the start-up, with the tables, gates and
  controller words of that place (`Tables`), or, the tables finished, at the k-th step of
  the login, a refused login or `logout`, or in what is left of another command, each
  with the flag and the prompts of that place. Where the two readers are reached, flag and
  prompt agree because each script leaves them so, though no single step does;
* `FaultKnown`: the report is that of the vector raised.

`Program` has the kernel's scripts in it word by word, as it must: `PromptMatches` is
about the order of their steps. `Kernel!TypeOK` is not proved: its bound on snapshots
counts the requests of a run. `Answers` and `KeysRead` are liveness.

## 8. Library

`Format` is the loop that `kprintf`, `dskprintf` and `snprintf` share, one turn a step:
text up to the next `%`, or a conversion, with the look-ahead that notes a width one turn
early. `Numbers` has the conversions, with the move inside the buffer that pads a
number; that and all copies are `MemUtils`, where a copy is the sequence of its stores.
`Copies` says what a copy is for, `Bytes` has bits, binary sums, checksums and fills, and
what they and the dump of `MemUtils` are for, `Acpi` the search for the
descriptor and what is followed from it, `Names` the file names of `prsfs`.

`library` enumerates the inputs:

* formats of up to three of nine tokens, on the screen and into buffers of 4 and 12
  bytes, with positive, negative and long arguments, an empty string and one with byte
  255. A call prints what the documentation says (`FormatsAsDocumented`) and returns
  (`Returns`), unless the format falls under `Irregular` or `Hangs`, which name each
  departure with its cause; three tokens make every look-ahead fall before, between and
  after conversions;
* copies of up to 9 bytes, two words and a rest, from any to any of ten addresses: every
  alignment and every overlap (`MemoryMoves`); fills and dumps of the same regions, and sums
  of up to three bytes of three bits in arrays that have room for them and that have not
  (`BytesAddUp`);
* every area of six bytes over two values, for a signature that overlaps itself, with
  every content of the uninitialised window (`SearchIsExact`), and root tables with zero
  to three FADTs (`FadtsDumped`);
* names of six to eight letters and extensions of none to five (`NamesComeBack`).

Nothing here runs concurrently; `Returns` has weak fairness of the loop's own steps.

### Proofs

`LibraryProofs` proves four of the properties.

`FindsFirst` (`SearchIsExact`), for every area of bytes, every signature and every content
of the uninitialised window: the address found is the first one where the signature
stands in full, and "missing" is said only when there is none. `AcpiAssumption` asks what
the code has: the signature is not empty and has no NUL in it, and the window is as long as
the signature. The invariant says of the scan that the window holds the bytes before the
address reached (`Window`) and that no signature ended before it; from the find on, that
the address is the least. `CompareExact` is `kstrcmp` on texts of one length: 0 if and
only if every byte agrees, by the least place where the loop stops; `Least` gives that place
by the well-foundedness of the natural numbers.

`DumpsFadts` (`FadtsDumped`), for every root table: `Listing` says that the report lists
the matching tables among the entries already followed, each once and in order.
`BeginsExact` is the comparison of a four-letter signature with one that is part of a
longer text. `SignatureAssumption` asks what the code has: the signature sought has four
letters, no NUL among them, and they do not sum to zero in a byte. The last is
needed because the code takes the checksum of a header over its first four bytes, which are
the signature, and refuses a table where it is zero; the letters of "FACP" sum to 282.

`NameComesBack` (`NamesComeBack`), for every name of six to eight letters, every
extension, every alphabet and every memory behind the name: `StemEndIs` and `CStringIs`
give the place where a loop over a text stops, `FieldIs` the eleven bytes that
`convert_filename` fills in, `PrintedIs` what `get_filename` makes of them.

`CopiesMove` (`MemoryMoves`), for every pair of addresses, every size and every overlap
inside the memory (`CopiesAssumption`). A copy is a fold of its stores, and the fold
lemmas repeat those of section 4. `StoresFollow` says that the stores of an upward copy
follow one another without a gap, words first, and how far the first of them reach; then
the memory after k stores is `Part`, the source up to there and the old bytes behind,
because what the next store reads has not been overwritten (`ReadsFirst`). `CopyUp`,
`DefaultUp` and `CopyDown` are this argument for plain copies, for copies that
replace zeros and for the one from the end.

`FormatsAsDocumented` and `BytesAddUp` stay with the run: the one is a loop that converts
numbers, whose digits are a recursion over data, the other is arithmetic in bits, a
module the provers cannot read.

## 9. Image and boot

### Correspondence

`Image` is the disk rule of the Makefile: `imagefs c`, `imagefs w`, `prsfs`, one step per
sector, entry or file. A cell of a file is named by the file and its number, so that a
wrong place shows. Each write may stay short or fail, `MaxFaults` times in all. A stage 1 that
cannot be opened or sought in stops the build (`OpenStage1`); no other fault reaches an exit
code, so the next tool runs. `Boot` starts from the image: stage 1 reads
the table and stage 2 sector by sector, `ReadFails` counting down the attempts;
`FindStage2` and `FindKernel` are `load_file` with its end test on low memory
(`lowZero`). Stage 1 jumps to what it has read: to stage 2 (`RunStage2`), to something else
(`RunAstray`), or, if `load_file` has found nothing and left 0 as the sector, to a copy of
itself, whose first jump is to the original, so that all begins again (`StartOver`,
`stage1.asm:16`). The BIOS starts only a floppy that begins with a whole stage 1
(`Stage1At`). `ReadKernel` is the one request of stage 2, which takes one byte of the sector
number and one of the count (`LowByte`, `stage2.asm:47` and `50`); what a BIOS refuses
otherwise (more sectors than it reads at once, a boundary of 64 KiB) is among the failures.
Any read may fail, any number of times. The table in memory is 56 sectors behind stage 2's
place; a longer stage 2 would overwrite it while it is read, and `BootAssumption` leaves it
out (`Room`). The 16-bit fields of the table hold numbers of any size. `ImgWrite` is the copy loop with its short writes and the comparison.

### Runs

* `image`: sectors of two cells, nine lists of files (in both orders, with one between, with
  the first or a middle one missing, without `stage2`, with an empty file, with a kernel of
  nine sectors, with one that begins at sector 8), bytes of eight values so that these two
  do not fit, two sectors in
  front of the table and a stage 1 of one, three or four cells (part of a sector, one and a
  part that is cut off, two), one lost write, three low memories, two attempts; and inputs of
  zero to seven bytes copied in chunks of two, so zero to three chunks and a rest. Two
  attempts tell a retry from none; one lost write in any place is enough for a
  file's place to be wrong from there on. Shows: whatever went wrong, files before it are whole and where the
  table says, and so is the table on the image (`TableTellsTruth`); stage 1 never runs a stage 2 read in part, nor itself, if `load_file` finds
  stage 2, and a kernel whose request was answered is whole where its sector number and
  count fit in a byte, and cut off where the count does not (`RunsWhatWasBuilt`); starting
  ends, unless `load_file` has found no stage 2 and stage 1 runs itself (`BootEnds`: from
  there on it goes round for ever, since floppy and low memory do not change, or halts on a
  sector that cannot be read); "Successfully copied and verified." is true (`SuccessMeansCopied`),
  and the copy ends (`CopyDone`). Fairness: the tools and the loader run on
  (`WF(Build \/ Start)`, `WF(Run)`), a write does not stay short for ever
  (`SF(CopyWhole)`). `BootEnds` assumes nothing of reads: attempts are counted.
* `image_retry`: see section 10.

### Proofs

`ImageProofs` proves `TableTellsTruth` (`FloppyAsBuilt`) and `RunsWhatWasBuilt`
(`StagesRunWhole`, with the limit of one byte in it) of `FloppySpec`, building once and starting, for every size of sector,
table and file, every list of files, any number of lost writes, failed reads and attempts.

The first does not carry itself: it speaks of a finished floppy. `IInv` says what is true
on the way. `TableRight` and `EntryInTurn`: up to the first missing file each entry filled
begins where the one before ends, and `start` is the next free sector. `FilesWritten`: a
file passed while nothing was damaged is whole and ends at or before the offset, so no later
write reaches it; likewise the table. `FileInTurn`: in the file in turn, offset, `pos`,
`nsect` and `total` agree and the last chunk is the short one, from which `Padding`
brings the offset to the next entry's start. `Stage1Copied` and `Stage1Stays` say
the same of stage 1. A damaged file frees everything behind it from the claim, not the
table before it.

`BInv` continues after power is on. The sectors of the table before `lba` are in `tableMem`;
the sectors of a clean file before `lba` are in `mem`, and `lba + cx` is its end
(`OnTheWay`), through any number of failed attempts and of starts over. `LowBytes` and
`TooFew` are the arithmetic of the request: a number below 256 is its own low byte, and
fewer sectors than a file has cannot hold it. `Finds` is the search of `load_file`: a clean
file is the first of its name, its entry is in the part of the table that low memory does
not hide, and the entry found is its own. That takes the two names to keep their letters in
`convert_filename`, which names of six letters do (`BootAssumption`).

The attempt at this proof found `TableTellsTruth` false as it was first stated, for a
stage 1 that fits in front of the table and has a last sector in part: `write_sectors`
rounds it down and cuts that part off (`imagefs/main.c:94`). With one sector in front of the
table no run could meet the case. The condition is now that of the code
(`SectorsOf(boot) <= BootSectors`), and the run has two sectors there.

`ImgWriteProofs` proves `SuccessMeansCopied` (`Copied`) for every buffer size and every
input, where at most one read fails, the bound of the run. A failing read looks like the end
to either loop, so the message takes more than a comparison: `IInv` says that the device
always holds a beginning of the image (`Begins`), that both files are at one position,
that what was copied is counted, and that "success" after at most one failed read means equal
lengths. `CopiedUnlessTwoFail` is the same without a bound on `MaxErrors`. The condition is
the code's: a first failure can end the copy early and a second one the comparison, just
where the counts agree.

## 10. Where code and comments disagree

Runs that end in a counterexample, by intention:

| run | property | what happens |
|---|---|---|
| `heap_phantom` | `JoinsEnough` | the joining loop takes a header past the last block for a free block |
| `console_discard` | `DiscardsWhatItReturns` | a key that arrives between poll and discard of `getch` is lost |
| `console_halt` | `SendEnds` | caps lock with a slow controller halts the machine in the handler |
| `image_retry` | `ReadIsRetried` | stage 2 runs the kernel after one failed read |

Met while reading, and visible in the definitions:

* heap: `kheap_addBlock` hands `true` to the search whatever its `mergeFreeBlocks` is
  (`kheap.c:148`); joining in the middle of the list leaves `heapSpaceAllocated` one byte
  per joined block short (`JoinGain`, `kheap.c:104`).
* keyboard: `kbd_set_leds` overwrites its data, so only caps lock decides the LED byte
  (`LedData`); a resend answer (0xFE) has become 0x7E when the switch looks for it
  (`Watch`); shift is the one of the moment a key is converted (`ToAscii`).
* line input: a line that fills the buffer is terminated one byte past it (`kernel.c:93`).
* timer: `install_timer(1193)` divides the clock by 1000, so a tick is 0.838 ms where the comment
  says 1 ms, and a "second" of 1000 ticks 838 ms; `sleep` returns at the next whole second (`Seconds`); a tick between the two
  loads at a carry ends a delay early (`torn`).
* terminal: typing while scrolled back after a clear brings up the wrong rows
  (`BottomScreen`).
* kernel: a key before `irq_install` (section 7); a snapshot is of the registers in the
  handler; the serial port stays in loopback if its self test fails, and the result
  is ignored (`serialcom_init_port`, `kernel.c:111`).
* formatted output (`Irregular`, `Hangs`): `%%` at the beginning prints nothing of its own; a
  digit as second character hangs; a width right behind another conversion, or without a
  leading 0, is not read; padding loses digits of a negative number, or of one whose ends are both aligned; `%u`
  reads two words on screen and port; `%X` prints small letters in `snprintf`; byte 255
  ends a string on the screen; a full buffer has no terminator.
* memory: `memcpy_16` copies twice what is not copied in words, `memcpy_def` replaces
  zeros there only, `memset` stores words if its value is more than a byte.
* ACPI: a signature that ends with the area is missed, one may be found that begins in the
  stack's leftovers (`SearchIsExact`); the header tests are inverted and one is over four
  bytes (`CheckRoot`, `Follow`, `acpi.c:185` and `205`); four entries are
  followed whatever the length.
* boot: stage 2 asks the BIOS to disable A20 where its comment says enable, and reports the
  opposite of what it finds (`a20_bios`, `check_a20`); `load_file` tests low memory for the end of the table; when stage 1's
  search finds nothing it reads from sector 0 on, which is stage 1, and runs that, so it
  starts over again and again (or halts, if the count left is 0 and means 65536 reads);
  stage 2 passes only the low byte of the kernel's sector count and of its sector number, so
  a kernel of 257 sectors and more is cut off and run all the same, one of exactly 256
  is not read at all, and one that begins past sector 254 is asked for in another place
  (`stage2.asm:47` and `50`; the disk rule puts the kernel right behind stage 2).
* `prsfs`: a missing file stops the index of names, so all later files have no sectors; a
  chunk whose write fails is lost and the rest moves up, with exit code 0; the names
  of eight letters lose a letter of the extension, those below six write past an array.
* `imagefs` rounds stage 1 down to whole sectors; `imgwrite` may compare for ever after a
  read error.

## 11. What is not modelled, and why

* `kfree` of a pointer the caller does not hold: the code trusts its callers, and
  so does the model. What callers keep in their memory.
* Colours, wording of messages, and the tab branch of `vga_print_char`: no string of the
  kernel holds a tab, and the tab key is no ASCII key. The fields printed of ACPI tables.
* Clearing the screen in the middle of a line: only the fault handler does, and halts.
* Code without a caller: scan code set commands, `disableShiftAfterTime`, `kbd_self_test`
  (called, and returns true), the cursor keys (commented out), `memprintAsHex`,
  `memprintAsStr`, `probeRamSize`, `append`, `backspace`, `reverse`, `strstrip`, `math.c`, `hpet.c`,
  `farptr.h`, `serialcom_test`. `vga_test` is empty.
* The speaker (`sound`), bytes of the gates, port wrappers, the words that program the
  timer: straight-line set-up that no later code reads.
* The loader's printing, the geometry of a track beyond the sectors of one request, and the
  switch to protected mode.
* Formats with widths of two digits and more than the buffer (undefined in the code), and
  names below six letters (likewise): left out of the inputs by assumption.
* Vendored headers, build files, debugger scripts, documents.

## 12. Proved, checked, assumed

Proved for all values of the constants, each with its inductive invariant:

* heap: type correctness, separation of callers, agreement of blocks and holders, the step
  property, the refinement of `Allocator`, completeness of `memusage` and of the search, the
  totals;
* timer: type correctness, that a delay is never short and no wait too long, where a sleep
  ends;
* keyboard and command line: type correctness, `KeysInOrder`, `ModifiersRelease`,
  `CapsLedFollows`, `CommandIsEdited`;
* terminal: type correctness, `CursorFollows`, `ScreenIsWindow` and the refinement of
  `Terminal`, for every size of screen;
* kernel: the five safety properties of section 7;
* floppy: `TableTellsTruth` and `RunsWhatWasBuilt`;
* the descriptor search is exact, exactly the FADTs are dumped, names come back, copies
  move what they are given, and `imgwrite`'s success is true.

Model-checked only, with the reason:

* `FormatsAsDocumented`, a recursion over the digits of numbers, and `BytesAddUp`, bits;
* `Kernel!TypeOK`, whose bound belongs to the run;
* all liveness: `Answered`, `MailboxEmptied`, `WaitEnds`, `Answers`, `KeysRead`, `Returns`,
  `BootEnds`, `CopyDone`.

Assumed: the named assumption of each module (`KHeapAssumption`, `KeyboardAssumption`,
`ConsoleAssumption`, `TimerAssumption`, `VgaAssumption`, `KernelAssumption`,
`NumbersAssumption`, `BytesAssumption`, `CopiesAssumption`, `AcpiAssumption`,
`SignatureAssumption`, `NamesAssumption`, `ImageAssumption`,
`BootAssumption`, `ImgWriteAssumption`), which TLC evaluates in the passing runs; the
fairness stated with each run; that a waiting kernel polls once per tick; and the
external definitions in `PROJECT.json`, the hardware `Kernel` and `Keyboard` stand on.

Each property of a passing run comes with a mutant of a mapped definition (marked
`mutant` in the modules) under which TLC finds the property violated.
