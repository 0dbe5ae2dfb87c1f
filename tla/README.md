# A verification project for RedOS

RedOS is a small kernel for one i386 CPU. It boots through Multiboot 2 into the
higher half, sets up segments, a text console, a serial log and paging, runs a
script of self tests and halts. There is no interrupt table, interrupts stay
off, and there is one thread of control. What runs beside the kernel is
hardware: the TLB, which caches translations when it likes, and the UART, which
shifts bytes at its own pace. What makes the code hard to test is therefore
less a schedule than a history: what a long sequence of legal calls leaves in
page tables, bitmaps, cursors and switches, and what the hardware had cached or
queued at that moment.

## Inventory

| Component | Source | State | Operations | Hard parts | Correct means |
|---|---|---|---|---|---|
| Paging | `kernel/kernel/paging.c`, `kernel/include/paging.h` | frame bitmap, page directory and tables in physical frames, CR3 | `init_paging`, allocate, free, map, unmap, look up, switch directory, flush | TLB, tables reached through the mapping they define, memory running out | no frame lost or given out twice, callers isolated, no stale translation |
| VGA terminal | `kernel/arch/i386/tty.c`, `vga.h` | cursor, colour, cells, echo switch | initialise, put character, write, set colour | margins and the last row, output before initialisation | stores stay on the screen, scrolling loses only the top row |
| Debug output | `kernel/kernel/debug.c` | level, target, initialised | init, set level and target, log, print, hex dump | shares COM1 with three other layers, fixed buffers | each line once on each target |
| stdio | `libc/stdio/*.c` | two switches | `printf`, `puts`, `putchar` | each layer repeats the one below | the same |
| Panic | `kernel/kernel/panic.c` | none of its own | `panic`, `panicf`, `exception_handler` | runs in any state of the switches | the message is seen, the machine halts |
| Serial driver | `kernel/arch/i386/serial.c` | UART registers and queues | init with loopback test, write, read | races the UART, waits without timeout | bytes in order, nothing lost, waits end |
| Multiboot | `kernel/kernel/multiboot.c` | none | `validate_boot` | two loops over byte pointers | reads tags where they are, all of them |
| Boot | `kernel/arch/i386/boot.S`, `linker.ld` | registers, boot page tables | fixed sequence | registers across calls, code that moves while it runs | arguments arrive, every access is mapped |
| GDT | `kernel/kernel/gdt.c` | three descriptors | `setup_gdt` | bit fields | flat segments |
| kernel_main | `kernel/kernel/kernel.c` | none | a script of calls of all the others | unchecked results | the self tests say what is so |
| libc string, stdlib | `libc/string`, `libc/stdlib` | none | loops on bytes | none | |

Interactions: the terminal echoes to the serial driver; `putchar` calls the
terminal and may call the serial driver; `printf` calls `putchar` and may call
the serial driver; debug output calls the terminal and the serial driver; panic
calls debug output; paging
reaches its tables through the mapping that `boot.S` made; `boot.S` calls
`validate_boot`, `setup_gdt` and `terminal_initialize` before `kernel_main`,
which sets all switches and calls everybody. `PROJECT.json` lists
the hazards line by line.

## Modules

| Module | Models | Extends or instantiates |
|---|---|---|
| `AddressSpace` | what paging promises: a pool of pages and a map | |
| `Paging` | `paging.c`, the tables of `boot.S`, the TLB, the callers | `AddressSpace` as its promise |
| `PagingProofs` | theorems about `Paging` | `Paging` |
| `Teletype` | what the terminal promises: an endless roll of paper | |
| `Terminal` | `tty.c`, character by character | `Teletype` as its promise |
| `TerminalProofs` | theorems about `Terminal` | `Terminal` |
| `Console` | who sends what to the screen and to COM1: `tty.c`, `putchar.c`, `printf.c`, `debug.c`, `panic.c` | |
| `Serial` | `serial.c` and the UART | |
| `Multiboot` | `multiboot.c` on a loader's tags | |
| `Boot` | `boot.S` up to `kernel_main`, `gdt.c` | `Paging` for translation and the TLB |
| `Kernel` | the whole run: `boot.S`, then the script of `kernel.c` | extends `Boot`, composes `Paging` and `Console`; `Paging` as its promise |
| `Format` | `vsnprintf` and its callers in `debug.c` and `panic.c` | |
| `ConsoleProofs`, `SerialProofs`, `MultibootProofs`, `FormatProofs` | theorems about `Console`, `Serial`, `Multiboot`, `Format` | the modules they are named after, `Induction` |
| `KernelProofs` | theorems about `Boot` and `Kernel` | `Kernel`, `PagingProofs` on the kernel's tables, `Induction` |
| `Induction` | induction over numbers and sequences, recursive functions, `FlattenSeq` | |
| `MCPaging`, `MCTerminal`, `MCConsole`, `MCSerial`, `MCMultiboot`, `MCKernel`, `MCFormat` | the small instances for TLC | the modules they are named after |

**Paging.** An address is a frame number or a pair of directory and table
index. `mem` gives each physical frame its contents as a table, so that page
tables, the directory and callers' pages live in the same memory and a wrong
store can destroy any of them; `Deref` is what the kernel reaches through `P2V`,
by way of the TLB and the tables themselves. An uncleared frame holds entries
that look present. `held` records what callers have been given. Callers keep
the discipline of `test_memory_mapping`: they map pages they hold, outside the
kernel's own regions, and free pages they have unmapped. `TlbFill` and
`TlbEvict` may happen at any time. An access through an unmapped address ends
in `"faulted"`, since no handler is installed. The scan of the bitmap is
modelled by what it finds, the free frame with the lowest number.
`enable_paging` and `disable_paging` have no caller and are left out.

**Terminal.** One step per character. Before `terminal_initialize` the buffer
pointer is NULL: the early messages of `validate_boot` and `setup_gdt` move the
cursor and scroll, but store nothing on the screen. A cell is the pair of
character and colour; `scroll` clears with zero cells, `terminal_initialize`
with grey spaces, and the refinement shows that the difference is not visible.

**Console.** One step per call, since nothing runs beside it. `out` holds what
the last call sent to each device, as sequences of characters in which a run of
plain text is one character. Callers' strings may have line feeds anywhere,
those of `debug_log`, `debug_print` and `panic` too, which `debug_write` passes
on to COM1 as they are. Prefixes, `vsnprintf` and buffer limits are in `Format`.
`panic`'s lines are written one by one, several of a kind counted once.

**Serial.** One step per register access of the driver; the UART shifts and
receives in between. `InitWrites` is the driver's list of register writes, in
its order, and `outb` what the registers do with them (DLAB, the queue reset,
loopback). The port may be absent, which reads as 0xFF; an empty receive queue
reads as any byte. The peer may send any byte, also the test byte, so that
`serial_init` may take something else for its echo; the history `quiet` tells
whether only the echo could have answered the test, and `left` what was in the
receive queue when `serial_init` returned.

**Multiboot.** Pointers are byte offsets. The loader's side (padding, END tag,
header size) is defined from the format, separately from the code's arithmetic.

**Boot.** One step per routine of `boot.S`. An address is a half, low or high,
and the frame it means, which is how `linker.ld` splits the image: the
`.bootstrap_*` sections are linked low, `.text` with all its strings high.
`Run` lets a routine proceed only if everything it fetches and touches is
mapped at that moment, by way of the TLB and the tables as they are then. A
read at a high address before paging is on finds no memory; the bus answers
zeros (`EarlyPrint`) or ones (`BusFloatsHigh`). The loader's registers are
carried through the calls as the assembly carries them. `validate_boot` gets what
is in `edi` then, and `walk_tags` is its loop over the memory that this leads to,
one step per frame: a cleared page of the boot stack (`.bootstrap_bss`, which
the pushes have not reached) is an end tag, the loader's information ends as
`Multiboot` shows, and any other memory may send the walk anywhere or keep it
where it is. `gdt_set_entry` packs
numbers given as pairs of 16 bit halves, and `Descriptor` reads the entry the
way the CPU does.

**Kernel.** `Program` is `kernel_main` written as data, a sequence of calls with
their arguments, the lines that `paging.c` logs included; `ConsoleCall` and
`PagingCall` execute one call each by the actions of `Console` and `Paging`.
Every call needs the image, with its code, data and stack, and the screen at
their high addresses, and faults if the tables as they are then, seen through
the TLB, do not lead there (`ScriptReaches`).
`test_memory_mapping` takes the results as it finds them: unlike the callers of
`Paging`, nothing here is guarded by what it holds. `shown` collects the
lines that each device was sent since `kernel_main` began. Each message is one
name; where lines end is `Console`'s subject.

**Format.** One step per turn of `vsnprintf`'s loop, with the index, the size
and the buffer with two bytes behind it. The callers are `snprintf` (and
`panicf`, which is the same with 256 bytes), the debug line with its prefix and
line end, `debug_vprint`, and a row of `debug_hex_dump`, which adds up the
results of many calls. `full` records what an endless buffer would hold.
Negating `INT_MIN` is undefined: its digits are a choice. The limits of the 32 byte
digit buffers are left out, since no number is that long.

## Runs

| Run | Shows | Distinct states |
|---|---|---|
| `paging` | frame accounting, isolation, TLB coherence, the kernel window, look-up, no fault before the window is full, refinement of `AddressSpace` | 7 933 |
| `paging_beyond_window` | violated: with more frames than the boot table maps, allocation faults | |
| `terminal` | cursor on the screen, refinement of `Teletype` | 142 189 |
| `console` | mirror, no duplicates, line ends, both targets, panic | 12 880 |
| `serial` | configuration, order in both directions, what a byte taken for the echo leaves, waits end, bytes arrive | 16 452 |
| `serial_loopback` | violated: a failed test leaves the port in loopback | |
| `multiboot` | the walk is on tags, complete, and ends | 3 783 |
| `kernel` | no access faults from the loader's jump to the hlt, in the walk of the misdirected `validate_boot` and in the calls of the script too, flat segments, the memory test's unchecked results, its clean-up, the log mirrors the screen, refinement of `Paging`, walk and script end at the hlt | 19 850 |
| `kernel_targets` | violated: `kernel_main`'s lines for one target only are in both logs, or in none | |
| `boot_arguments` | violated: `validate_boot` does not get the loader's pointer | |
| `early_message` | violated: the first message is not shown | |
| `format` | `vsnprintf` stays in its buffer, leaves a string, cuts without garbling | 194 559 |

Bounds. *Paging*: six entries per table and six frames, of which one is low
memory, two are the kernel's tables and three are left: enough for two pages and
a table, a page reused as a table, and memory running out in
`map_page_to_frame`; two of the callers' pages share a page table and one does
not; a TLB of one entry suffices for a stale entry, as each property is about
one translation. Here the bitmap tracks just the frames that the boot table
maps, since otherwise the machine faults before the bitmap is full; with one
frame more, as in `paging_beyond_window`, the same properties hold of the states
up to the fault and at it. The proofs remove these bounds. *Terminal*: three
columns and two rows with tabs of two, so that a tab can end inside, at and
beyond the margin; `MaxScrolled` bounds the rows that leave the screen, and the
guard of `terminal_write` keeps a string from exceeding it. The proofs remove
these bounds too, for every bound `MaxScrolled`. *Console*: all values of all
switches; levels from one below to one above the range; strings without line
feeds, with bare ones at both ends, and with a CR LF inside. *Serial*: queues of
two bytes and strings of one and three, so that an unpaced writer overflows; a
peer that sends an ordinary byte or the test byte; `MaxWritten`, `MaxArrived`
and `MaxRead` bound the histories. *Multiboot*: all lists of up to three tags
from six kinds. *Kernel*: eleven frames, one of low memory, six of the image
(boot code, directory, table, two pages of stack, text) and the four that
`test_memory_mapping` needs, three pages and a table; with fewer its unchecked
NULLs would be used, with more nothing new happens. The real machine has
hundreds in the 4 MB that `boot.S` maps, so `KernelAssumption` asks for four.
*Format*: numbers of eight bits with both ends of their range, formats of up to
three pieces, sizes from 0 to 7, a debug buffer of 9 bytes, and a row of two
columns that needs 23 of its 20 bytes, so that it is cut (the real row needs 107
of 128, and would stay in its buffer by its length alone).

`console`, `serial`, `multiboot` and `format` do not check deadlock: a panic
halts, a reader may wait for ever for a peer, and the bounds stop the callers;
`validate_boot` and `vsnprintf` return. `kernel` does: the only states without a
next step but the hlt loops would be faults.

Fairness. `Serial` assumes that the CPU goes on with a call it has begun
(nothing can preempt it) and that the transmitter's clock runs (`Shift`); it
assumes nothing of callers, readers or the peer. `Multiboot` and `Kernel` assume
that the CPU goes on, since interrupts are off; `Kernel` assumes nothing of the
TLB, which may change for ever. The other modules state safety only.

`ImplementsPaging` is what ties the modules together. `Paging` assumes callers
that map and free only what they hold, and begins with the tables of `boot.S`.
`Kernel` guards nothing, and the run shows that its every step is a step of
`Paging`, seen through `Client`: before paging is on, the tables count as built.
So what `PagingProofs` proves of all such callers holds of this kernel; the
theorem `KernelImplementsPaging` says so for every layout.

Every property has a mutant in `PROJECT.json`: a definition changed the way a
bug would change the code, for which TLC finds the property violated.

## Findings

1. `paging.c` hands out frames up to 64 MB but reaches only the 4 MB that
   `boot.S` maps; after that the `memset` in `kmalloc_physical_page` or
   `get_page_table` faults (`paging_beyond_window`). `FaultsOnlyWhenFull` is
   the converse: nothing faults before every frame of the window is in use.
2. With the echo that `kernel_main` switches on, `DEBUG_TARGET_VGA` lines are in
   the serial log, and
3. `DEBUG_TARGET_SERIAL` lines are nowhere (`kernel_targets`).
4. `serial_init` reads the echo without waiting and, when it is not there yet,
   leaves the port in loopback mode (`serial_loopback`).
5. `setup_page_tables` overwrites `%edi`, in which `multiboot_entry` has saved the
   loader's pointer; `validate_boot` walks the memory behind the boot page table
   (`boot_arguments`). That is the bottom of the boot stack, still zero, which
   reads as an end tag: the walk ends there, and none of the loader's tags is seen
   (`ReachesHalt`). Were it any other memory, nothing would say that it ends.
6. The messages before paging are read at addresses where there is no memory yet
   (`early_message`). If the bus answers ones instead of zeros, the loop runs
   over the kernel's image; `ReachesHalt` excepts this case.

Seen while modelling, without a run: `panic` at `DEBUG_LEVEL_NONE` prints nothing,
though `panic.h` says it "prints a message" (`PanicReachesAll` states the
condition). `debug_write` adds no carriage returns, so a message with a line feed
of its own sends it bare to COM1 when the terminal does not echo
(`LineFeedsAfterReturns`). A peer's 0xAE that arrives between the clearing of the
queues and the loopback passes for the echo in `serial_init`; then the test byte
may be sent to the peer, or be read as input (`DeliveredInOrder`,
`InputInOrder`). `debug_hex_dump` uses `%08x` and `%02x`, which `vsnprintf` does not
know: it copies `%0` and then `8x`, so the dump shows neither addresses nor bytes
(`Unsupported`). The inline assembly that reloads the segment registers in
`setup_gdt` does not tell the compiler that it changes `eax`.

## Proofs

`PagingProofs` proves, for every size of page tables, number of frames, kernel
image, set of callers' pages and TLB that meet the assumptions of `Paging`: type
correctness, frame accounting, isolation, TLB coherence, the kernel window,
agreement of `get_physical_address` with the CPU, the refinement of
`AddressSpace`, and that a call faults only when every frame of the window is in
use and one beyond it has been given out. This includes the code's own sizes, a
bitmap of 16 times the window. None of these is inductive. The allocator is
right only while the page tables are where the bitmap says; the tables are
reached only while nobody overwrites the boot table; and nobody does only while
callers' translations, cached ones included, lead to pages they hold.
`PagingInv` states these together: `BootTablesInv` (the directory and table of
`boot.S` keep their shape), `ClientTablesInv` (callers' tables are frames of
their own, one per directory entry, and lead to held pages), `BitmapInv` and
`TlbCoherent`. The lemmas `DataWrite`, `TableWrite` and `TableCreate` say what
the three kinds of store do to walks, one lemma per action shows that it keeps
the invariant.

The assumptions are named in `Paging`: `SizeAssumption`, `LayoutAssumption`
(the image lies in the window, the tables in the image, frame 0 in low memory)
and `ClientAssumption` (callers' pages lie outside the kernel's regions).

`TerminalProofs` proves, for every screen size, tab width and set of strings,
type correctness, that the cursor stays on the screen, and the refinement of
`Teletype`. `TerminalInv` adds to the types that the cursor is on the screen
between characters, that nothing has scrolled off before there is a screen, and
that the roll has room for what is still pending. The core is the arithmetic of
cells, `IndexFacts`, and `ScrollKeepsPaper`: moving the rows up and recording
the top one leaves the paper as it was.

`Induction` makes the next four possible. The library's induction theorems are
stated with an operator as parameter, which the provers cannot instantiate, so
they are restated with sets: `SetInduction` is about the set of the numbers that
have a property (by its least non-member), `SequenceInduction` about a set of
sequences, and `RecursiveSequence` gives a recursive function its values. From
these come the recursion of `FlattenSeq` and the laws of `FlatMap`, which gives
a string the bytes of each of its characters in turn.

`ConsoleProofs` proves all invariants of `Console`, for every set of texts and
strings of any length: the log mirrors the screen, no line is duplicated, every
bare line feed in the log was in the string of a caller of `debug_log`,
`debug_print` or `panic`, both targets are reached, and a panic reaches every
device if the level admits errors. `ConsoleInv` adds that what the last call
sent is `Faithful`: the serial bytes are the echo of the screen's whenever the
echo is on, whichever of the four layers sent them. That is proved by echoing
piece by piece (`FlatMapCompose`): each layer's loop over a string
commutes with the terminal's loop over it. Duplicates are counted by
`Occurrences`, which adds up over concatenations.

`SerialProofs` proves configuration and order in both directions, for every
queue size, every set of strings, and every speed of UART and peer. What
`serial_init` leaves depends on what the UART did between its register writes:
`TestInv` follows the test byte from the transmitter to the receive queue or,
if a byte of the peer's or of an empty queue's was taken for the echo, to the
line; together with DLAB, loopback, and what the peer can still add.
`SilentInv` says that a port that failed the test sends nothing. Nothing is
assumed of the bytes: the peer and the strings may have 0xAE anywhere. If only the
echo could answer the test (`quiet`), neither the line nor the readers ever see the
test byte or what the port held before; if not, at most the test byte goes before
the callers' bytes on the line, and readers get what was `left` first.

`MultibootProofs` proves that the walk of `validate_boot` is on tags and
complete, for any number of tags of any size and maps with any number of regions
of any size. `WalkInv` says which tag, or which region of which tag, the loop is
at, and that all before it and no other have been printed; `OffsetFacts` shows that
`(size + 7) & ~7` leads from each tag to the next as the format places them.

`FormatProofs` proves, for every width of an int, format, argument and buffer
size, that `vsnprintf` and its callers stay in their buffers, leave a
string, and cut it without garbling. `FormatInv` has the buffer that each caller
works with (`CallerInv`), what has been written where (`ContentInv`), and
`CutInv`: the buffer shows the beginning of the full text, all of it or as much
as fits. It does not always show as much as fits: a pointer's `0x` that does not
fit is dropped whole, and one later character may then take the last place, which
`CutInv` and `CutNotGarbled` both admit.

`KernelProofs` proves every safety property of `Boot` and `Kernel`, for every
layout of the image, size of memory and page tables, and TLB that meet the
assumptions. New are `BootAssumption` (the image has its code, and a boot stack
of more than one page behind the boot table) and `KernelAssumption` (the window
has the four free frames that `test_memory_mapping` uses). Lemma `Script` says
what may stand on each of the script's 93 lines. `KernelInv` then has four
parts: `BootInv` (which tables, registers and arguments `boot.S` has made at
each of its routines), `PagesInv` (which of the three pages the test holds at
each line), `MappingInv` (when its address is mapped, and when its page has the
pattern) and `PagingInv` of `PagingProofs`, on `tables` and `root`: the page
tables that will be there once paging is on. The last part is not proved again:
`StepKernelInv` shows that each step of the kernel is a step of `Paging` or
none, so that `StepPagingInv` applies to it, and the same lemma is the
refinement, `KernelImplementsPaging`. The guards of `Paging`'s callers, which
`Kernel` does not have, follow from `PagesInv` and `MappingInv`.
`KernelCleansUp` and `KernelNeverFaults` come from `KernelInv` at the line they
are about. That the walk of `validate_boot` stays on mapped memory is
`WalkStep`, from the part of `BootInv` that says where `edi` led it; that the
calls of the script reach image, stack and screen is `ScriptSteps`, from
`WindowIntact` on the tables of that moment.

`ShownInv` adds the console: `Mirrors` relates the screen's lines to the log's,
and `EchoedCall` shows that any call made while the terminal echoes keeps the
relation, since the echo adds carriage returns and no text (`EchoKeepsText`).
From it follow `LogIsScreen`, and that the passed test is on the screen
(`ResultsGood`).

Only model-checked: all liveness, which needs fairness and `ENABLED`. Every
invariant and every other action property of the passing runs is a theorem. The
five properties that runs refute are in Findings.

## Not modelled

Left out:

- `memcpy`, `memmove`, `memset`, `memcmp`, `strlen`: one loop each, whose effect
  the callers' actions state.
- `abort`, which nothing calls, and `__stack_chk_fail`, which only code added by
  the compiler calls, for a stack that no modelled step smashes.
- `enable_paging` and `disable_paging`, which nothing calls.
- The conversions of `printf` in `libc/stdio/printf.c` (`itoa`, `utoa`): `Console`
  takes the text as its caller means it.
- Register values in a panic's dump, the wording of messages, what
  `validate_boot` prints of a tag's contents, the numbers `print_paging_info`
  prints.
- Headers of the Multiboot 2 format and of libc beyond the constants used, the
  Multiboot header in `boot.S`, and the build files.
