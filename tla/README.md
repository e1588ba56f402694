# AEON: a TLA+ verification of the kernel

AEON is a small 32-bit kernel for the i486: `boot.s` sets up paging and calls
`kernel_main()`, which initialises the segment and interrupt tables, the
interrupt controllers, the memory allocator and the ATA driver, printing to the
text-mode screen as it goes. Nothing is scheduled and no user code runs. What is
hard is what the kernel shares with hardware that runs on its own (the page
walker and its TLB, exceptions, interrupt controllers, disks) and the bookkeeping
that has to stay right over long sequences of calls (page tables, allocator
bitmap, screen).

Paths below are relative to `src/kernel/`, unless they begin with `src/`.

## 1. The system

| Component | State | Operations | What makes it correct |
|---|---|---|---|
| paging (`memory/paging.c`) | three kernel page tables used as one array, TLB | `page`, `page_unaligned`, `unpage`, `get_physical_address`, `compute_highest_free_address` | objects in use keep their own mappings; nothing leaks; the kernel image is never unmapped; no stale translation |
| memory (`memory/memory.c`) | bookkeeping page with limits and bitmap | `mem_initialize`, `kmalloc`, `kfree` | a block has one owner; blocks are real memory; a freed block is free |
| boot (`boot.s`, `linker.ld`) | identity table, kernel table, directory, `cr0.PG`, `%ecx` | entry sequence | reaches `kernel_main` with the tables `paging.c` is written for |
| text mode (`drivers/display/textmode.c`) | VGA memory, `cx`/`cy`, CRT cursor | `putc`, `puts`, `clear` | the screen shows the end of what was printed |
| display (`drivers/display/display.c`) | list of displays, `m_kprintf` | `display_register`, `kprintf`, `panic` | a line is printed whole, as `printf` would, and where somebody sees it; the lock is given back |
| mutex (`lib/mutex.c`) | `locked` | `mutex_lock`, `mutex_unlock` | one holder |
| interrupts (`platform/i386/idt.c`, `idt.s`) | gates, kernel stack | stubs, `isr_handler` | a handler sees its own vector; the interrupted code continues |
| interrupt controllers (`platform/i386/irq.c`) | two 8259As | `pic_remap`, `pic_send_eoi`, `irq_handler` | lines arrive at vectors 32-47, masks survive, nothing stays in service |
| ATA (`drivers/block/ata.c`) | drive table, device registers | `ata_probe`, `ata_identify`, `ata_read_sector` | exactly the disks are found; reads return the sector asked for |
| segments (`platform/i386/gdt.c`) | descriptors, segment registers | `gdt_init` | code and data are addressed by flat segments at all times |
| kernel_main (`main.c`) | how far the start has got | calls the others in order | what a step, or an exception in it, needs is there before it |
| hexdump (`lib/hexdump.c`) | none that outlives a call | `khexdump` | every byte once in either half of an aligned table |
| klibc (`src/klibc/`) | the digit buffer of `itoa` | `memcpy`, `memset`, `itoa`, `strlen`, `isprint` | functional; one caller of `itoa` at a time |

How they interact:

- `boot.s` leaves page tables in memory which `paging.c` then owns. `Boot`
  shares the variables of `Paging`, and `KernelStartsInInit` says that the state
  the one ends in is the state the other starts in.
- `memory.c` calls `page()` and `unpage()` and keeps its own state in a page it
  got from `page()`. `Memory` extends `Paging`.
- Everything prints with `kprintf()`, which holds `m_kprintf` and writes through
  `textmode.c`. Exceptions interrupt it and print too: `Interrupts` contains the
  stubs, `isr_handler()`, `kprintf()` and the mutex.
- `isr_handler()` passes vectors 32 to 47 to `irq_handler()`, which talks to the
  controllers: `Pic`.
- `kernel_main()` calls them all in a fixed order while exceptions may come:
  `Kernel` composes `Interrupts` with `Descriptors` and that order.
- `ata.c` polls the drives, which run beside it: `Ata`. It allocates one block
  with `kmalloc()`, the only allocation the kernel makes (`ata.c:226`).

## 2. Modules

| Module | Models | Checked by | Theorems in |
|---|---|---|---|
| `PageSpace` | what `paging.h` promises: runs of slots for runs of frames | as a property of `Paging` | |
| `Paging` | `paging.c` and the TLB | `MCPaging` | `PagingProofs` |
| `Memory` (extends `Paging`) | `memory.c` | `MCMemory` | `MemoryProofs` |
| `Boot` (extends `Paging`) | `boot.s` | `MCBoot` | `BootProofs` |
| `Textmode` | `textmode.c` | `MCTextmode` | `TextmodeProofs` |
| `Interrupts` | `idt.s`, `isr_handler`, the lock and the halves of a line in `kprintf`, `mutex.c` | `MCKernel`, `MCInterrupts` | `KernelProofs` |
| `Descriptors` | `gdt.c` and the gates of `idt.c` as bytes, and the processor reading them | `MCKernel` | `KernelProofs` |
| `Kernel` (extends `Interrupts`, `Descriptors`) | `kernel_main`, `display_register`, `panic` | `MCKernel` | `KernelProofs` |
| `Kprintf` | the format loop of `display.c`, `stdlib.c`, `ctype.c`, `hexdump.c` | `MCKprintf` | `KprintfProofs` |
| `Pic` | `irq.c` and two 8259As | `MCPic` | `PicProofs` |
| `Ata` | `ata.c` and four drives | `MCAta` | `AtaProofs` |

Operators named `Mutant` in a comment are variants of the definition behind
them with a defect a programmer could have made. No specification uses them;
each one shows that some property notices the defect (`mutants` in
`PROJECT.json`).

### Paging

`page_table` is the array behind `g_page_table_C0000000`; an entry is a frame
and a set of flags. A call of `page()` or `unpage()` is one step, because the
kernel runs on one processor with interrupts off; `TlbFill` is the page walker,
which may cache any present entry between steps. Addresses are pairs of page
and offset. `live` remembers which objects are handed out, which the code does
not. `unpage()` has three outcomes: the walk ends at `END_OF_BLOCK`, it panics
at a locked entry after having cleared those before it, or it runs out of the
tables into the kernel stack behind them. The contract of `paging.h:60-62` is
the environment of `Spec`; `WildSpec` drops it and passes any pointer into the
kernel tables. `VirtPage` and `TableOffset` keep the arithmetic of the real
address split, and the proofs show that one undoes the other.

`PageSpace` knows no entries, flags or TLB. The refinement mapping `Blocks`
reads the blocks off the `END_OF_BLOCK` bits alone, the way `unpage()` finds
them, and not off `live`: that the two agree is what has to be shown.

### Memory

The bitmap lies in the page the allocator got from `page()`. Bits behind that
page are words of whatever the next slots map: reading one gives either value,
writing one changes memory the model has no contents for, and both fault where
the slot is not present. This matters because `mem_find_first_free_block_range`
looks at bits far behind the bitmap (`memory.c:144`), and `kfree` writes there
(`memory.c:208`). A search is therefore a relation: the blocks it may take, the
blocks it may pass, and the blocks where it may fault. `mem_get_bytes` gives any of
`CmosSizes`. A range is found by its first block and is then as long as was asked
for; `BlocksInRam` is about all blocks of an allocation (`BlocksOf`), for those of
up to `KernelFirst` blocks, which is as far as the code keeps inside memory.

### Boot

One step is an iteration of a loop or an instruction that changes what is
modelled. `%ecx`, which LOOP counts down and nothing sets, has any value at
entry. From `EnablePaging` on every fetch and push must be translated by the
tables or a cached translation; otherwise the machine resets. `LowTlbFill` is
the page walker for the pages below 4 MiB.

### Textmode

The rows of VGA memory, two behind the visible ones included, since
`textmode_scrollup()` reads the one and clears both. `textmode_putc` is one step;
`LinesOf` is an independent definition of how text breaks into lines, against
which `ScreenShowsText` compares the screen. The colour byte of characters from
0x80 on is kept.

### Interrupts

Contexts are nested: `pcs` holds where each one is, `stack` the words of the
kernel stack, with their meaning and owner. The stubs push and pop what the two
macros and the common stub push and pop; the processor pushes an error code for
its vectors and not for others. `iret` is `Return` if the three words on top are
the frame of a context below, and a general protection fault otherwise.
`mutex_lock()` reads and sets `locked` in separate steps. A line is what one
`kprintf()` prints, in two halves; a message that `kernel_main()` prints by two calls
("Setting up IRQ..." and "Done.") may have a handler's line in between, and no
property says otherwise. The run's vector 17, alignment check, stands for the third
combination of processor and stub: code of the kernel's privilege level cannot raise it, so
that on the machine no handler returns properly.

### Descriptors and Kernel

`Descriptors` keeps both tables as the bytes that `gdt_set_gate()` and
`idt_set_gate()` write, `cs` and `ds` as the segments the processor has loaded,
and reads the bytes with operators of its own (`SegmentOf`, `GateOf`): that the
two halves agree is not given. A 32-bit number is its four bytes, so TLC and
the provers meet no large number.

`Kernel` writes `kernel_main()` as a sequence of steps (`Program`), one for each
descriptor, load, check and line of output, and `at` as the next one. A step of
another component shows as what it does to this state: it prints, or it panics,
which goes to the steps of the `panic()` macro. `Exception` may come before any
step. It goes through the gate that is in the table at that moment; without one
the processor resets, for the faults that follow find no gate either. The actions
of a line and of a handler are those of `Interrupts`, joined with what they do to
the segment registers.

### Kprintf

`kvprintf` repeats `Turn`, one turn of the format loop with its index, persistent
width and argument list, as a recursive function; a turn reads at least a character,
so the length of the format is turns enough. `printf` is the reference: formats
given by their items, digits by their places and not by division from the right, from a
table of its own (`DigitChars`), and `%i` as the `int` that the bits are (`Signed`). In one
point the reference follows the kernel: it shows hexadecimal digits in capitals, as C has them
for `%X`, where `%x` of C has small letters.
A call is one step here, since `LinesNotMixed` has shown that lines are whole.
`Odd` names the calls that the code prints differently from `printf`: a width
stays for the later numbers of the call (`display.c:62`), and numbers that are negative
as an `int`, from `2^(IntBits-1)` on, are printed as unsigned (`src/klibc/private/stdlib.c:45`). `khexdump()` is a state
machine on top with its four variables; it prints the byte or its fill in a
single `kprintf()` each. `CallsAssumption` says what `kprintf()` is called with, as the
calls in the kernel have it: a `%` only in a conversion (or alone, at the end), widths
of one digit, an `int` of at most 32 bits, and a dump whose offsets an `unsigned int` can count.

### Pic

The writes of `pic_remap()`, one per step, against 8259As with their
initialisation sequence, masks, request and service registers, fully nested
priorities, cascade and spurious interrupts. The third word means a set of lines to the
master (`slaves`) and a number to the slave (`identity`, `CascadeWord`); the slave puts its
vector on the bus only when its number is the line the master has acknowledged and the
master knows a slave there (`SlaveAnswers`), otherwise the processor reads `FloatingBus`. The kernel itself never leaves
maskable interrupts enabled: the one `sti` (`idt.s:93`) takes effect behind the
`iret`, which restores the old flag. `Accept` is a processor on which something
has enabled them after `irq_init()`; handlers return (what the stubs do to the
stack is in `Interrupts`) and are not nested, since the gates clear the flag.

### Ata

The driver's register accesses and polling loops, one access per step, against
four drives that accept a command, turn busy, and finish with data or an error
in their own time. A word is its two bytes, so that the order of bytes shows.

## 3. Runs

All runs finish within two minutes. Every passing run explores its bounded instance
completely.

| Run | Instance | Shows |
|---|---|---|
| `paging` | two tables of six entries, kernel image in slots 2-3, text mode in 5; objects of one and three pages, from the last frame on so that frames wrap; up to three objects and one cached translation | `TypeOK`, `MappingsIntact`, `NoLeakedPages`, `BootMapUnchanged`, `TlbCoherent`, `ObjectsAccessible`, `UnpageCountMatches`, refinement of `PageSpace` |
| `paging_stray` | the same tables, `unpage()` with any slot | `LockedNeverUnpaged`, through panics and overruns |
| `memory` | words of 4 bits, 6 words to a page, 12 slots, two memory sizes; one- and two-block allocations and frees, with all the damage they do | `MemTypeOK`, `SingleBlocksNotShared`, `ChunksMapTheirBlocks`, `LiveBlocksMarked`, `BlocksInRam`, `FramesMappedOnce` |
| `memory_range` | as `memory`, with the larger of the two memory sizes | `NoSharedBlocks` is violated |
| `memory_free` | as `memory_range`, single blocks only | `FreedBlocksAreFree` is violated |
| `boot` | tables of six entries, image of three pages, registers modulo 32, every `%ecx` | `KernelStartsInInit`, `LowMemoryIsIdentity`, `ReachesKernel` |
| `textmode` | 3 rows of 2 cells, texts of up to 8 characters, two letters | `TypeOK`, `ScreenShowsText`, `CursorBehindText` |
| `kernel` | all of `kernel_main()`, magic right or wrong; 18 stubs in a table of 20 gates; NMI, page fault, alignment check, three handlers deep | `KernelTypeOK`, `HandlerSeesVector`, `LinesNotMixed`, `LockHasHolder`, `SegmentsFlat`, `ExceptionsReachStubs`, `NothingPrintedUnseen`, `KernelMainEnds` |
| `interrupts_frame` | `Interrupts` alone, the same three vectors, two handlers deep | `FrameIsOnTop` is violated |
| `pic` | lines 0, 7, 8, 15, any masks | `TypeOK`, `MasksKept`, `LineNumbersArrive`, `NothingLeftInService` |
| `ata` | any of disk, packet device, nothing at each place; sectors of two words, registers of two values, three sectors | `TypeOK`, `DisksIdentified`, `SectorRead`, `DrivesQuiet`, `OperationsEnd` |
| `kprintf` | formats of up to three items from seven, or two and a lone `%`; numbers 0, 9, 10, 255, 1000, 40000, -1 in 16 bits; two displays; dumps of up to three bytes from six, and one of 21, two to a line | `PrintsAsPrintf`, `HexdumpTable` |

Why the bounds are enough. `paging`: free runs of length two, one and six lie
around the boot map, so objects fit into some and not into others, cross into
the second table, and exhaust the tables; larger instances are covered by the
theorems. `memory`: as on the machine the bitmap has room to spare, the first two
free slots go to the bookkeeping page, and a wrapped bit number lands in a slot
that allocations reach later. `boot`: 32 values of `%ecx` cut either loop at every
iteration or neither. `textmode`: the screen wraps after every second character
and scrolls twice. `kernel`: the three vectors are the three combinations of
processor and stub (no error code on either side, both, processor
only); with three levels a fault on return happens inside a handler that has
interrupted another one in `mutex_lock()`; the theorems cover every depth and
number of gates. `kprintf`: a conversion behind, between and in front of others,
numbers shorter and longer than their width, with digits and letters, and one that is
negative as an `int` though its argument is not; the long dump has offsets of two digits and ends in half a line.
`pic`: the lines next to the cascade on either chip and the two spurious ones.
`ata`: three sectors with different registers in every position.

The bounds are `MaxObjects`, `MaxTlb`, `MaxText`, `MaxInterrupts`, each a guard
of the action that would exceed it, and the sets of arguments. Deadlock is not
checked where the system does stop: a panic is `for (;;)`, and a handler that
waits for a lock its own context holds waits for ever.

### Fairness

- `Boot`: weak fairness of the processor's steps (`Execute`). Interrupts are
  disabled and nothing else runs, so the processor executes the next
  instruction. The page walker has none: it need not cache anything.
- `Kernel`: weak fairness of the steps the processor takes by itself (`Runs`):
  it executes the next instruction of the context on top. Exceptions have none.
  `KernelMainEnds` is for behaviours in which `kernel_main()` is in the end not
  interrupted any more (`<>[](Running = 0)`); a handler that waits for the lock of
  the line below it never lets it get there.
- `Ata`: weak fairness of the driver, for the same reason, and of
  `FinishCommand` for each drive: the code has no timeout, and relies on every
  drive finishing every command. Callers have none: nobody need read a sector.
- Safety properties need none.

Three further assumptions about drives: an empty channel reads zero, a drive shows that
it is busy within the time of one port read (the driver makes both), and a disk does
not answer IDENTIFY with an error. So what takes the error path of `ata_identify()`
(`ata.c:175-181`) in the runs is a packet device; a disk may fail a read, and then the
driver panics.

## 4. What the code does not do

Five places where the program and its documents disagree. Three are each shown by a run:

- `memory_range`: `kmalloc()` of more than one block may return blocks in use
  (`memory.c:144` adds the bit mask where the bit number is meant).
- `memory_free`: `kfree()` clears wrong bits for every block but the first
  (`memory.c:208` subtracts in the wrong order).
- `interrupts_frame`: the two stub macros are swapped (`idt.s:1-18`), so only
  exceptions without a stub-supplied dummy but with an error code of the
  processor would return properly (vector 17, which the kernel cannot raise); all
  others end in general protection faults that pile up on the stack.

Two have no run of their own; the condition of a property marks them:

- `page_unaligned()` does not count the offset into the first page (`paging.c:209`), so an
  object whose offset takes it into one page more than its size does has its end unmapped.
  `paging.h:39-41` says of its pointer that "it can be used directly", of any object.
  `ObjectsAccessible` is stated for those that end within the pages made (`Fits`).
- A range of blocks is not compared with the end of memory (`memory.c:146-152`), so a
  `kmalloc()` of more than 256 blocks (1 MiB) may return blocks the machine does not have,
  where "Allocate memory for the kernel" (`memory.h:20`) and the panic of `memory.c:174` have
  one expect a refusal. `BlocksInRam` is stated for allocations of up to `KernelFirst` blocks.

Another place contradicts nothing that is written down, but stops the kernel:
a handler that prints while the code below it holds `m_kprintf` waits for ever
(`display.c:52`). It is in `Kernel` and `Interrupts`, and is why `KernelMainEnds`
has a condition.

Further limits, in the models as they are in the code and noted with the
properties they touch: the page search refuses a run that ends with the last
entry (`paging.c:90`), the bookkeeping page's second
entry maps block 0 (`memory.c:86`, the exception in `FramesMappedOnce`), the block
count wraps on a machine with less memory than the kernel takes (`memory.c:94`),
widths persist and decimals from 2^31 on, so negative ones, lose their sign (`Odd` in
`PrintsAsPrintf`), `%x` prints capitals (the digits of the reference are capitals too),
and a small `%ecx` cuts boot's tables short (`boot.s:67`, the conditions in
`LowMemoryIsIdentity` and `ReachesKernel`).

## 5. Proofs

Checked by tlapm with Z3, Zenon and LS4; for every value of the constants that
meets the named assumptions `SizesAssumption`, `BootAssumption` and
`ArgumentsAssumption` of `Paging`, `BitmapAssumption` of `Memory`, `ImageAssumption`
and `EcxAssumption` of `Boot`, `PicAssumption`, `InterruptsAssumption`,
`DescriptorsAssumption`, `KernelAssumption`, `AtaAssumption`, `TextmodeAssumption` and
`CallsAssumption` of `Kprintf`. TLC evaluates these in the runs.

`PagingProofs`. None of the invariants is inductive alone: that `page()` overwrites
nobody's entries needs to know that entries in use are exactly the boot map and
those of the objects (`NoLeakedPages`, `MappingsIntact`, `BootMapUnchanged`); that
`unpage()` stops at the end of its object needs that only the last entry has
`END_OF_BLOCK`, that the objects do not overlap, and that none contains a locked
entry. `IInv` is the conjunction, `InductiveInvariant` proves `Spec => []IInv`
through one lemma per operation: what a free run means (`page` keeps `IInv`), and
where the walk stops (`UnpageClearsTheObject`: exactly the entries of the object,
by the normal exit, so neither panic nor overrun happens to a caller that keeps
the contract). The other theorems are its consequences. `Access` adds that
dividing an offset that fits by the page size gives one of the object's pages.
`LockedSurvives` is about `WildSpec`, where next to nothing of `IInv` survives;
it needs the types only.

The refinement (`Refinement`, in the same module). Under `IInv` the blocks read off the table are the objects
(`Blocks = {BlockOf(o) : o \in live}`); then `page` is a `Map`, `unpage` an `Unmap`,
and panics and the page walker are stuttering steps.

`MemoryProofs`. `MemInv` adds to `IInv` that what `kmalloc()` returned is an object of
`page()` with as many entries as the allocation has blocks (`ChunksHaveObjects`), that
no two allocations have one pointer, and that before `mem_initialize()` the tables are
those of the boot map, from which the kernel's highest frame is computed
(`HighestAtBoot`). `MemTypes` and `ChunksStayMapped` follow, for requests of any size
and with all the damage the range search and `kfree()` do. The other theorems need
something of the machine. `BlocksLieInRam` assumes `MemoryAddressable`: extended memory
reaches beyond the kernel (`EnoughMemory`), the text-mode memory (frame `0xB8`) lies below the
kernel (frame `0x100`), and all of it is within the address space. It rests on an invariant
of its own, that an allocation begins at a block the search looks at (`BeginsInSearch`);
from there `KernelFirst` blocks are still memory, and more need not be. The theorems about single blocks assume `MapHoldsMemory`: the bitmap's
page has a bit for each block, and twice as many frames lie behind the kernel. The CMOS
counts at most 64 MiB, 16384 blocks, in 16 bits of KiB; the page has 32672 bits, and there
are 2^20 frames. `MCMemory` assumes the same of its instance, so TLC evaluates it.
`SingleInv` then says, while nobody asked for more than a block, that blocks in use are
marked and all different, and that nothing is mapped but allocations and the
bookkeeping page. Its step for `kfree()` rests on `FreedBitOfBlock`: the bit number is 0
for block 0 and, for every other block, wraps to one that lies behind the page.

`BootProofs`. `BootInv` says for each instruction of the entry code how far the two
tables are written (`TablesSoFar`: up to where `%edi` has got, with the frames of the
loop; `DirectorySoFar`), and that whatever the page walker has cached agrees with the
tables as they are now (`CachedIsCurrent`), which is what reloading `cr3` is for: the
directory's first entry leads to two different tables during the start, and an entry
cached through the first one would be stale. `%ecx` may have cut either loop short. That
no such start gets to `kernel_main()` with wrong tables is `StackMapped`: the stack's
page is the last of the image, which the loop maps last, so the push of the call faults unless all of the
image is mapped. `StartsWherePagingBegins` is then the equality with `Init` of `Paging`,
on which all of `PagingProofs` and `MemoryProofs` rests. `ResetMeansLoopCutShort` is the
safety half of `ReachesKernel`.

`TextmodeProofs`. The cursor's row is always above the last one when a character
comes, so one line break and one scroll are always enough (`PlaceForCharacter`);
only modelled rows are written. `Shows` relates a screen to lines of text: each cell
is that of `ShownCell`, the row behind the screen is as blank as the last one (or the
next scroll would bring in what it holds), and `cx` and `cy` stand behind the last line.
A line break keeps it, with or without a scroll (`LineBreakShown`), and so does a
character that fits (`CharacterShown`); `textmode_putc()` is one or both. The lines are
`LinesOf[text]`, a recursive function, and the proof needs its equation for texts of any
length (`LinesOfEquation`). The library's induction theorems take operators and cannot be
used; `Induction` states induction for sets of numbers instead, and follows from
`WFMin` and the well-foundedness of `<`. With it, functions that meet the equation up to
a length exist and agree, and their union is `LinesOf`. Both theorems assume that the rows
behind the screen are blank when the kernel starts, as the run does.

`KernelProofs` begins with the theorems of `Interrupts`. Test and set are separate steps, so two contexts may both see
the lock free. What keeps lines whole is the nesting: when the lock is taken one
context is printing, all contexts above it have not got past the test, and all
below it are not printing. `LockInv` states this for stacks of contexts of any
depth, and `Return` and `IretFault`, whatever frame they find, keep it.

On the stack: what `isr_handler()` reads is a fact about one word of the stack
(`HandlerSeesVector`), and is lost from sight while the handler is interrupted.
`VectorInv` keeps it: ten words below the flags pushed for a context that was about
to read its vector lies that vector (`InterruptedHaveVector`). Coming back to a
context also needs that no flags further down belong to it or to a later one, so the
flags on the stack are those of ever later contexts (`FlagsInOrder`), even where
frames of handlers that never return lie between them. Both are stated by the words
alone, not by the frames' sizes, which differ between exceptions.

The second half of `KernelProofs` is about `Kernel`. Every step of `Kernel` is a step of `Interrupts` or leaves its
variables alone (`KernelStepIsInterruptStep`), so `KernelSpec => Spec`, and
`LinesNotMixed` carries over. `LockHasHolder` follows from the same `LockInv`.
The properties of the tables need to know how far `kernel_main()` has got:
`SegmentsFlat` alone is not inductive, since loading a segment register is right
only when its descriptor is written and the table loaded, and a handler loads
whatever its gate names. `KernelInv` says for each place in `Program` which
descriptors and gates are written and which table is loaded (`SetUpSoFar`), and
that gates are in use only behind the `lidt`, when all of them are written
(`GatesInUse`); `SegmentsReadFlat` and `GatesDeliver` compute what the processor
makes of the bytes. The lemmas about places (`ProgramPlaced` and those before
it) find the step at a place without expanding the whole sequence, whose length
depends on the number of stubs. `NothingPrintedUnseen` follows from `KernelInv` and
`DisplayInv`, which ties the number of displays to the place in `Program`, and
`KernelTypeOK` from both and the type of the gates. So all safety properties of the
run `kernel` are proved.

`PicProofs`. `Sequence` says for each step of `pic_remap()` which initialisation word
each chip waits for and what has been restored. `Service` is what makes
`NothingLeftInService` inductive: each chip has at most one line in service, and only
while its end of interrupt is among those the handler has still to send. That the line
acknowledged belongs to the chip that answers needs that a set of lines has a first one
(`HighestIsOneOfThem`).

`AtaProofs`. The drives run beside the driver, so what the driver knows between two
port accesses is only what its last status read showed. `AtaInv` ties the two together:
at each of its steps, which phases the drive it talks to can be in (`IdentifyPhases`,
`ReadPhases`); that the buffer is what this drive has handed out so far, as the first
words of the answer to the command it got; that the drive selected is the one meant
(`Addressed`), and that the registers name the sector asked for (`RegistersHoldAddress`,
for which shifting an address down twice must be one division: `DivideTwice`). All other disks are at rest (`DrivesAtRest`); the
exception is packet devices, which the probe abandons when it sees their signature and
which may still be busy, so `DrivesQuiet` is about disks only. `FoundSoFar` says which
places the probe is done with, in the order of its two loops. Each drive's own step
(`FinishCommand`) keeps all of it (`DriveStep`).

`KprintfProofs`. Here the properties are about recursions over data: the digits of a
number, the texts of a format, the lines of a table. Each is proved with `Induction`, the
induction over sets of numbers that `TextmodeProofs` uses too, and `Recursion`, by which
functions with given recursive equations exist, so that `Power`, the buffer of `itoa()`
and the loop of `kvprintf()` meet theirs. The argument has four parts.

1. Numbers. `itoa()` takes digits off from the right by dividing; the reference computes
   each from its place. `DivideTwice` makes dividing by the base again and again one
   division by a power of it, `DigitsUnique` says that a number has one number of digits,
   and `NumberPrinted` that `itoa()` with the zeros in front is `Places`, for every
   number below `2^IntBits` and every width.
2. Formats. `Stage` says where the loop is after `k` items: its index is the length of
   the first `k` texts, what it has shown is what `printf()` shows of them, its argument
   list begins at the next one, and its width is 0 if no item has set one. `StageMoves` is
   one turn for one item, and `LoopPrints` all of them.
3. Calls. `SayPrints` keeps `PrintsAsPrintf` for any call that fits, and `DumpInv` says
   that the bytes `khexdump()` reads are in its memory, so its calls fit.
4. The table. `TableInv` is the inductive invariant of `HexdumpTable`: between two lines
   the first `r` lines of the table are written (`BetweenLines`), and inside line `r` the
   table up to the column that `pc` and `c` stand for (`InLine`). Each loop of `khexdump()`
   adds columns of that line (`GoesOn`, by `LineColumns`); `FooterStep` shows that when
   the memory ends the number of lines written is that of the table. The offset has eight
   digits as long as an `int` has no more than 32 bits, which `CallsAssumption` says.

So every property of a passing run is stated by a theorem, the refinement and the action
properties included, except liveness: `ReachesKernel`, `OperationsEnd` and
`KernelMainEnds` rest on fairness, and so on `ENABLED`, which is out of the prover's
reach. They are model-checked only.

## 6. Not modelled

`memcpy`, `memset` and `strlen` have no module: they appear where they are
called, by what they do. The single port instructions of `hal.c` are the register
accesses of `Pic`, `Ata` and `Textmode`. `play_sound()` and `nosound()` in `main.c`
are never called. The floppy driver is
excluded by `#if 0`; `file.h` and `multiboot.h` only declare. Undeclared register
use of the `asm` statements in `paging.c:61-62` and the compiler's freedom to
overwrite `isr_handler()`'s by-value argument depend on the build and have no
model. User-space mappings (`PTF_USER`) are unfinished in the code: `page()`
panics, as in the model.

## 7. Plan

Order of work, most important first; the first eleven are done.

1. `Paging`, `PageSpace`, with proofs of all invariants and of the refinement.
2. `Memory` on top of it.
3. `Boot`, which must end where `Paging` begins.
4. `Interrupts`, with the mutex.
5. `Ata`.
6. `Pic`.
7. `Textmode`.
8. `Kprintf`: the format loop and the conversions against a reference, and the
   hexdump printed with them.
9. `Kernel`: `kernel_main`'s order of initialisation as a composition, with
   exceptions before and after `idt_init`, and its proofs.
10. `Descriptors`: segments and gates against the bit layout of the processor.
11. Proofs of `Memory`, `Pic`, `Boot`, `Ata`, of what the screen shows, and of `Kprintf`.
12. The words of the IDENTIFY data that `ata_identify()` copies beside the model
    name, with their offsets (`drivers/block/ata.h`).
