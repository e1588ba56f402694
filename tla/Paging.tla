-------------------------------- MODULE Paging --------------------------------
(***************************************************************************)
(* The kernel half of the address space: memory/paging.c, started in the   *)
(* state boot.s leaves.  The three kernel page tables are contiguous in    *)
(* .bss (boot.s), and paging.c uses them as one array of                   *)
(* KERNEL_PAGE_TABLES_LEN entries.                                         *)
(*                                                                         *)
(* Addresses are pairs of a page number and an offset into the page, which *)
(* is all that the shifts and masks of paging.c take out of them; offsets  *)
(* and sizes are counted in units of which PAGE_SIZE make a page.  The     *)
(* kernel runs on one processor with interrupts disabled, so a call of     *)
(* page() or unpage() is one step; what runs beside it is the processor's  *)
(* page walker, which may load a translation into the TLB at any time.     *)
(***************************************************************************)
EXTENDS Integers, FiniteSets

CONSTANTS
    PAGE_SIZE,                       \* units per page (4096 bytes)
    PAGE_TABLE_LEN,                  \* entries per page table (1024)
    NUM_KERNEL_PAGE_TABLES,          \* 3
    KERNEL_FIRST_PAGE_TABLE_OFFSET,  \* directory index of 0xC0000000 (768)
    NFrames,                         \* frames of the physical address space (2^20)
    KernelFirst, KernelLast,         \* the frames boot.s maps for the kernel image
    VgaFrame,                        \* the frame of text-mode memory (0xB8)
    PhysFrames, Offsets, Sizes,      \* arguments of page() and page_unaligned()
    MaxObjects,                      \* bound: objects paged at the same time
    MaxTlb                           \* bound: translations cached at the same time

KERNEL_PAGE_TABLES_LEN == PAGE_TABLE_LEN * NUM_KERNEL_PAGE_TABLES

Slots == 0 .. (KERNEL_PAGE_TABLES_LEN - 1)
Frames == 0 .. (NFrames - 1)
VgaSlot == PAGE_TABLE_LEN - 1

ASSUME SizesAssumption ==
    /\ PAGE_SIZE \in Nat \ {0}
    /\ PAGE_TABLE_LEN \in Nat \ {0}
    /\ NUM_KERNEL_PAGE_TABLES \in Nat \ {0}
    /\ KERNEL_FIRST_PAGE_TABLE_OFFSET \in Nat
    /\ NFrames \in Nat \ {0}
    /\ MaxObjects \in Nat
    /\ MaxTlb \in Nat

\* The kernel image is mapped by the first table, below its last entry, which
\* is the text-mode memory's.
ASSUME BootAssumption ==
    /\ KernelFirst \in Nat /\ KernelLast \in Nat
    /\ KernelFirst <= KernelLast
    /\ KernelLast < VgaSlot
    /\ KernelLast < NFrames
    /\ VgaFrame \in Frames

ASSUME ArgumentsAssumption ==
    /\ PhysFrames \subseteq Frames
    /\ Offsets \subseteq 0 .. (PAGE_SIZE - 1)
    /\ Sizes \subseteq Nat

(***************************************************************************)
(* Page table entries.                                                     *)
(***************************************************************************)
PageFlags == {"PRESENT", "READ_WRITE", "USER", "END_OF_BLOCK", "LOCKED"}

Entry == [frame : Frames, flags : SUBSET PageFlags]

Unused == [frame |-> 0, flags |-> {}]

\* Mutant: only locked entries count as in use.
InUseIfLocked(e) == "LOCKED" \in e.flags

InUse(e) == "PRESENT" \in e.flags \/ "LOCKED" \in e.flags

\* The flags paging.h offers to callers.
ClientFlags == SUBSET {"READ_WRITE", "USER"}

VARIABLES
    page_table,  \* g_page_table_C0000000 and the two tables behind it
    tlb,         \* the translations the processor has cached
    live,        \* history: the objects handed out by page() and not yet unpaged
    unpaged,     \* the value the last unpage() returned
    status       \* "running", "panic" (for(;;)), or "overrun": a write ran out
                 \* of the tables, into the kernel stack that lies behind them

vars == <<page_table, tlb, live, unpaged, status>>

Objects ==
    [at : Slots, off : 0 .. (PAGE_SIZE - 1), frame : Frames, size : Nat,
     flags : ClientFlags]

TypeOK ==
    /\ page_table \in [Slots -> Entry]
    /\ tlb \subseteq [at : Slots, entry : Entry]
    /\ live \subseteq Objects
    /\ unpaged \in Nat
    /\ status \in {"running", "panic", "overrun"}

(***************************************************************************)
(* The state boot.s leaves: the kernel image's entries locked, the entry   *)
(* of the text-mode memory present and not locked, everything else clear.  *)
(***************************************************************************)
BootEntry(i) ==
    CASE i \in KernelFirst .. KernelLast ->
            [frame |-> i, flags |-> {"PRESENT", "READ_WRITE", "LOCKED"}]
      [] i = VgaSlot ->
            [frame |-> VgaFrame, flags |-> {"PRESENT", "READ_WRITE"}]
      [] OTHER -> Unused

BootSlots == (KernelFirst .. KernelLast) \cup {VgaSlot}

Init ==
    /\ page_table = [i \in Slots |-> BootEntry(i)]
    /\ tlb = {}
    /\ live = {}
    /\ unpaged = 0
    /\ status = "running"

-------------------------------------------------------------------------------
(***************************************************************************)
(* Helpers of paging.c.                                                    *)
(***************************************************************************)

\* Mutant: cr3 is not reloaded.
NoRefresh == UNCHANGED tlb

\* Reloading cr3 drops every translation the processor has cached.
pagetable_refresh == tlb' = {}

PAGE_DIR_INDEX(virt) == virt \div PAGE_TABLE_LEN
PAGE_TABLE_INDEX(virt) == virt % PAGE_TABLE_LEN

VirtPage(slot) == KERNEL_FIRST_PAGE_TABLE_OFFSET * PAGE_TABLE_LEN + slot

TableOffset(virt) ==
    (PAGE_DIR_INDEX(virt) - KERNEL_FIRST_PAGE_TABLE_OFFSET) * PAGE_TABLE_LEN
        + PAGE_TABLE_INDEX(virt)

RequiredPageCount(size) == (size \div PAGE_SIZE) + 1

\* Mutants: the check of a run stops one entry early, or after its first one.
RunFreeButLast(i, n) == \A j \in i .. (i + n - 2) : ~InUse(page_table[j])
RunFreeFirstOnly(i, n) == ~InUse(page_table[i])

RunFree(i, n) == \A j \in i .. (i + n - 1) : ~InUse(page_table[j])

\* The starts find_free_blocks_offset() accepts in the kernel tables.  Its
\* bound gives up once i + n >= the table's length.
FreeRuns(n) ==
    {i \in Slots : i + n < KERNEL_PAGE_TABLES_LEN /\ RunFree(i, n)}

\* The scan goes upwards and returns the first of them.
find_free_blocks_offset(i, n) ==
    /\ i \in FreeRuns(n)
    /\ \A k \in FreeRuns(n) : i <= k

OutOfFreeBlocks(n) == FreeRuns(n) = {}

\* Mutant: addresses do not wrap.
MappedUnwrapped(i, n, frame, flags) ==
    [s \in Slots |->
        IF s \in i .. (i + n - 1)
        THEN [frame |-> frame + (s - i),
              flags |-> flags \cup {"PRESENT"}
                          \cup (IF s = i + n - 1 THEN {"END_OF_BLOCK"} ELSE {})]
        ELSE page_table[s]]

\* The n entries from slot i on map the frames from `frame` on; 32-bit
\* addresses wrap.  The last one is marked as the end of the block.
Mapped(i, n, frame, flags) ==
    [s \in Slots |->
        IF s \in i .. (i + n - 1)
        THEN [frame |-> (frame + (s - i)) % NFrames,
              flags |-> flags \cup {"PRESENT"}
                          \cup (IF s = i + n - 1 THEN {"END_OF_BLOCK"} ELSE {})]
        ELSE page_table[s]]

HighestFrame ==
    CHOOSE f \in Frames :
        /\ \E i \in Slots : page_table[i].frame = f
        /\ \A i \in Slots : page_table[i].frame <= f

\* In frames; the address after the last one wraps to 0.
compute_highest_free_address == (HighestFrame + 1) % NFrames

get_physical_address(virt) == page_table[TableOffset(virt)].frame

-------------------------------------------------------------------------------
(***************************************************************************)
(* page() and page_unaligned().  `off` is what page_unaligned() cuts off   *)
(* before, and adds to the pointer after, the call; page() has none.       *)
(***************************************************************************)
PageAt(i, frame, off, size, flags) ==
    /\ page_table' = Mapped(i, RequiredPageCount(size), frame, flags)
    /\ pagetable_refresh
    /\ live' = live \cup {[at |-> i, off |-> off, frame |-> frame, size |-> size,
                           flags |-> flags]}
    /\ UNCHANGED <<unpaged, status>>

\* There are no user-space tables yet: with PTF_USER the search gets a table
\* of length 0.
OutOfPageSpace(size, flags) ==
    /\ "USER" \in flags \/ OutOfFreeBlocks(RequiredPageCount(size))
    /\ status' = "panic"
    /\ UNCHANGED <<page_table, tlb, live, unpaged>>

PageAnywhere(frame, off, size, flags) ==
    \/ /\ "USER" \notin flags
       /\ \E i \in Slots :
             /\ find_free_blocks_offset(i, RequiredPageCount(size))
             /\ PageAt(i, frame, off, size, flags)
    \/ OutOfPageSpace(size, flags)

page(frame, size, flags) == PageAnywhere(frame, 0, size, flags)

page_unaligned(frame, off, size, flags) == PageAnywhere(frame, off, size, flags)

(***************************************************************************)
(* unpage() clears entries from the pointer's slot on until it has cleared *)
(* one that ends a block, and panics on a locked entry before clearing it. *)
(***************************************************************************)

\* Mutants: locked entries are cleared like others; the walk stops at the
\* first entry.
StopsAtEndOnly(e) == "END_OF_BLOCK" \in e.flags
StopsAtOnce(e) == TRUE

StopsAt(e) == "LOCKED" \in e.flags \/ "END_OF_BLOCK" \in e.flags

\* unpage() walks from slot i through slot e - 1 and stops at e.
WalksTo(i, e) ==
    /\ StopsAt(page_table[e])
    /\ \A j \in i .. (e - 1) : ~StopsAt(page_table[j])

\* Mutants: only the first page is cleared; all but the last one are.
ClearedFirstOnly(i, e) ==
    [s \in Slots |-> IF s = i THEN Unused ELSE page_table[s]]

ClearedButLast(i, e) ==
    [s \in Slots |-> IF s \in i .. (e - 1) THEN Unused ELSE page_table[s]]

Cleared(i, e) ==
    [s \in Slots |-> IF s \in i .. e THEN Unused ELSE page_table[s]]

UnpageBlock(i) ==
    \E e \in Slots :
        /\ i <= e
        /\ WalksTo(i, e)
        /\ "LOCKED" \notin page_table[e].flags
        /\ page_table' = Cleared(i, e)
        /\ pagetable_refresh
        /\ unpaged' = e - i + 1
        /\ UNCHANGED status

UnpageLocked(i) ==
    \E e \in Slots :
        /\ i <= e
        /\ WalksTo(i, e)
        /\ "LOCKED" \in page_table[e].flags
        /\ page_table' = Cleared(i, e - 1)
        /\ status' = "panic"
        /\ UNCHANGED <<tlb, unpaged>>

\* No entry up to the end of the tables stops the walk.
UnpageOverrun(i) ==
    /\ \A j \in Slots : j >= i => ~StopsAt(page_table[j])
    /\ page_table' = Cleared(i, KERNEL_PAGE_TABLES_LEN - 1)
    /\ status' = "overrun"
    /\ UNCHANGED <<tlb, unpaged>>

unpage(virt) ==
    LET i == TableOffset(virt)
    IN  UnpageBlock(i) \/ UnpageLocked(i) \/ UnpageOverrun(i)

-------------------------------------------------------------------------------
(***************************************************************************)
(* The steps of the system.                                                *)
(***************************************************************************)
Running == status = "running"

PageObject ==
    /\ Running
    /\ Cardinality(live) < MaxObjects
    /\ \E frame \in PhysFrames, size \in Sizes, flags \in ClientFlags :
          page(frame, size, flags)

PageUnalignedObject ==
    /\ Running
    /\ Cardinality(live) < MaxObjects
    /\ \E frame \in PhysFrames, off \in Offsets, size \in Sizes,
          flags \in ClientFlags :
             page_unaligned(frame, off, size, flags)

\* The contract of unpage(): a pointer that page() or page_unaligned()
\* returned, once.  The offset into the page does not matter.
UnpageObject ==
    /\ Running
    /\ \E o \in live : unpage(VirtPage(o.at)) /\ live' = live \ {o}

\* The page walker may cache any present entry (external: the processor).
TlbFill ==
    /\ Running
    /\ Cardinality(tlb) < MaxTlb
    /\ \E i \in Slots :
          /\ "PRESENT" \in page_table[i].flags
          /\ tlb' = tlb \cup {[at |-> i, entry |-> page_table[i]]}
    /\ UNCHANGED <<page_table, live, unpaged, status>>

Next ==
    \/ PageObject
    \/ PageUnalignedObject
    \/ UnpageObject
    \/ TlbFill

Spec == Init /\ [][Next]_vars

\* A caller that breaks the contract and passes any pointer into the kernel
\* tables: one already unpaged, one into the middle of an object, one into
\* the kernel image.  Objects whose entries were cleared are gone.
UnpageStray ==
    /\ Running
    /\ \E s \in Slots :
          /\ unpage(VirtPage(s))
          /\ live' = {o \in live : page_table'[o.at] # Unused}

WildNext == Next \/ UnpageStray

WildSpec == Init /\ [][WildNext]_vars

-------------------------------------------------------------------------------
(***************************************************************************)
(* Properties.                                                             *)
(***************************************************************************)
SlotsOf(o) == o.at .. (o.at + RequiredPageCount(o.size) - 1)

\* What page() promised about slot s of object o.
PromisedEntry(o, s) ==
    [frame |-> (o.frame + (s - o.at)) % NFrames,
     flags |-> o.flags \cup {"PRESENT"}
                 \cup (IF s = o.at + RequiredPageCount(o.size) - 1
                       THEN {"END_OF_BLOCK"} ELSE {})]

\* No later page() or unpage() disturbs the entries of an object that is
\* still in use: each maps the frame promised when the object was paged and
\* only its last entry ends the block (page(), paging.c:171-180).
MappingsIntact ==
    \A o \in live :
        /\ SlotsOf(o) \subseteq Slots
        /\ \A s \in SlotsOf(o) : page_table[s] = PromisedEntry(o, s)

\* Two objects in use never share a page table entry, and none takes an entry
\* of the boot map: find_free_blocks_offset() only hands out free runs.
ObjectsDisjoint ==
    /\ \A o1, o2 \in live : o1 # o2 => SlotsOf(o1) \cap SlotsOf(o2) = {}
    /\ \A o \in live : SlotsOf(o) \cap BootSlots = {}

\* No entry stays mapped after its object was unpaged: unpage() clears the
\* whole block and not only its first page (paging.c:247-263).
NoLeakedPages ==
    \A s \in Slots \ BootSlots :
        page_table[s] # Unused => \E o \in live : s \in SlotsOf(o)

\* The kernel image and the text-mode memory stay mapped where boot.s put
\* them, although the text-mode entry is not locked (boot.s:100).
BootMapUnchanged == \A s \in BootSlots : page_table[s] = BootEntry(s)

\* Every change of an entry is followed by pagetable_refresh() before the
\* kernel goes on, so no stale translation survives (paging.c:182, 265).
TlbCoherent == Running => \A t \in tlb : page_table[t.at] = t.entry

\* What the processor may use to translate an access to slot s.
Translations(s) == {page_table[s]} \cup {t.entry : t \in {u \in tlb : u.at = s}}

\* Every unit of the object is reachable through the pointer handed out and
\* is the object's own unit of physical memory.
Accessible(o) ==
    \A k \in o.off .. (o.off + o.size - 1) :
        LET s == o.at + (k \div PAGE_SIZE)
        IN  /\ s \in Slots
            /\ \A e \in Translations(s) :
                  /\ "PRESENT" \in e.flags
                  /\ e.frame = (o.frame + (k \div PAGE_SIZE)) % NFrames

\* The object, from its offset into the first page on, ends within the pages
\* page() makes for its size.  page_unaligned() does not add the offset to the
\* size, so a few of its objects do not fit; aligned ones always do.
Fits(o) == o.off + o.size <= RequiredPageCount(o.size) * PAGE_SIZE

\* "The pointer returned points to the given object in virtual memory with the
\* correct offset; so it can be used directly" (paging.h:21-22, 40-41): every
\* object that fits can be, whatever was paged and unpaged around it.
ObjectsAccessible == Running => \A o \in live : Fits(o) => Accessible(o)

\* unpage() returns "the amount of page table entries (4k blocks) that were
\* unpaged" (paging.h:63): exactly the entries page() made for that object.
UnpageCountStep ==
    \A o \in live \ live' : unpaged' = RequiredPageCount(o.size)

UnpageCountMatches == [][UnpageCountStep]_vars

\* "The page should never be unpaged. It belongs to the kernel"
\* (paging.c:20): whatever pointer unpage() is given, no step clears or
\* changes a locked entry.
LockedStep ==
    \A s \in Slots :
        "LOCKED" \in page_table[s].flags => page_table'[s] = page_table[s]

LockedNeverUnpaged == [][LockedStep]_vars

(***************************************************************************)
(* paging.c implements PageSpace.  The blocks are read off the page table  *)
(* alone, the way unpage() finds them: a block ends at END_OF_BLOCK, and   *)
(* the next entry in use starts another one.                               *)
(***************************************************************************)
StartsBlock(s) ==
    /\ s \notin BootSlots
    /\ InUse(page_table[s])
    /\ \/ s - 1 \notin Slots \ BootSlots
       \/ ~InUse(page_table[s - 1])
       \/ "END_OF_BLOCK" \in page_table[s - 1].flags

EndsBlock(s, e) ==
    /\ s <= e
    /\ "END_OF_BLOCK" \in page_table[e].flags
    /\ \A j \in s .. (e - 1) : "END_OF_BLOCK" \notin page_table[j].flags

EndOfBlock(s) == CHOOSE e \in Slots : EndsBlock(s, e)

Blocks ==
    {[at |-> s,
      frames |-> [k \in 0 .. (EndOfBlock(s) - s) |-> page_table[s + k].frame]]
        : s \in {i \in Slots : StartsBlock(i)}}

Abstract == INSTANCE PageSpace WITH blocks <- Blocks, Reserved <- BootSlots

\* Every step of paging.c, seen through the END_OF_BLOCK bits it leaves in
\* the table, is a step of PageSpace: page() maps one whole run of free slots
\* to consecutive frames, unpage() takes back one whole run.
ImplementsPageSpace == Abstract!Spec
===============================================================================
