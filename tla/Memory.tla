-------------------------------- MODULE Memory --------------------------------
(***************************************************************************)
(* The physical memory allocator, memory/memory.c, on top of Paging.       *)
(*                                                                         *)
(* The allocator keeps its fields and its bitmap, mem_map, in one page, of *)
(* which g_memory_allocator is the pointer; here the pointer is the page   *)
(* table slot of that page.  Bits of the bitmap behind the end of the page *)
(* are words of whatever the following slots map: reading one gives either *)
(* value, writing one changes foreign memory, and either is a page fault   *)
(* where the slot is not present.                                          *)
(***************************************************************************)
EXTENDS Paging

CONSTANTS
    WordBits,    \* bits in a word of mem_map (32)
    PageWords,   \* words in a page (1024)
    CmosSizes    \* the extended memory the CMOS may report, in page units

ASSUME BitmapAssumption ==
    /\ WordBits \in Nat \ {0}
    /\ PageWords \in Nat \ {0, 1, 2, 3}
    /\ CmosSizes \subseteq Nat

\* min_address, max_address and block_count precede the bitmap.
HeaderWords == 3

\* The bits that lie in the allocator's own page.
MapBits == (PageWords - HeaderWords) * WordBits

(***************************************************************************)
(* What the theorems assume of the machine.                                *)
(***************************************************************************)

\* The text-mode memory is below the kernel, and there is memory above it.
EnoughMemory ==
    /\ KernelFirst > 0 /\ VgaFrame < KernelLast /\ KernelLast + 2 < NFrames
    /\ \A bytes \in CmosSizes : (KernelLast + 1) * PAGE_SIZE <= bytes

\* The address space does not wrap before the end of the memory.
MemoryAddressable ==
    /\ EnoughMemory
    /\ \A bytes \in CmosSizes :
          KernelFirst * PAGE_SIZE + bytes <= NFrames * PAGE_SIZE

\* The bitmap's page has a bit for every block, and a bit number that wraps
\* around the address space is none of them.
MapHoldsMemory ==
    /\ EnoughMemory
    /\ \A bytes \in CmosSizes : bytes <= MapBits * PAGE_SIZE
    /\ KernelLast + 2 + 2 * MapBits <= NFrames

NULL == -1

VARIABLES
    g_memory_allocator,  \* slot of the bookkeeping page, NULL before mem_initialize()
    min_address,         \* frame of block 0
    max_address,         \* in page units
    block_count,
    mem_map,             \* the bits set in the allocator's own page
    chunks,              \* history: what kmalloc() returned and kfree() has not had
    ranged,              \* history: kmalloc() was asked for more than one block
    faulted              \* an access to a slot that is not present

memVars == <<g_memory_allocator, min_address, max_address, block_count, mem_map,
             chunks, ranged, faulted>>

allVars == <<vars, memVars>>

Chunks == [at : Slots, block : Nat, count : Nat \ {0}]

MemTypeOK ==
    /\ TypeOK
    /\ g_memory_allocator \in Slots \cup {NULL}
    /\ min_address \in Frames
    /\ max_address \in Nat
    /\ block_count \in Frames
    /\ mem_map \subseteq 0 .. (MapBits - 1)
    /\ chunks \subseteq Chunks
    /\ ranged \in BOOLEAN
    /\ faulted \in BOOLEAN

MemInit ==
    /\ Init
    /\ g_memory_allocator = NULL
    /\ min_address = 0
    /\ max_address = 0
    /\ block_count = 0
    /\ mem_map = {}
    /\ chunks = {}
    /\ ranged = FALSE
    /\ faulted = FALSE

MemRunning == Running /\ ~faulted

-------------------------------------------------------------------------------
(***************************************************************************)
(* Access to bits of mem_map.                                              *)
(***************************************************************************)
BitSlot(bit) ==
    g_memory_allocator + ((HeaderWords + (bit \div WordBits)) \div PageWords)

Backed(table, bit) ==
    BitSlot(bit) \in Slots /\ "PRESENT" \in table[BitSlot(bit)].flags

\* The values mem_memory_map_test() may return; none if the read faults.
mem_memory_map_test(bit) ==
    IF bit < MapBits THEN {bit \in mem_map}
    ELSE IF Backed(page_table, bit) THEN BOOLEAN
    ELSE {}

MayBeFree(bit) == FALSE \in mem_memory_map_test(bit)
MayBeUsed(bit) == TRUE \in mem_memory_map_test(bit)
Faults(bit) == mem_memory_map_test(bit) = {}

OwnBits(bits) == {b \in bits : b < MapBits}

\* Writing bits behind the page changes memory whose contents are not part of
\* the model (every read of it gives either value), or faults, depending on
\* the page table in force at the time.  The page's own bits come first.
WriteFaults(table, bits) == \E b \in bits : b >= MapBits /\ ~Backed(table, b)

\* Mutants: the word is assigned the new bits, "=" for "|="; the bit is
\* shifted one too far.
MapAssign(table, bits) ==
    /\ mem_map' = OwnBits(bits)
    /\ faulted' = WriteFaults(table, bits)

MapSetNext(table, bits) ==
    /\ mem_map' = mem_map \cup OwnBits({b + 1 : b \in bits})
    /\ faulted' = WriteFaults(table, bits)

mem_memory_map_set(table, bits) ==
    /\ mem_map' = mem_map \cup OwnBits(bits)
    /\ faulted' = WriteFaults(table, bits)

mem_memory_map_unset(table, bits) ==
    /\ mem_map' = mem_map \ OwnBits(bits)
    /\ faulted' = WriteFaults(table, bits)

-------------------------------------------------------------------------------
(***************************************************************************)
(* The search for free blocks.  Both searches look at whole words.         *)
(***************************************************************************)

\* Mutant: the last, incomplete word is searched too.
ScannedBlocksRoundedUp == ((block_count \div WordBits) + 1) * WordBits

ScannedBlocks == (block_count \div WordBits) * WordBits

\* mem_find_first_free_block_range() tests size + 1 bits, starting at the bit
\* whose number is the word's first bit plus the candidate's MASK (1 << j),
\* and takes the candidate when `size` of them are free.
WindowStart(q) == (q \div WordBits) * WordBits + 2 ^ (q % WordBits)

TestedBits(q, last) == WindowStart(q) .. (WindowStart(q) + last)

MayTakeRange(q, size) ==
    \E last \in {size - 1, size} :
        /\ \A b \in TestedBits(q, last) : ~Faults(b)
        /\ Cardinality({b \in TestedBits(q, last) : MayBeFree(b)}) >= size

MayPassRange(q, size) ==
    /\ \A b \in TestedBits(q, size) : ~Faults(b)
    /\ Cardinality({b \in TestedBits(q, size) : ~MayBeUsed(b)}) < size

MayFaultInRange(q, size) ==
    \E last \in 0 .. size :
        /\ Faults(WindowStart(q) + last)
        /\ \A b \in TestedBits(q, last - 1) : ~Faults(b)
        /\ Cardinality({b \in TestedBits(q, last - 1) : ~MayBeUsed(b)}) < size

\* What may come of looking at block q: it is taken, passed over, or the
\* look faults.  A single block is tested by its own bit alone.
MayTake(q, size) == MayBeFree(q) /\ (size = 1 \/ MayTakeRange(q, size))
MayPass(q, size) ==
    MayBeUsed(q) \/ (size > 1 /\ MayBeFree(q) /\ MayPassRange(q, size))
MayFault(q, size) ==
    Faults(q) \/ (size > 1 /\ MayBeFree(q) /\ MayFaultInRange(q, size))

PassedBefore(q, size) == \A k \in 0 .. (q - 1) : MayPass(k, size)

mem_find_first_free_block_range(q, size) ==
    q < ScannedBlocks /\ PassedBefore(q, size) /\ MayTake(q, size)

SearchFaults(size) ==
    \E q \in 0 .. (ScannedBlocks - 1) : PassedBefore(q, size) /\ MayFault(q, size)

OutOfMemory(size) == PassedBefore(ScannedBlocks, size)

-------------------------------------------------------------------------------
(***************************************************************************)
(* The operations.                                                         *)
(***************************************************************************)

\* What two bytes of the CMOS say, in units of 1024 bytes: one of CmosSizes.
mem_get_bytes == CmosSizes

\* Addresses are 32 bits wide: max_address - min_address wraps.
mem_initialize ==
    /\ MemRunning
    /\ g_memory_allocator = NULL
    /\ \E bytes \in mem_get_bytes :
          /\ \/ \E i \in Slots :
                   /\ find_free_blocks_offset(i, RequiredPageCount(PAGE_SIZE))
                   /\ PageAt(i, compute_highest_free_address, 0, PAGE_SIZE,
                             {"READ_WRITE"})
                   /\ g_memory_allocator' = i
                   /\ mem_map' = {}
                   /\ min_address' = (compute_highest_free_address + 1) % NFrames
                   /\ max_address' = bytes
                   /\ block_count' =
                         ((bytes - compute_highest_free_address * PAGE_SIZE)
                             % (NFrames * PAGE_SIZE)) \div PAGE_SIZE
             \/ /\ OutOfPageSpace(PAGE_SIZE, {"READ_WRITE"})
                /\ UNCHANGED <<g_memory_allocator, mem_map, min_address,
                               max_address, block_count>>
    /\ UNCHANGED <<chunks, ranged, faulted>>

\* Mutants: rounded down; rounded up without the extra block page() counts.
RequiredBlockCountDown(size) == size \div PAGE_SIZE
RequiredBlockCountUp(size) == (size + PAGE_SIZE - 1) \div PAGE_SIZE

RequiredBlockCount(size) == (size \div PAGE_SIZE) + 1

\* The bits are set before page() is called: a failure of page() leaves them.
KmallocAt(q, size) ==
    LET count == RequiredBlockCount(size)
        frame == (min_address + q) % NFrames
    IN  /\ mem_memory_map_set(page_table, q .. (q + count - 1))
        /\ \/ /\ ~faulted'
              /\ \E i \in Slots :
                    /\ find_free_blocks_offset(i, RequiredPageCount(size))
                    /\ PageAt(i, frame, 0, size, {"READ_WRITE"})
                    /\ chunks' = chunks \cup
                                    {[at |-> i, block |-> q, count |-> count]}
           \/ /\ ~faulted'
              /\ OutOfPageSpace(size, {"READ_WRITE"})
              /\ UNCHANGED chunks
           \/ /\ faulted'
              /\ UNCHANGED <<vars, chunks>>

\* panic ("Out of physical memory.")
KmallocPanic(size) ==
    /\ OutOfMemory(RequiredBlockCount(size))
    /\ status' = "panic"
    /\ UNCHANGED <<page_table, tlb, live, unpaged, mem_map, chunks, faulted>>

KmallocFault(size) ==
    /\ SearchFaults(RequiredBlockCount(size))
    /\ faulted' = TRUE
    /\ UNCHANGED <<vars, mem_map, chunks>>

kmalloc(size) ==
    /\ MemRunning
    /\ g_memory_allocator # NULL
    /\ \/ \E q \in 0 .. (ScannedBlocks - 1) :
             /\ mem_find_first_free_block_range(q, RequiredBlockCount(size))
             /\ KmallocAt(q, size)
       \/ KmallocPanic(size)
       \/ KmallocFault(size)
    /\ ranged' = (ranged \/ RequiredBlockCount(size) > 1)
    /\ UNCHANGED <<g_memory_allocator, min_address, max_address, block_count>>

\* Mutant: min_address is not taken into account.
FirstFreedBitAbsolute(frame) == frame

\* The first bit to clear: min_address - physical_address, which wraps for
\* every block but block 0.
FirstFreedBit(frame) == (min_address - frame) % NFrames

\* The argument is an allocation in use, so unpage() comes to the end of its
\* block (ChunksMapTheirBlocks): it neither panics nor runs over the tables.
kfree(chunk) ==
    /\ MemRunning
    /\ chunk \in chunks
    /\ UnpageBlock(TableOffset(VirtPage(chunk.at)))
    /\ live' = {o \in live : o.at # chunk.at}
    /\ chunks' = chunks \ {chunk}
    /\ LET first == FirstFreedBit(get_physical_address(VirtPage(chunk.at)))
       IN  mem_memory_map_unset(page_table', first .. (first + unpaged' - 1))
    /\ UNCHANGED <<g_memory_allocator, min_address, max_address, block_count,
                   ranged>>

MemNext ==
    \/ mem_initialize
    \/ \E size \in Sizes : kmalloc(size)
    \/ \E chunk \in chunks : kfree(chunk)

MemSpec == MemInit /\ [][MemNext]_allVars

-------------------------------------------------------------------------------
(***************************************************************************)
(* Properties.                                                             *)
(***************************************************************************)
BlocksOf(c) == c.block .. (c.block + c.count - 1)

\* "Allocate memory for the kernel" (memory.h:20): two allocations that are
\* both in use never share a block of physical memory.
NoSharedBlocks ==
    \A c1, c2 \in chunks : c1 # c2 => BlocksOf(c1) \cap BlocksOf(c2) = {}

\* As long as nobody asked for more than one block, which is all that the
\* kernel's own caller does (ata.c:226), no block is handed out twice, in any
\* order of allocating and freeing (memory.c:99-120, 161-192).
SingleBlocksNotShared == ~ranged => NoSharedBlocks

\* The entries behind the pointer of an allocation map its own blocks, in
\* order, and the last one ends the block: what kmalloc() counts in blocks is
\* what page() counts in pages (memory.c:169, paging.c:160), and neither a
\* fault, a panic nor a later call disturbs it.
ChunksMapTheirBlocks ==
    \A c \in chunks : \A k \in 0 .. (c.count - 1) :
        LET e == page_table[c.at + k]
        IN  /\ e.frame = (min_address + c.block + k) % NFrames
            /\ ("END_OF_BLOCK" \in e.flags) = (k = c.count - 1)

\* A block in use stays marked as used, whatever else is freed: no kfree()
\* clears the bit of another allocation (memory.c:207-213), unless a range
\* was given blocks in use before.
LiveBlocksMarked ==
    ~ranged => \A c \in chunks : BlocksOf(c) \subseteq mem_map

\* The block lies behind the kernel image and the bookkeeping page, and before
\* the end of the extended memory, which starts with the kernel's first frame.
InRam(block) ==
    LET frame == (min_address + block) % NFrames
    IN  /\ frame > KernelLast + 1
        /\ (frame + 1) * PAGE_SIZE <= KernelFirst * PAGE_SIZE + max_address

\* Every block of an allocation of no more than KernelFirst blocks (1 MiB) is
\* memory the machine has.  The block count is one too large and max_address
\* is short of the first MiB (memory.c:44-58, 91-94), and a range goes on
\* behind the block that it was found at without a look at the end
\* (memory.c:146-152): the megabyte left out is room for it, up to its size,
\* and a longer one may end where no memory is.
BlocksInRam ==
    \A c \in chunks : c.count <= KernelFirst => \A b \in BlocksOf(c) : InRam(b)

\* As long as no blocks are shared, a page frame is reachable through one
\* pointer only, apart from the second entry of the bookkeeping page, which
\* mem_initialize() maps over block 0 (memory.c:86 asks for 4096 bytes, for
\* which page() makes two entries).
FramesMappedOnce ==
    ~ranged => \A s, t \in Slots \ (BootSlots \cup {g_memory_allocator + 1}) :
        s # t /\ InUse(page_table[s]) /\ InUse(page_table[t])
            => page_table[s].frame # page_table[t].frame

\* "Free up memory allocated by kmalloc" (memory.h:29): the bitmap marks the
\* blocks of the allocations in use and no others.
FreedBlocksAreFree ==
    status = "running" => mem_map = UNION {BlocksOf(c) : c \in chunks}
===============================================================================
