----------------------------- MODULE MemoryProofs -----------------------------
(***************************************************************************)
(* The allocator, for every size of memory, bitmap and page table.  Its    *)
(* calls of page() and unpage() keep the invariant of PagingProofs, and    *)
(* every chunk in use has its object there.  What holds only as long as    *)
(* single blocks are asked for, and on a machine whose memory the bitmap   *)
(* can hold, is assumed by name.                                           *)
(***************************************************************************)
EXTENDS Memory, PagingProofs

-------------------------------------------------------------------------------
(***************************************************************************)
(* Arithmetic.                                                             *)
(***************************************************************************)

LEMMA RemainderIsUnique ==
    ASSUME NEW x \in Int, NEW n \in Nat \ {0}, NEW q \in Int, NEW r \in 0 .. (n - 1),
           x = n * q + r
    PROVE  x % n = r
<1> DEFINE d == x \div n
           m == x % n
<1>1. d \in Int /\ m \in 0 .. (n - 1) /\ x = n * d + m
  OBVIOUS
<1> HIDE DEF d, m
<1>2. n * (q - d) = m - r
  <2>1. n * (q - d) = n * q - n * d
    BY <1>1
  <2> QED
    BY <1>1, <2>1
<1>3. ~(q - d >= 1)
  <2> SUFFICES ASSUME q - d >= 1 PROVE FALSE
    OBVIOUS
  <2>1. n * (q - d) >= n
    <3>1. q - d - 1 \in Nat
      BY <1>1
    <3>2. n * (q - d - 1) >= 0
      BY <3>1
    <3>3. n * (q - d) = n * (q - d - 1) + n
      BY <1>1
    <3> QED
      BY <1>1, <3>2, <3>3
  <2> QED
    BY <1>1, <1>2, <2>1
<1>4. ~(d - q >= 1)
  <2> SUFFICES ASSUME d - q >= 1 PROVE FALSE
    OBVIOUS
  <2>1. n * (d - q) >= n
    <3>1. d - q - 1 \in Nat
      BY <1>1
    <3>2. n * (d - q - 1) >= 0
      BY <3>1
    <3>3. n * (d - q) = n * (d - q - 1) + n
      BY <1>1
    <3> QED
      BY <1>1, <3>2, <3>3
  <2>2. n * (d - q) = r - m
    <3>1. n * (d - q) = n * d - n * q
      BY <1>1
    <3> QED
      BY <1>1, <3>1
  <2> QED
    BY <1>1, <2>1, <2>2
<1>5. q = d
  BY <1>1, <1>3, <1>4
<1> QED
  BY <1>1, <1>5 DEF m

\* Addresses may wrap once or in two steps.
LEMMA WrapsOnce ==
    ASSUME NEW x \in Int, NEW k \in Int, NEW n \in Nat \ {0}
    PROVE  ((x % n) + k) % n = (x + k) % n
<1> DEFINE d == x \div n
           m == x % n
           e == (m + k) \div n
           r == (m + k) % n
<1>1. d \in Int /\ m \in Int /\ x = n * d + m
  OBVIOUS
<1>2. e \in Int /\ r \in 0 .. (n - 1) /\ m + k = n * e + r
  <2> HIDE DEF m
  <2> QED
    BY <1>1
<1> HIDE DEF d, m, e, r
<1>3. x + k = n * (d + e) + r
  <2>1. n * (d + e) = n * d + n * e
    BY <1>1, <1>2
  <2> QED
    BY <1>1, <1>2, <2>1
<1>4. (x + k) % n = r
  <2> DEFINE q == d + e
             y == x + k
  <2>1. y \in Int /\ q \in Int /\ y = n * q + r
    BY <1>1, <1>2, <1>3
  <2> HIDE DEF q, y
  <2>2. y % n = r
    BY <1>2, <2>1, RemainderIsUnique
  <2> QED
    BY <2>2 DEF y
<1> QED
  BY <1>4 DEF r, m

LEMMA SmallRemainder ==
    ASSUME NEW n \in Nat \ {0}, NEW x \in 0 .. (n - 1)
    PROVE  x % n = x
OBVIOUS

\* A bit number of the blocks and one of the bitmap's page.
LEMMA BlockCountInFrames ==
    ASSUME NEW x \in Int
    PROVE  (x % (NFrames * PAGE_SIZE)) \div PAGE_SIZE \in Frames
<1> DEFINE n == NFrames * PAGE_SIZE
           m == x % n
<1>1. n \in Nat \ {0}
  BY SizesAssumption
<1>2. m \in Nat /\ m < n
  <2> HIDE DEF n
  <2> QED
    BY <1>1
<1> HIDE DEF m
<1>3. m < NFrames * PAGE_SIZE
  BY <1>2
<1> HIDE DEF n
<1>4. m \div PAGE_SIZE \in Nat /\ PAGE_SIZE * (m \div PAGE_SIZE) <= m
  BY <1>2, SizesAssumption
<1> DEFINE q == m \div PAGE_SIZE
<1>5. q < NFrames
  <2> HIDE DEF q
  <2> SUFFICES ASSUME q >= NFrames PROVE FALSE
    BY <1>4, SizesAssumption DEF q
  <2>1. q - NFrames \in Nat
    BY <1>4, SizesAssumption DEF q
  <2>2. PAGE_SIZE * (q - NFrames) >= 0
    BY <2>1, SizesAssumption
  <2>3. PAGE_SIZE * q = PAGE_SIZE * (q - NFrames) + NFrames * PAGE_SIZE
    BY <1>4, SizesAssumption DEF q
  <2>4. PAGE_SIZE * q >= NFrames * PAGE_SIZE
    BY <2>1, <2>2, <2>3, SizesAssumption
  <2>5. PAGE_SIZE * q <= m
    BY <1>4 DEF q
  <2> QED
    BY <1>2, <1>3, <1>4, <2>4, <2>5, SizesAssumption DEF q
<1> QED
  BY <1>4, <1>5, SizesAssumption DEF Frames, m, n

LEMMA WholeWords ==
    ASSUME NEW a \in Nat, NEW n \in Nat \ {0}
    PROVE  (a \div n) * n \in Nat /\ (a \div n) * n <= a
<1> DEFINE d == a \div n
           r == a % n
<1>1. d \in Nat /\ r \in 0 .. (n - 1) /\ a = n * d + r
  OBVIOUS
<1> HIDE DEF d, r
<1>2. d * n \in Nat /\ d * n = n * d
  BY <1>1
<1> QED
  BY <1>1, <1>2 DEF d

LEMMA SearchedIsNatural ==
    ASSUME block_count \in Nat
    PROVE  ScannedBlocks \in Nat /\ ScannedBlocks <= block_count
BY WholeWords, BitmapAssumption DEF ScannedBlocks

-------------------------------------------------------------------------------
(***************************************************************************)
(* The invariant.                                                          *)
(***************************************************************************)

\* What kmalloc() returned is an object of page(), of as many entries as the
\* allocation has blocks.
IsChunk(o, c) ==
    /\ o.at = c.at
    /\ RequiredPageCount(o.size) = c.count
    /\ o.frame = (min_address + c.block) % NFrames

ChunksHaveObjects == \A c \in chunks : \E o \in live : IsChunk(o, c)
PointersDiffer == \A c, d \in chunks : c # d => c.at # d.at

\* Nothing is mapped before mem_initialize() has mapped the bitmap.
BootBefore ==
    g_memory_allocator = NULL =>
        /\ page_table = [i \in Slots |-> BootEntry(i)]
        /\ live = {} /\ chunks = {}

MemInv ==
    /\ IInv
    /\ MemTypeOK
    /\ BootBefore
    /\ ChunksHaveObjects
    /\ PointersDiffer

LEMMA InitMemInv == MemInit => MemInv
<1> SUFFICES ASSUME MemInit PROVE MemInv
  OBVIOUS
<1>1. IInv
  BY InitIInv DEF MemInit
<1>2. MemTypeOK
  <2>1. 0 \in Frames /\ 0 \in Nat
    BY SizesAssumption DEF Frames
  <2>2. TypeOK
    BY <1>1 DEF IInv
  <2> QED
    BY <2>1, <2>2 DEF MemInit, MemTypeOK
<1> QED
  BY <1>1, <1>2 DEF MemInit, Init, MemInv, BootBefore, ChunksHaveObjects, PointersDiffer

\* The highest frame the boot map uses.
BootHighest == IF VgaFrame > KernelLast THEN VgaFrame ELSE KernelLast

LEMMA HighestAtBoot ==
    ASSUME page_table = [i \in Slots |-> BootEntry(i)]
    PROVE  HighestFrame = BootHighest /\ BootHighest \in Frames
<1> DEFINE Highest(f) == /\ \E i \in Slots : page_table[i].frame = f
                         /\ \A i \in Slots : page_table[i].frame <= f
<1>1. BootHighest \in Frames /\ BootHighest \in Nat
  BY BootAssumption, SizesAssumption DEF BootHighest, Frames
<1>2. /\ KernelLast \in Slots /\ page_table[KernelLast].frame = KernelLast
      /\ VgaSlot \in Slots /\ page_table[VgaSlot].frame = VgaFrame
  BY SlotsType, BootAssumption DEF BootEntry
<1>3. ASSUME NEW i \in Slots PROVE page_table[i].frame <= BootHighest
  <2>1. page_table[i].frame \in {i, VgaFrame, 0} /\ i \in Nat
    BY SlotsType DEF BootEntry, Unused
  <2>2. i \in KernelFirst .. KernelLast => i <= BootHighest
    BY BootAssumption, SizesAssumption DEF BootHighest, Frames
  <2>3. VgaFrame <= BootHighest /\ 0 <= BootHighest
    BY BootAssumption, SizesAssumption DEF BootHighest, Frames
  <2> QED
    BY <2>1, <2>2, <2>3 DEF BootEntry, Unused
<1>4. Highest(BootHighest)
  BY <1>2, <1>3 DEF BootHighest
<1>5. ASSUME NEW f \in Frames, Highest(f) PROVE f = BootHighest
  BY <1>1, <1>4, <1>5, SizesAssumption DEF Frames
<1>6. HighestFrame \in Frames /\ Highest(HighestFrame)
  BY <1>1, <1>4 DEF HighestFrame
<1> QED
  BY <1>1, <1>5, <1>6

\* A panic, or nothing at all, disturbs no object.
LEMMA StopPreserves ==
    ASSUME IInv, UNCHANGED <<page_table, tlb, live, unpaged>>,
           status' \in {status, "panic"}
    PROVE  IInv'
BY DEF IInv, TypeOK, MappingsIntact, ObjectsDisjoint, NoLeakedPages,
       BootMapUnchanged, TlbCoherent, Running, SlotsOf, PromisedEntry,
       RequiredPageCount

\* A new object is where no other one starts.
LEMMA PageAdds ==
    ASSUME IInv, NEW frame \in Frames, NEW size \in Nat, NEW i,
           find_free_blocks_offset(i, RequiredPageCount(size)),
           PageAt(i, frame, 0, size, {"READ_WRITE"})
    PROVE  /\ IInv' /\ i \in Slots
           /\ \E o : /\ o = [at |-> i, off |-> 0, frame |-> frame, size |-> size,
                             flags |-> {"READ_WRITE"}]
                     /\ live' = live \cup {o}
           /\ \A o \in live : o.at # i
           /\ status' = status
<1>1. i \in FreeRuns(RequiredPageCount(size))
  BY DEF find_free_blocks_offset
<1>2. {"READ_WRITE"} \in ClientFlags /\ 0 \in 0 .. (PAGE_SIZE - 1)
  BY SizesAssumption DEF ClientFlags
<1>3. IInv'
  BY <1>1, <1>2, PagePreserves
<1>4. i \in Slots /\ i \in i .. (i + RequiredPageCount(size) - 1)
  BY <1>1, SlotsType, RequiredPageCountType DEF FreeRuns
<1>5. \A o \in live : i \notin SlotsOf(o)
  BY <1>1, <1>4, FreeRunIsFree
<1>6. \A o \in live : o.at \in SlotsOf(o)
  BY SlotsOfObject DEF IInv, TypeOK
<1> QED
  BY <1>3, <1>4, <1>5, <1>6 DEF PageAt

LEMMA MapTypes ==
    ASSUME mem_map \subseteq 0 .. (MapBits - 1), NEW table, NEW bits \in SUBSET Nat,
           \/ mem_memory_map_set(table, bits)
           \/ mem_memory_map_unset(table, bits)
    PROVE  mem_map' \subseteq 0 .. (MapBits - 1) /\ faulted' \in BOOLEAN
<1>1. MapBits \in Int
  BY BitmapAssumption DEF MapBits, HeaderWords
<1>2. OwnBits(bits) \subseteq 0 .. (MapBits - 1)
  <2> HIDE DEF MapBits
  <2> SUFFICES ASSUME NEW b \in bits, b < MapBits PROVE b \in 0 .. (MapBits - 1)
    BY DEF OwnBits
  <2>1. b \in Nat
    OBVIOUS
  <2> QED
    BY <1>1, <2>1
<1>3. faulted' \in BOOLEAN
  BY DEF mem_memory_map_set, mem_memory_map_unset, WriteFaults
<1> QED
  BY <1>2, <1>3 DEF mem_memory_map_set, mem_memory_map_unset

-------------------------------------------------------------------------------
(***************************************************************************)
(* The operations preserve it.                                             *)
(***************************************************************************)

\* A step of the allocator that leaves its chunks and its window alone.
LEMMA ChunksStay ==
    ASSUME MemInv, IInv', MemTypeOK', UNCHANGED <<chunks, min_address>>,
           g_memory_allocator # NULL, g_memory_allocator' = g_memory_allocator,
           live \subseteq live'
    PROVE  MemInv'
<1>1. ChunksHaveObjects'
  BY DEF MemInv, ChunksHaveObjects, IsChunk, RequiredPageCount
<1> QED
  BY <1>1 DEF MemInv, BootBefore, PointersDiffer

LEMMA InitializeMemInv ==
    ASSUME MemInv, mem_initialize
    PROVE  MemInv'
<1> DEFINE high == compute_highest_free_address
<1>1. /\ page_table = [i \in Slots |-> BootEntry(i)]
      /\ live = {} /\ chunks = {} /\ chunks' = {}
      /\ ranged' = ranged /\ faulted' = faulted
  BY DEF mem_initialize, MemInv, BootBefore
<1>2. HighestFrame \in Nat /\ NFrames \in Nat \ {0}
  BY <1>1, HighestAtBoot, SizesAssumption DEF Frames
<1>3. high \in Frames /\ (high + 1) % NFrames \in Frames
  <2>1. \A x \in Nat : x % NFrames \in Frames
    BY <1>2 DEF Frames
  <2>2. \A f \in Frames : f + 1 \in Nat
    BY <1>2 DEF Frames
  <2>3. high \in Frames
    BY <1>2, <2>1 DEF compute_highest_free_address
  <2> HIDE DEF high
  <2> QED
    BY <2>1, <2>2, <2>3
<1>4. PAGE_SIZE \in Nat /\ 0 \in Nat
  BY SizesAssumption
<1>5. PICK bytes \in CmosSizes :
         \/ \E i \in Slots :
               /\ find_free_blocks_offset(i, RequiredPageCount(PAGE_SIZE))
               /\ PageAt(i, high, 0, PAGE_SIZE, {"READ_WRITE"})
               /\ g_memory_allocator' = i
               /\ mem_map' = {}
               /\ min_address' = (high + 1) % NFrames
               /\ max_address' = bytes
               /\ block_count' = ((bytes - high * PAGE_SIZE)
                                    % (NFrames * PAGE_SIZE)) \div PAGE_SIZE
         \/ /\ OutOfPageSpace(PAGE_SIZE, {"READ_WRITE"})
            /\ UNCHANGED <<g_memory_allocator, mem_map, min_address,
                           max_address, block_count>>
  BY DEF mem_initialize, mem_get_bytes
<1>6. CASE OutOfPageSpace(PAGE_SIZE, {"READ_WRITE"})
           /\ UNCHANGED <<g_memory_allocator, mem_map, min_address,
                          max_address, block_count>>
  <2>1. UNCHANGED <<page_table, tlb, live, unpaged>> /\ status' = "panic"
    BY <1>6 DEF OutOfPageSpace
  <2>2. IInv'
    BY <2>1, StopPreserves DEF MemInv
  <2>3. MemTypeOK'
    BY <1>1, <1>6, <2>2 DEF MemInv, MemTypeOK, IInv
  <2> QED
    BY <1>1, <1>6, <2>1, <2>2, <2>3
       DEF MemInv, BootBefore, ChunksHaveObjects, PointersDiffer
<1>7. CASE \E i \in Slots :
               /\ find_free_blocks_offset(i, RequiredPageCount(PAGE_SIZE))
               /\ PageAt(i, high, 0, PAGE_SIZE, {"READ_WRITE"})
               /\ g_memory_allocator' = i
               /\ mem_map' = {}
               /\ min_address' = (high + 1) % NFrames
               /\ max_address' = bytes
               /\ block_count' = ((bytes - high * PAGE_SIZE)
                                    % (NFrames * PAGE_SIZE)) \div PAGE_SIZE
  <2> HIDE DEF high
  <2>1. PICK i \in Slots :
           /\ find_free_blocks_offset(i, RequiredPageCount(PAGE_SIZE))
           /\ PageAt(i, high, 0, PAGE_SIZE, {"READ_WRITE"})
           /\ g_memory_allocator' = i
           /\ mem_map' = {}
           /\ min_address' = (high + 1) % NFrames
           /\ max_address' = bytes
           /\ block_count' = ((bytes - high * PAGE_SIZE)
                                % (NFrames * PAGE_SIZE)) \div PAGE_SIZE
    BY <1>7
  <2>2. IInv'
    BY <1>3, <1>4, <2>1, PageAdds DEF MemInv
  <2>3. block_count' \in Frames
    <3>1. bytes - high * PAGE_SIZE \in Int
      BY <1>3, <1>4, BitmapAssumption, SizesAssumption DEF Frames
    <3> QED
      BY <2>1, <3>1, BlockCountInFrames
  <2>4. MemTypeOK'
    BY <1>1, <1>3, <2>1, <2>2, <2>3, BitmapAssumption
       DEF MemInv, MemTypeOK, IInv
  <2>5. g_memory_allocator' # NULL
    BY <2>1, SlotsType DEF NULL
  <2> QED
    BY <1>1, <2>2, <2>4, <2>5
       DEF MemInv, BootBefore, ChunksHaveObjects, PointersDiffer
<1> QED
  BY <1>5, <1>6, <1>7

\* The blocks a search may return, and what kmalloc() makes of them.
LEMMA KmallocMemInv ==
    ASSUME MemInv, NEW size \in Sizes, kmalloc(size)
    PROVE  MemInv'
<1> DEFINE count == RequiredBlockCount(size)
<1>1. /\ size \in Nat /\ count = RequiredPageCount(size) /\ count \in Nat \ {0}
  BY ArgumentsAssumption, RequiredPageCountType DEF RequiredBlockCount, RequiredPageCount
<1>2. /\ g_memory_allocator # NULL /\ ranged' \in BOOLEAN
      /\ UNCHANGED <<g_memory_allocator, min_address, max_address, block_count>>
      /\ MemTypeOK /\ IInv /\ mem_map \subseteq 0 .. (MapBits - 1)
      /\ chunks \subseteq Chunks
  BY DEF kmalloc, MemInv, MemTypeOK
<1>3. CASE KmallocPanic(size)
  <2>1. /\ UNCHANGED <<page_table, tlb, live, unpaged, mem_map, chunks, faulted>>
        /\ status' = "panic"
    BY <1>3 DEF KmallocPanic
  <2>2. IInv'
    BY <1>2, <2>1, StopPreserves
  <2>3. MemTypeOK'
    BY <1>2, <2>1, <2>2 DEF MemTypeOK, IInv
  <2> QED
    BY <1>2, <2>1, <2>2, <2>3, ChunksStay
<1>4. CASE KmallocFault(size)
  <2>1. UNCHANGED <<vars, mem_map, chunks>> /\ faulted' = TRUE
    BY <1>4 DEF KmallocFault
  <2>2. IInv'
    BY <1>2, <2>1, StopPreserves DEF vars
  <2>3. MemTypeOK'
    BY <1>2, <2>1, <2>2 DEF MemTypeOK, IInv
  <2> QED
    BY <1>2, <2>1, <2>2, <2>3, ChunksStay DEF vars
<1>5. ASSUME NEW q \in 0 .. (ScannedBlocks - 1), KmallocAt(q, size)
      PROVE  MemInv'
  <2> DEFINE frame == (min_address + q) % NFrames
             c(i) == [at |-> i, block |-> q, count |-> count]
  <2>1. q \in Nat /\ min_address \in Nat /\ frame \in Frames
    <3>1. q \in Nat
      BY <1>2, SearchedIsNatural, SizesAssumption DEF MemTypeOK, Frames
    <3>2. min_address \in Nat
      BY <1>2, SizesAssumption DEF MemTypeOK, Frames
    <3> QED
      BY <3>1, <3>2, SizesAssumption DEF Frames
  <2>2. /\ mem_memory_map_set(page_table, q .. (q + count - 1))
        /\ \/ /\ ~faulted'
              /\ \E i \in Slots :
                    /\ find_free_blocks_offset(i, RequiredPageCount(size))
                    /\ PageAt(i, frame, 0, size, {"READ_WRITE"})
                    /\ chunks' = chunks \cup {c(i)}
           \/ OutOfPageSpace(size, {"READ_WRITE"}) /\ UNCHANGED chunks
           \/ UNCHANGED <<vars, chunks>>
    BY <1>5 DEF KmallocAt
  <2>3. mem_map' \subseteq 0 .. (MapBits - 1) /\ faulted' \in BOOLEAN
    <3>1. q .. (q + count - 1) \in SUBSET Nat
      BY <1>1, <2>1
    <3> QED
      BY <1>2, <2>2, <3>1, MapTypes
  <2> HIDE DEF frame
  <2>4. CASE (OutOfPageSpace(size, {"READ_WRITE"}) \/ UNCHANGED vars) /\ UNCHANGED chunks
    <3>1. UNCHANGED <<page_table, tlb, live, unpaged>> /\ status' \in {status, "panic"}
      BY <2>4 DEF OutOfPageSpace, vars
    <3>2. IInv'
      BY <1>2, <3>1, StopPreserves
    <3>3. MemTypeOK'
      BY <1>2, <2>3, <2>4, <3>2 DEF MemTypeOK, IInv
    <3> QED
      BY <1>2, <2>4, <3>1, <3>2, <3>3, ChunksStay
  <2>5. ASSUME NEW i \in Slots,
               find_free_blocks_offset(i, RequiredPageCount(size)),
               PageAt(i, frame, 0, size, {"READ_WRITE"}),
               chunks' = chunks \cup {c(i)}
        PROVE  MemInv'
    <3>1. IInv' /\ \A o \in live : o.at # i
      BY <1>1, <1>2, <2>1, <2>5, PageAdds
    <3>2. PICK o : /\ o = [at |-> i, off |-> 0, frame |-> frame, size |-> size,
                           flags |-> {"READ_WRITE"}]
                   /\ live' = live \cup {o}
      BY <1>1, <1>2, <2>1, <2>5, PageAdds
    <3>3. c(i) \in Chunks
      BY <1>1, <2>1 DEF Chunks
    <3>4. MemTypeOK'
      BY <1>2, <2>3, <2>5, <3>1, <3>3 DEF MemTypeOK, IInv
    <3>5. IsChunk(o, c(i)) /\ o \in live'
      BY <1>1, <3>2 DEF IsChunk, frame
    <3>6. ChunksHaveObjects'
      <4>1. \A d \in chunks' : \E p \in live' : IsChunk(p, d)
        BY <2>5, <3>2, <3>5 DEF MemInv, ChunksHaveObjects
      <4> QED
        BY <1>2, <4>1 DEF ChunksHaveObjects, IsChunk, RequiredPageCount
    <3>7. \A d \in chunks : d.at # i
      BY <3>1 DEF MemInv, ChunksHaveObjects, IsChunk
    <3>8. PointersDiffer'
      BY <2>5, <3>7 DEF MemInv, PointersDiffer
    <3> QED
      BY <1>2, <3>1, <3>4, <3>6, <3>8 DEF MemInv, BootBefore
  <2> QED
    BY <2>2, <2>4, <2>5
<1> QED
  BY <1>3, <1>4, <1>5 DEF kmalloc

\* kfree() takes back the object of its allocation and no other, and starts
\* clearing the bitmap where the object's frame tells it to.
LEMMA KfreeTakesBack ==
    ASSUME MemInv, NEW chunk \in chunks, kfree(chunk)
    PROVE  \E o \in live :
              /\ IsChunk(o, chunk)
              /\ live' = live \ {o}
              /\ IInv'
              /\ unpaged' = chunk.count
              /\ mem_memory_map_unset(page_table',
                    FirstFreedBit(o.frame) .. (FirstFreedBit(o.frame) + chunk.count - 1))
<1>1. IInv
  BY DEF MemInv
<1>2. PICK o \in live : IsChunk(o, chunk)
  BY DEF MemInv, ChunksHaveObjects
<1>3. o \in Objects /\ o.at \in Slots /\ o.at \in SlotsOf(o) /\ o.at = chunk.at
      /\ o.frame \in Frames /\ o.frame \in Nat /\ o.at \in Nat
  BY <1>1, <1>2, ObjectFields, SlotsOfObject DEF IInv, TypeOK, IsChunk
<1>4. unpage(VirtPage(o.at))
  BY <1>3 DEF kfree, unpage
<1>5. live' = live \ {o}
  <2>1. \A p \in live : p.at = o.at => p = o
    <3> SUFFICES ASSUME NEW p \in live, p.at = o.at, p # o PROVE FALSE
      OBVIOUS
    <3>1. p.at \in SlotsOf(p)
      BY <1>1, SlotsOfObject DEF IInv, TypeOK
    <3> QED
      BY <1>1, <1>3, <3>1 DEF IInv, ObjectsDisjoint
  <2> QED
    BY <1>3, <2>1 DEF kfree
<1>6. IInv' /\ unpaged' = RequiredPageCount(o.size)
  BY <1>1, <1>4, <1>5, UnpagePreserves, UnpageClearsTheObject
<1>7. get_physical_address(VirtPage(chunk.at)) = o.frame
  <2>1. page_table[o.at] = PromisedEntry(o, o.at)
    BY <1>1, <1>3 DEF IInv, MappingsIntact
  <2>2. (o.frame + (o.at - o.at)) % NFrames = o.frame
    BY <1>3, SizesAssumption DEF Frames
  <2> QED
    BY <1>3, <2>1, <2>2, TableOffsetOfVirtPage DEF get_physical_address, PromisedEntry
<1>8. unpaged' = chunk.count
  BY <1>2, <1>6 DEF IsChunk
<1> QED
  BY <1>2, <1>5, <1>6, <1>7, <1>8 DEF kfree

LEMMA FreedBits ==
    ASSUME NEW frame \in Int, min_address \in Nat
    PROVE  FirstFreedBit(frame) \in Nat
BY SizesAssumption DEF FirstFreedBit

LEMMA KfreeMemInv ==
    ASSUME MemInv, NEW chunk \in chunks, kfree(chunk)
    PROVE  MemInv'
<1>1. PICK o \in live :
         /\ IsChunk(o, chunk) /\ live' = live \ {o} /\ IInv'
         /\ mem_memory_map_unset(page_table',
               FirstFreedBit(o.frame) .. (FirstFreedBit(o.frame) + chunk.count - 1))
  BY KfreeTakesBack
<1>2. /\ chunks' = chunks \ {chunk} /\ g_memory_allocator # NULL
      /\ UNCHANGED <<g_memory_allocator, min_address, max_address, block_count, ranged>>
  BY DEF kfree, MemInv, BootBefore
<1>3. /\ min_address \in Nat /\ o.frame \in Nat /\ chunk.count \in Nat
      /\ chunks \subseteq Chunks /\ mem_map \subseteq 0 .. (MapBits - 1)
  <2>1. MemTypeOK /\ o \in Objects
    BY DEF MemInv, IInv, TypeOK
  <2> QED
    BY <2>1, ObjectFields, SizesAssumption DEF MemTypeOK, Frames, Chunks
<1>4. mem_map' \subseteq 0 .. (MapBits - 1) /\ faulted' \in BOOLEAN
  <2> DEFINE first == FirstFreedBit(o.frame)
  <2>1. first \in Nat
    BY <1>3, FreedBits
  <2> HIDE DEF first
  <2>2. first .. (first + chunk.count - 1) \in SUBSET Nat
    BY <1>3, <2>1
  <2> QED
    BY <1>1, <1>3, <2>2, MapTypes DEF first
<1>5. MemTypeOK'
  BY <1>1, <1>2, <1>4 DEF MemInv, MemTypeOK, IInv
<1>6. ChunksHaveObjects'
  <2>1. ASSUME NEW d \in chunks' PROVE \E p \in live' : IsChunk(p, d)
    <3>1. d \in chunks /\ d.at # chunk.at
      BY <1>2 DEF MemInv, PointersDiffer
    <3>2. PICK p \in live : IsChunk(p, d)
      BY <3>1 DEF MemInv, ChunksHaveObjects
    <3> QED
      BY <1>1, <3>1, <3>2 DEF IsChunk
  <2> QED
    BY <1>2, <2>1 DEF ChunksHaveObjects, IsChunk, RequiredPageCount
<1>7. PointersDiffer'
  BY <1>2 DEF MemInv, PointersDiffer
<1> QED
  BY <1>1, <1>2, <1>5, <1>6, <1>7 DEF MemInv, BootBefore

LEMMA StepMemInv == MemInv /\ [MemNext]_allVars => MemInv'
<1> SUFFICES ASSUME MemInv, [MemNext]_allVars PROVE MemInv'
  OBVIOUS
<1>1. CASE UNCHANGED allVars
  <2>1. UNCHANGED <<page_table, tlb, live, unpaged, status>> /\ UNCHANGED memVars
    BY <1>1 DEF allVars, vars
  <2>2. IInv'
    BY <2>1, StopPreserves DEF MemInv
  <2>3. MemTypeOK'
    BY <2>1, <2>2 DEF memVars, MemInv, MemTypeOK, IInv
  <2> QED
    BY <2>1, <2>2, <2>3
       DEF memVars, MemInv, BootBefore, ChunksHaveObjects, PointersDiffer,
           IsChunk, RequiredPageCount
<1> QED
  BY <1>1, InitializeMemInv, KmallocMemInv, KfreeMemInv DEF MemNext

LEMMA MemInvHolds == MemSpec => []MemInv
BY InitMemInv, StepMemInv, PTL DEF MemSpec

\* The allocator's fields, its bitmap and what it has handed out keep their
\* types, with any memory the CMOS may report (memory.c).
THEOREM MemTypes == MemSpec => []MemTypeOK
<1>1. MemInv => MemTypeOK
  BY DEF MemInv
<1> QED
  BY <1>1, MemInvHolds, PTL

\* For every size of allocation the entries behind its pointer map its own
\* blocks in order, until it is freed (memory.c:161-192, paging.c:158-185).
THEOREM ChunksStayMapped == MemSpec => []ChunksMapTheirBlocks
<1>1. MemInv => ChunksMapTheirBlocks
  <2> SUFFICES ASSUME MemInv, NEW c \in chunks, NEW k \in 0 .. (c.count - 1)
               PROVE  /\ page_table[c.at + k].frame = (min_address + c.block + k) % NFrames
                      /\ ("END_OF_BLOCK" \in page_table[c.at + k].flags)
                            = (k = c.count - 1)
    BY DEF ChunksMapTheirBlocks
  <2>1. PICK o \in live : IsChunk(o, c)
    BY DEF MemInv, ChunksHaveObjects
  <2>2. /\ o \in Objects /\ o.at \in Nat /\ o.at = c.at
        /\ RequiredPageCount(o.size) = c.count /\ c.count \in Nat \ {0}
        /\ min_address \in Nat /\ c.block \in Nat /\ k \in Nat
        /\ o.frame = (min_address + c.block) % NFrames
    <3>1. o \in Objects /\ c \in Chunks /\ min_address \in Frames
      BY DEF MemInv, IInv, TypeOK, MemTypeOK
    <3> QED
      BY <2>1, <3>1, ObjectFields, SizesAssumption DEF IsChunk, Chunks, Frames
  <2> DEFINE s == c.at + k
  <2>3. s \in SlotsOf(o) /\ s - o.at = k
        /\ (s = o.at + RequiredPageCount(o.size) - 1 <=> k = c.count - 1)
    BY <2>2 DEF SlotsOf
  <2>4. page_table[s] = PromisedEntry(o, s)
    BY <2>3 DEF MemInv, IInv, MappingsIntact
  <2>5. page_table[s].frame = (o.frame + k) % NFrames
    BY <2>3, <2>4 DEF PromisedEntry
  <2>6. (o.frame + k) % NFrames = (min_address + c.block + k) % NFrames
    <3>1. min_address + c.block \in Int /\ k \in Int /\ NFrames \in Nat \ {0}
      BY <2>2, SizesAssumption
    <3> QED
      BY <2>2, <3>1, WrapsOnce
  <2> HIDE DEF s
  <2>7. ("END_OF_BLOCK" \in page_table[s].flags) <=> k = c.count - 1
    BY <2>2, <2>3, <2>4, PromisedEntryFacts
  <2>8. ("END_OF_BLOCK" \in page_table[s].flags) = (k = c.count - 1)
    BY <2>7
  <2> QED
    BY <2>5, <2>6, <2>8 DEF s
<1> QED
  BY <1>1, MemInvHolds, PTL

-------------------------------------------------------------------------------
(***************************************************************************)
(* Where the blocks lie.                                                   *)
(***************************************************************************)

\* The blocks end no more than a page behind the memory reported, which
\* starts at the kernel's first frame.
BlocksInv ==
    g_memory_allocator # NULL =>
        /\ min_address = KernelLast + 2
        /\ max_address \in CmosSizes
        /\ block_count * PAGE_SIZE <= max_address - (KernelLast + 1) * PAGE_SIZE

LEMMA RemainderIsNoLarger ==
    ASSUME NEW x \in Nat, NEW n \in Nat \ {0}
    PROVE  x % n \in Nat /\ x % n <= x
<1> DEFINE d == x \div n
           r == x % n
<1>1. d \in Nat /\ r \in 0 .. (n - 1) /\ x = n * d + r
  OBVIOUS
<1> HIDE DEF d, r
<1>2. n * d \in Nat
  BY <1>1
<1> QED
  BY <1>1, <1>2 DEF r

LEMMA InitializeBlocksInv ==
    ASSUME EnoughMemory, MemInv, mem_initialize
    PROVE  BlocksInv'
<1> DEFINE high == compute_highest_free_address
<1>1. page_table = [i \in Slots |-> BootEntry(i)] /\ g_memory_allocator = NULL
  BY DEF mem_initialize, MemInv, BootBefore
<1>2. KernelLast \in Nat /\ KernelFirst \in Nat /\ NFrames \in Nat \ {0}
      /\ PAGE_SIZE \in Nat \ {0} /\ VgaFrame \in Nat
  BY BootAssumption, SizesAssumption DEF Frames
<1>3. HighestFrame = KernelLast
  BY <1>1, <1>2, HighestAtBoot DEF EnoughMemory, BootHighest
<1>4. high = KernelLast + 1 /\ (high + 1) % NFrames = KernelLast + 2
  <2>1. KernelLast + 1 \in 0 .. (NFrames - 1) /\ KernelLast + 2 \in 0 .. (NFrames - 1)
    BY <1>2 DEF EnoughMemory
  <2>2. high = KernelLast + 1
    BY <1>2, <1>3, <2>1, SmallRemainder DEF compute_highest_free_address
  <2>3. high + 1 = KernelLast + 2
    BY <1>2, <2>2
  <2> HIDE DEF high
  <2> QED
    BY <1>2, <2>1, <2>2, <2>3, SmallRemainder
<1> HIDE DEF high
<1>5. PICK bytes \in CmosSizes :
         \/ /\ min_address' = (high + 1) % NFrames
            /\ max_address' = bytes
            /\ block_count' = ((bytes - high * PAGE_SIZE)
                                 % (NFrames * PAGE_SIZE)) \div PAGE_SIZE
         \/ UNCHANGED g_memory_allocator
  BY DEF mem_initialize, mem_get_bytes, high
<1>6. CASE UNCHANGED g_memory_allocator
  BY <1>1, <1>6 DEF BlocksInv
<1>7. CASE /\ min_address' = (high + 1) % NFrames
           /\ max_address' = bytes
           /\ block_count' = ((bytes - high * PAGE_SIZE)
                                % (NFrames * PAGE_SIZE)) \div PAGE_SIZE
  <2> DEFINE x == bytes - (KernelLast + 1) * PAGE_SIZE
             n == NFrames * PAGE_SIZE
             m == x % n
  <2>1. bytes \in Nat /\ (KernelLast + 1) * PAGE_SIZE \in Nat
    BY <1>2, BitmapAssumption
  <2>2. x \in Nat
    <3>1. (KernelLast + 1) * PAGE_SIZE <= bytes
      BY DEF EnoughMemory
    <3> QED
      BY <2>1, <3>1
  <2>3. n \in Nat \ {0}
    BY <1>2
  <2>4. block_count' = m \div PAGE_SIZE
    BY <1>4, <1>7
  <2> HIDE DEF x, n
  <2>5. m \in Nat /\ m <= x
    BY <2>2, <2>3, RemainderIsNoLarger
  <2> HIDE DEF m
  <2>6. block_count' * PAGE_SIZE \in Nat /\ block_count' * PAGE_SIZE <= m
    BY <1>2, <2>4, <2>5, WholeWords
  <2>7. block_count' * PAGE_SIZE <= x
    BY <2>2, <2>5, <2>6
  <2> QED
    BY <1>4, <1>7, <2>7 DEF BlocksInv, x
<1> QED
  BY <1>5, <1>6, <1>7

LEMMA StepBlocksInv ==
    ASSUME EnoughMemory, MemInv, BlocksInv, [MemNext]_allVars
    PROVE  BlocksInv'
<1>1. CASE UNCHANGED <<g_memory_allocator, min_address, max_address, block_count>>
  BY <1>1 DEF BlocksInv
<1>2. CASE UNCHANGED allVars
  BY <1>1, <1>2 DEF allVars, memVars
<1> QED
  BY <1>1, <1>2, InitializeBlocksInv DEF MemNext, kmalloc, kfree

LEMMA BlocksInvHolds ==
    ASSUME EnoughMemory
    PROVE  MemSpec => [](MemInv /\ BlocksInv)
<1>1. MemInit => BlocksInv
  BY DEF MemInit, BlocksInv
<1>2. MemInv /\ BlocksInv /\ [MemNext]_allVars => BlocksInv'
  BY StepBlocksInv
<1> QED
  BY <1>1, <1>2, MemInvHolds, PTL DEF MemSpec

\* An allocation begins with a block that the searches look at.
BeginsInSearch == \A c \in chunks : c.block < ScannedBlocks

LEMMA StepBeginsInSearch ==
    ASSUME MemInv, BeginsInSearch, [MemNext]_allVars
    PROVE  BeginsInSearch'
<1>1. CASE mem_initialize
  <2>1. chunks' = {}
    BY <1>1 DEF mem_initialize, MemInv, BootBefore
  <2> QED
    BY <2>1 DEF BeginsInSearch
<1>2. ASSUME NEW size \in Sizes, kmalloc(size)
      PROVE  BeginsInSearch'
  <2>1. ScannedBlocks' = ScannedBlocks
    BY <1>2 DEF kmalloc, ScannedBlocks
  <2>2. CASE chunks' = chunks
    BY <2>1, <2>2 DEF BeginsInSearch
  <2>3. ASSUME NEW q \in 0 .. (ScannedBlocks - 1), KmallocAt(q, size)
        PROVE  chunks' = chunks
                  \/ \E i \in Slots : chunks' = chunks \cup
                        {[at |-> i, block |-> q, count |-> RequiredBlockCount(size)]}
    BY <2>3 DEF KmallocAt
  <2>4. ASSUME NEW q \in 0 .. (ScannedBlocks - 1), NEW i \in Slots,
               chunks' = chunks \cup
                  {[at |-> i, block |-> q, count |-> RequiredBlockCount(size)]}
        PROVE  BeginsInSearch'
    <3>1. ScannedBlocks \in Nat
      BY SearchedIsNatural DEF MemInv, MemTypeOK, Frames
    <3>2. q < ScannedBlocks
      BY <3>1
    <3> QED
      BY <2>1, <2>4, <3>2 DEF BeginsInSearch
  <2>5. chunks' = chunks
           \/ \E q \in 0 .. (ScannedBlocks - 1) : KmallocAt(q, size)
    BY <1>2 DEF kmalloc, KmallocPanic, KmallocFault
  <2> QED
    BY <2>2, <2>3, <2>4, <2>5
<1>3. ASSUME NEW chunk \in chunks, kfree(chunk)
      PROVE  BeginsInSearch'
  BY <1>3 DEF kfree, BeginsInSearch, ScannedBlocks
<1>4. CASE UNCHANGED allVars
  BY <1>4 DEF allVars, memVars, BeginsInSearch, ScannedBlocks
<1> QED
  BY <1>1, <1>2, <1>3, <1>4 DEF MemNext

LEMMA SmallerFactor ==
    ASSUME NEW x \in Int, NEW y \in Int, NEW n \in Nat \ {0}
    PROVE  x <= y <=> x * n <= y * n
<1>1. ASSUME x <= y PROVE x * n <= y * n
  <2>1. y - x \in Nat
    BY <1>1
  <2>2. (y - x) * n \in Nat
    BY <2>1
  <2>3. y * n = x * n + (y - x) * n
    OBVIOUS
  <2> QED
    BY <2>2, <2>3
<1>2. ASSUME x > y PROVE x * n > y * n
  <2>1. x - y - 1 \in Nat
    BY <1>2
  <2>2. (x - y - 1) * n \in Nat
    BY <2>1
  <2>3. x * n = y * n + n + (x - y - 1) * n
    OBVIOUS
  <2> QED
    BY <2>2, <2>3
<1> QED
  BY <1>1, <1>2

\* On every machine with memory above the kernel, as much of it as there may
\* be, the blocks of every allocation of up to KernelFirst blocks lie behind
\* the kernel and within that memory, wherever the search found them
\* (memory.c:80-97, 122-187).
THEOREM BlocksLieInRam ==
    ASSUME MemoryAddressable
    PROVE  MemSpec => []BlocksInRam
<1>1. MemInv /\ BlocksInv /\ BeginsInSearch => BlocksInRam
  <2> SUFFICES ASSUME MemInv, BlocksInv, BeginsInSearch,
                      NEW c \in chunks, c.count <= KernelFirst, NEW b \in BlocksOf(c)
               PROVE  InRam(b)
    BY DEF BlocksInRam
  <2> DEFINE P == PAGE_SIZE
             K == KernelLast
             F == KernelFirst
             S == ScannedBlocks
             B == block_count
             frame == min_address + b
  <2>1. /\ P \in Nat \ {0} /\ K \in Nat /\ F \in Nat /\ F >= 1
        /\ B \in Nat /\ max_address \in Nat /\ NFrames \in Nat \ {0}
    BY SizesAssumption, BootAssumption
       DEF MemoryAddressable, EnoughMemory, MemInv, MemTypeOK, Frames
  <2>2. S \in Nat /\ S <= B
    BY <2>1, SearchedIsNatural
  <2>3. /\ min_address = K + 2 /\ max_address \in CmosSizes
        /\ B * P <= max_address - (K + 1) * P
    BY DEF BlocksInv, MemInv, BootBefore
  <2>4. F * P + max_address <= NFrames * P
    BY <2>3 DEF MemoryAddressable
  <2>5. c.block \in Nat /\ c.count \in Nat \ {0} /\ c.block < S /\ c.count <= F
    BY DEF BeginsInSearch, MemInv, MemTypeOK, Chunks
  <2>6. b \in Nat /\ b <= c.block + (c.count - 1)
    BY <2>5 DEF BlocksOf
  <2> HIDE DEF P, K, F, S, B
  <2>7. b \in Nat /\ b + 2 <= S + F
    BY <2>1, <2>2, <2>5, <2>6
  <2>8. frame \in Nat /\ frame >= K + 2 /\ frame + 1 <= (K + 1) + (B + F)
    BY <2>1, <2>2, <2>3, <2>7
  <2> HIDE DEF frame
  <2>9. (frame + 1) * P <= F * P + max_address
    <3>1. (frame + 1) * P <= ((K + 1) + (B + F)) * P
      BY <2>1, <2>8, SmallerFactor
    <3>2. ((K + 1) + (B + F)) * P = (K + 1) * P + (B * P + F * P)
      BY <2>1
    <3>3. (K + 1) * P \in Nat /\ B * P \in Nat /\ F * P \in Nat /\ (frame + 1) * P \in Nat
      BY <2>1, <2>8
    <3> QED
      BY <2>1, <2>3, <3>1, <3>2, <3>3
  <2>10. frame + 1 <= NFrames
    <3>1. (frame + 1) * P <= NFrames * P
      <4>1. (frame + 1) * P \in Nat /\ F * P \in Nat /\ NFrames * P \in Nat
        BY <2>1, <2>8
      <4> QED
        BY <2>1, <2>4, <2>9, <4>1
    <3>2. frame + 1 \in Int /\ NFrames \in Int
      BY <2>1, <2>8
    <3> QED
      BY <2>1, <3>1, <3>2, SmallerFactor
  <2>11. frame % NFrames = frame
    BY <2>1, <2>8, <2>10, SmallRemainder
  <2>12. frame > K + 1
    BY <2>1, <2>8
  <2> QED
    BY <2>9, <2>11, <2>12 DEF InRam, P, K, F, frame
<1>2. EnoughMemory
  BY DEF MemoryAddressable
<1>3. MemInit => BeginsInSearch
  BY DEF MemInit, BeginsInSearch
<1>4. MemInv /\ BeginsInSearch /\ [MemNext]_allVars => BeginsInSearch'
  BY StepBeginsInSearch
<1> QED
  BY <1>1, <1>2, <1>3, <1>4, BlocksInvHolds, PTL DEF MemSpec

-------------------------------------------------------------------------------
(***************************************************************************)
(* Single blocks.                                                          *)
(***************************************************************************)

\* The object of the bookkeeping page itself.
MapObject == [at |-> g_memory_allocator, off |-> 0, frame |-> KernelLast + 1,
              size |-> PAGE_SIZE, flags |-> {"READ_WRITE"}]

MarkedSingle(c) == c.count = 1 /\ c.block \in 0 .. (MapBits - 1) /\ c.block \in mem_map
BlocksDiffer == \A c, d \in chunks : c # d => c.block # d.block
ObjectsAreChunks == \A o \in live : o = MapObject \/ \E c \in chunks : IsChunk(o, c)

\* As long as single blocks are allocated, each one in use is marked, once,
\* and nothing else is mapped.
SingleInv ==
    ~ranged =>
        /\ \A c \in chunks : MarkedSingle(c)
        /\ BlocksDiffer
        /\ ObjectsAreChunks

LEMMA MapHoldsBlocks ==
    ASSUME MapHoldsMemory, MemInv, BlocksInv, g_memory_allocator # NULL
    PROVE  /\ MapBits \in Nat
           /\ block_count \in Nat /\ ScannedBlocks \in Nat
           /\ ScannedBlocks <= MapBits
           /\ min_address = KernelLast + 2 /\ KernelLast \in Nat
<1> DEFINE P == PAGE_SIZE
           M == MapBits
           B == block_count
<1>1. /\ P \in Nat \ {0} /\ KernelLast \in Nat /\ B \in Nat /\ max_address \in Nat
      /\ M \in Nat
  <2>1. M \in Nat
    <3>1. PageWords - HeaderWords \in Nat /\ WordBits \in Nat
      BY BitmapAssumption DEF HeaderWords
    <3> QED
      BY <3>1 DEF MapBits
  <2> QED
    BY <2>1, SizesAssumption, BootAssumption DEF MemInv, MemTypeOK, Frames
<1>2. B * P <= max_address - (KernelLast + 1) * P /\ max_address <= M * P
      /\ min_address = KernelLast + 2
  BY DEF BlocksInv, MapHoldsMemory
<1> HIDE DEF P, M, B
<1>3. B * P <= M * P
  <2>1. (KernelLast + 1) * P \in Nat /\ B * P \in Nat /\ M * P \in Nat
    BY <1>1
  <2> QED
    BY <1>1, <1>2, <2>1
<1>4. B <= M
  <2> SUFFICES ASSUME B > M PROVE FALSE
    BY <1>1
  <2>1. B - M - 1 \in Nat
    BY <1>1
  <2>2. (B - M - 1) * P \in Nat
    BY <1>1, <2>1
  <2>3. B * P = M * P + P + (B - M - 1) * P
    BY <1>1
  <2>4. B * P \in Nat /\ M * P \in Nat
    BY <1>1
  <2> QED
    BY <1>1, <1>3, <2>2, <2>3, <2>4
<1>5. ScannedBlocks \in Nat /\ ScannedBlocks <= B
  BY <1>1, SearchedIsNatural DEF B
<1> QED
  BY <1>1, <1>2, <1>4, <1>5 DEF M, B

LEMMA InitializeSingleInv ==
    ASSUME MapHoldsMemory, MemInv, mem_initialize
    PROVE  SingleInv'
<1>1. live = {} /\ chunks = {} /\ chunks' = {} /\ g_memory_allocator = NULL
      /\ page_table = [i \in Slots |-> BootEntry(i)]
  BY DEF mem_initialize, MemInv, BootBefore
<1>2. compute_highest_free_address = KernelLast + 1
  <2>1. KernelLast \in Nat /\ NFrames \in Nat \ {0} /\ VgaFrame \in Nat
    BY BootAssumption, SizesAssumption DEF Frames
  <2>2. HighestFrame = KernelLast
    BY <1>1, <2>1, HighestAtBoot DEF MapHoldsMemory, EnoughMemory, BootHighest
  <2>3. KernelLast + 1 \in 0 .. (NFrames - 1)
    BY <2>1 DEF MapHoldsMemory, EnoughMemory
  <2> QED
    BY <2>1, <2>2, <2>3, SmallRemainder DEF compute_highest_free_address
<1>3. live' = {} \/ live' = {MapObject'}
  <2>1. CASE OutOfPageSpace(PAGE_SIZE, {"READ_WRITE"})
    BY <1>1, <2>1 DEF OutOfPageSpace
  <2>2. CASE \E i \in Slots :
                /\ PageAt(i, compute_highest_free_address, 0, PAGE_SIZE, {"READ_WRITE"})
                /\ g_memory_allocator' = i
    BY <1>1, <1>2, <2>2 DEF PageAt, MapObject
  <2> QED
    BY <2>1, <2>2 DEF mem_initialize
<1> QED
  BY <1>1, <1>3 DEF SingleInv, BlocksDiffer, ObjectsAreChunks

LEMMA KmallocSingleInv ==
    ASSUME MapHoldsMemory, MemInv, BlocksInv, SingleInv, NEW size \in Sizes,
           kmalloc(size)
    PROVE  SingleInv'
<1> SUFFICES ASSUME ~ranged'
             PROVE  /\ \A c \in chunks' : MarkedSingle(c)'
                    /\ BlocksDiffer'
                    /\ ObjectsAreChunks'
  BY DEF SingleInv
<1>1. /\ ~ranged /\ RequiredBlockCount(size) \in Nat
      /\ ~(RequiredBlockCount(size) > 1)
      /\ g_memory_allocator # NULL
      /\ UNCHANGED <<g_memory_allocator, min_address>>
      /\ RequiredPageCount(size) = RequiredBlockCount(size)
      /\ RequiredPageCount(size) \in Nat \ {0}
  BY ArgumentsAssumption, RequiredPageCountType
     DEF kmalloc, RequiredBlockCount, RequiredPageCount
<1>2. RequiredBlockCount(size) = 1
  BY <1>1
<1>3. /\ \A c \in chunks : MarkedSingle(c)
      /\ BlocksDiffer /\ ObjectsAreChunks
  BY <1>1 DEF SingleInv
<1>4. UNCHANGED MapObject
  BY <1>1 DEF MapObject
<1>5. ASSUME UNCHANGED <<live, chunks>>, mem_map \subseteq mem_map'
      PROVE  /\ \A c \in chunks' : MarkedSingle(c)'
             /\ BlocksDiffer'
             /\ ObjectsAreChunks'
  <2>1. \A c \in chunks' : MarkedSingle(c)'
    BY <1>3, <1>5 DEF MarkedSingle, MapBits, HeaderWords
  <2>2. BlocksDiffer'
    BY <1>3, <1>5 DEF BlocksDiffer
  <2>3. ObjectsAreChunks'
    BY <1>1, <1>3, <1>4, <1>5 DEF ObjectsAreChunks, IsChunk, RequiredPageCount
  <2> QED
    BY <2>1, <2>2, <2>3
<1>6. CASE KmallocPanic(size) \/ KmallocFault(size)
  BY <1>5, <1>6 DEF KmallocPanic, KmallocFault, vars
<1>7. ASSUME NEW q \in 0 .. (ScannedBlocks - 1),
             mem_find_first_free_block_range(q, RequiredBlockCount(size)),
             KmallocAt(q, size)
      PROVE  /\ \A c \in chunks' : MarkedSingle(c)'
             /\ BlocksDiffer'
             /\ ObjectsAreChunks'
  <2>1. q \in 0 .. (MapBits - 1) /\ q < MapBits /\ q \in Nat
    BY <1>1, MapHoldsBlocks
  <2>2. q \notin mem_map
    BY <1>7, <2>1 DEF mem_find_first_free_block_range, MayTake, MayBeFree,
                      mem_memory_map_test
  <2>3. mem_map' = mem_map \cup {q}
    <3>1. q .. (q + RequiredBlockCount(size) - 1) = {q}
      BY <1>2, <2>1
    <3> QED
      BY <1>7, <2>1, <3>1 DEF KmallocAt, mem_memory_map_set, OwnBits
  <2>4. CASE UNCHANGED <<live, chunks>>
    BY <1>5, <2>3, <2>4
  <2>5. ASSUME NEW i \in Slots,
               PageAt(i, (min_address + q) % NFrames, 0, size, {"READ_WRITE"}),
               chunks' = chunks \cup {[at |-> i, block |-> q,
                                       count |-> RequiredBlockCount(size)]}
        PROVE  /\ \A c \in chunks' : MarkedSingle(c)'
               /\ BlocksDiffer'
               /\ ObjectsAreChunks'
    <3> DEFINE new == [at |-> i, block |-> q, count |-> RequiredBlockCount(size)]
               obj == [at |-> i, off |-> 0, frame |-> (min_address + q) % NFrames,
                       size |-> size, flags |-> {"READ_WRITE"}]
    <3>1. new.block = q /\ new.count = 1 /\ chunks' = chunks \cup {new}
      BY <1>2, <2>5
    <3>2. IsChunk(obj, new) /\ live' = live \cup {obj}
      BY <1>1, <2>5 DEF IsChunk, PageAt
    <3> HIDE DEF new, obj
    <3>3. \A c \in chunks' : MarkedSingle(c)'
      BY <1>3, <2>1, <2>3, <3>1 DEF MarkedSingle, MapBits, HeaderWords
    <3>4. \A c \in chunks : c.block # q
      BY <1>3, <2>2 DEF MarkedSingle
    <3>5. BlocksDiffer'
      BY <1>3, <3>1, <3>4 DEF BlocksDiffer
    <3>6. \A o \in live' : o = MapObject \/ \E c \in chunks' : IsChunk(o, c)
      BY <1>3, <3>1, <3>2 DEF ObjectsAreChunks
    <3>7. ObjectsAreChunks'
      BY <1>1, <1>4, <3>6 DEF ObjectsAreChunks, IsChunk, RequiredPageCount
    <3> QED
      BY <3>3, <3>5, <3>7
  <2> QED
    BY <1>7, <2>4, <2>5 DEF KmallocAt, OutOfPageSpace, vars
<1> QED
  BY <1>6, <1>7 DEF kmalloc

\* min_address - physical_address: 0 for block 0, and for every other block a
\* number that wraps and lies far behind the bitmap's page (memory.c:209).
LEMMA FreedBitOfBlock ==
    ASSUME NEW n \in Nat \ {0}, NEW min \in Nat, NEW block \in Nat, NEW bits \in Nat,
           block < bits, min + 2 * bits <= n
    PROVE  /\ (min + block) % n = min + block
           /\ (min - (min + block)) % n \in {0} \cup {b \in Nat : b >= bits}
           /\ (min - (min + block)) % n = 0 => block = 0
<1>1. min + block \in 0 .. (n - 1)
  OBVIOUS
<1>2. (min + block) % n = min + block
  BY <1>1, SmallRemainder
<1>3. min - (min + block) = 0 - block
  OBVIOUS
<1>4. CASE block = 0
  <2>1. 0 \in 0 .. (n - 1)
    OBVIOUS
  <2>2. 0 % n = 0
    BY <2>1, SmallRemainder
  <2> QED
    BY <1>2, <1>3, <1>4, <2>2
<1>5. CASE block # 0
  <2> DEFINE x == 0 - block
             r == n - block
             q == 0 - 1
  <2>1. x \in Int /\ q \in Int /\ r \in 0 .. (n - 1) /\ r >= bits /\ r # 0 /\ r \in Nat
    BY <1>5
  <2>2. x = n * q + r
    OBVIOUS
  <2> HIDE DEF x, q, r
  <2>3. x % n = r
    BY <2>1, <2>2, RemainderIsUnique
  <2> QED
    BY <1>2, <1>3, <2>1, <2>3 DEF x
<1> QED
  BY <1>4, <1>5

LEMMA KfreeSingleInv ==
    ASSUME MapHoldsMemory, MemInv, BlocksInv, SingleInv, NEW chunk \in chunks,
           kfree(chunk)
    PROVE  SingleInv'
<1> SUFFICES ASSUME ~ranged'
             PROVE  /\ \A c \in chunks' : MarkedSingle(c)'
                    /\ BlocksDiffer'
                    /\ ObjectsAreChunks'
  BY DEF SingleInv
<1>1. /\ ~ranged /\ chunks' = chunks \ {chunk}
      /\ UNCHANGED <<g_memory_allocator, min_address>>
      /\ g_memory_allocator # NULL
  BY DEF kfree, MemInv, BootBefore
<1>2. /\ \A c \in chunks : MarkedSingle(c)
      /\ BlocksDiffer /\ ObjectsAreChunks
  BY <1>1 DEF SingleInv
<1>3. PICK o \in live :
         /\ IsChunk(o, chunk) /\ live' = live \ {o}
         /\ mem_memory_map_unset(page_table',
               FirstFreedBit(o.frame) .. (FirstFreedBit(o.frame) + chunk.count - 1))
  BY KfreeTakesBack
<1>4. /\ MapBits \in Nat /\ min_address = KernelLast + 2 /\ KernelLast \in Nat
      /\ NFrames \in Nat \ {0} /\ min_address \in Nat
      /\ min_address + 2 * MapBits <= NFrames
  BY <1>1, MapHoldsBlocks, SizesAssumption DEF MapHoldsMemory
<1>5. /\ chunk.count = 1 /\ chunk.block \in Nat /\ chunk.block < MapBits
      /\ o.frame = (min_address + chunk.block) % NFrames
  BY <1>2, <1>3, <1>4 DEF MarkedSingle, IsChunk
<1>6. mem_map \ {chunk.block} \subseteq mem_map'
  <2> DEFINE first == FirstFreedBit(o.frame)
  <2>1. /\ (min_address + chunk.block) % NFrames = min_address + chunk.block
        /\ first \in {0} \cup {b \in Nat : b >= MapBits}
        /\ first = 0 => chunk.block = 0
    <3> DEFINE M == MapBits
    <3>1. M \in Nat /\ chunk.block < M /\ min_address + 2 * M <= NFrames
      BY <1>4, <1>5
    <3> HIDE DEF M
    <3>2. /\ (min_address + chunk.block) % NFrames = min_address + chunk.block
          /\ (min_address - (min_address + chunk.block)) % NFrames
                \in {0} \cup {b \in Nat : b >= M}
          /\ (min_address - (min_address + chunk.block)) % NFrames = 0 => chunk.block = 0
      BY <1>4, <1>5, <3>1, FreedBitOfBlock
    <3> QED
      BY <1>5, <3>2 DEF FirstFreedBit, M
  <2> HIDE DEF first
  <2>2. first .. (first + chunk.count - 1) = {first}
    BY <1>5, <2>1
  <2>3. mem_map' = mem_map \ OwnBits({first})
    BY <1>3, <2>2 DEF first, mem_memory_map_unset
  <2>4. OwnBits({first}) \subseteq {chunk.block}
    <3> SUFFICES ASSUME first < MapBits PROVE first = chunk.block
      BY DEF OwnBits
    <3> QED
      BY <1>4, <2>1
  <2> QED
    BY <2>3, <2>4
<1>7. \A c \in chunks' : MarkedSingle(c)'
  <2> SUFFICES ASSUME NEW c \in chunks, c # chunk PROVE MarkedSingle(c)'
    BY <1>1
  <2>1. c.block # chunk.block
    BY <1>2 DEF BlocksDiffer
  <2> QED
    BY <1>2, <1>6, <2>1 DEF MarkedSingle, MapBits, HeaderWords
<1>8. BlocksDiffer'
  BY <1>1, <1>2 DEF BlocksDiffer
<1>9. \A p \in live' : p = MapObject \/ \E c \in chunks' : IsChunk(p, c)
  <2> SUFFICES ASSUME NEW p \in live, p # o, p # MapObject
               PROVE  \E c \in chunks' : IsChunk(p, c)
    BY <1>3
  <2>1. PICK c \in chunks : IsChunk(p, c)
    BY <1>2 DEF ObjectsAreChunks
  <2>2. c # chunk
    <3> SUFFICES ASSUME c = chunk PROVE FALSE
      OBVIOUS
    <3>1. p.at = o.at
      BY <1>3, <2>1 DEF IsChunk
    <3>2. p.at \in SlotsOf(p) /\ o.at \in SlotsOf(o)
      BY SlotsOfObject DEF MemInv, IInv, TypeOK
    <3> QED
      BY <3>1, <3>2 DEF MemInv, IInv, ObjectsDisjoint
  <2> QED
    BY <1>1, <2>1, <2>2
<1>10. ObjectsAreChunks'
  <2>1. UNCHANGED MapObject
    BY <1>1 DEF MapObject
  <2> QED
    BY <1>1, <1>9, <2>1 DEF ObjectsAreChunks, IsChunk, RequiredPageCount
<1> QED
  BY <1>7, <1>8, <1>10

LEMMA StepSingleInv ==
    ASSUME MapHoldsMemory, MemInv, BlocksInv, SingleInv, [MemNext]_allVars
    PROVE  SingleInv'
<1>1. CASE UNCHANGED allVars
  <2>1. UNCHANGED <<g_memory_allocator, min_address, mem_map, chunks, ranged, live>>
    BY <1>1 DEF allVars, vars, memVars
  <2> QED
    BY <2>1 DEF SingleInv, MarkedSingle, BlocksDiffer, ObjectsAreChunks, IsChunk,
                MapObject, MapBits, HeaderWords, RequiredPageCount
<1> QED
  BY <1>1, InitializeSingleInv, KmallocSingleInv, KfreeSingleInv DEF MemNext

LEMMA SingleInvHolds ==
    ASSUME MapHoldsMemory
    PROVE  MemSpec => [](MemInv /\ BlocksInv /\ SingleInv)
<1>1. MemInit => SingleInv
  BY DEF MemInit, Init, SingleInv, BlocksDiffer, ObjectsAreChunks
<1>2. MemInv /\ BlocksInv /\ SingleInv /\ [MemNext]_allVars => SingleInv'
  BY StepSingleInv
<1>3. MemSpec => [](MemInv /\ BlocksInv)
  <2>1. EnoughMemory
    BY DEF MapHoldsMemory
  <2> QED
    BY <2>1, BlocksInvHolds
<1> QED
  BY <1>1, <1>2, <1>3, PTL DEF MemSpec

\* A single block's allocation covers that block.
LEMMA BlocksOfSingle ==
    ASSUME MemInv, NEW c \in chunks, MarkedSingle(c)
    PROVE  BlocksOf(c) = {c.block}
<1>1. c.block \in Nat /\ c.count = 1
  BY DEF MemInv, MemTypeOK, Chunks, MarkedSingle
<1> QED
  BY <1>1 DEF BlocksOf

\* However single blocks are allocated and freed, no block is handed out
\* twice, although kfree() clears the bits of no block but the first
\* (memory.c:99-120, 161-192, 207-213).
THEOREM SingleBlocksStayApart ==
    ASSUME MapHoldsMemory
    PROVE  MemSpec => []SingleBlocksNotShared
<1>1. MemInv /\ SingleInv => SingleBlocksNotShared
  <2> SUFFICES ASSUME MemInv, SingleInv, ~ranged, NEW c \in chunks, NEW d \in chunks,
                      c # d
               PROVE  BlocksOf(c) \cap BlocksOf(d) = {}
    BY DEF SingleBlocksNotShared, NoSharedBlocks
  <2>1. BlocksOf(c) = {c.block} /\ BlocksOf(d) = {d.block} /\ c.block # d.block
    BY BlocksOfSingle DEF SingleInv, BlocksDiffer
  <2> QED
    BY <2>1
<1> QED
  BY <1>1, SingleInvHolds, PTL

\* The mark of a block in use survives every kfree() of another one: the bit
\* that kfree() computes is the block's own or lies behind the bitmap's page
\* (memory.c:207-213).
THEOREM BlocksStayMarked ==
    ASSUME MapHoldsMemory
    PROVE  MemSpec => []LiveBlocksMarked
<1>1. MemInv /\ SingleInv => LiveBlocksMarked
  <2> SUFFICES ASSUME MemInv, SingleInv, ~ranged, NEW c \in chunks
               PROVE  BlocksOf(c) \subseteq mem_map
    BY DEF LiveBlocksMarked
  <2>1. MarkedSingle(c)
    BY DEF SingleInv
  <2> QED
    BY <2>1, BlocksOfSingle DEF MarkedSingle
<1> QED
  BY <1>1, SingleInvHolds, PTL

\* What an entry that is in use, the boot map's and the second one of the
\* bookkeeping page left aside, maps.
Owns(s, c) ==
    /\ s = c.at
    /\ c.block \in Nat /\ c.block < MapBits
    /\ page_table[s].frame = KernelLast + 2 + c.block

LEMMA OwnersOfSlots ==
    ASSUME MapHoldsMemory, MemInv, BlocksInv, SingleInv, ~ranged,
           NEW s \in Slots \ (BootSlots \cup {g_memory_allocator + 1}),
           InUse(page_table[s])
    PROVE  \/ s = g_memory_allocator /\ page_table[s].frame = KernelLast + 1
           \/ \E c \in chunks : Owns(s, c)
<1>1. PICK o \in live : s \in SlotsOf(o)
  <2>1. page_table[s] # Unused
    BY UnusedFacts
  <2> QED
    BY <2>1 DEF MemInv, IInv, NoLeakedPages
<1>2. /\ o \in Objects /\ o.at \in Nat /\ o.frame \in Nat /\ o.at \in Slots
      /\ page_table[s] = PromisedEntry(o, s) /\ s \in Nat
  BY <1>1, ObjectFields, SlotsType DEF MemInv, IInv, TypeOK, MappingsIntact
<1>3. g_memory_allocator # NULL
  BY <1>1 DEF MemInv, BootBefore
<1>4. /\ MapBits \in Nat /\ min_address = KernelLast + 2 /\ KernelLast \in Nat
      /\ NFrames \in Nat \ {0} /\ min_address + 2 * MapBits <= NFrames
      /\ KernelLast + 1 < NFrames
  BY <1>3, MapHoldsBlocks, SizesAssumption DEF MapHoldsMemory, EnoughMemory
<1>5. page_table[s].frame = (o.frame + (s - o.at)) % NFrames
  BY <1>2 DEF PromisedEntry
<1>6. CASE o = MapObject
  <2>1. o.at = g_memory_allocator /\ o.frame = KernelLast + 1 /\ o.size = PAGE_SIZE
    BY <1>6 DEF MapObject
  <2>2. RequiredPageCount(o.size) = 2
    <3>1. PAGE_SIZE \div PAGE_SIZE = 1
      <4>1. PAGE_SIZE \in Nat \ {0}
        BY SizesAssumption
      <4> QED
        BY <4>1
    <3> QED
      BY <2>1, <3>1 DEF RequiredPageCount
  <2>3. s = o.at
    BY <1>1, <1>2, <2>1, <2>2 DEF SlotsOf
  <2>4. o.frame + (s - o.at) \in 0 .. (NFrames - 1) /\ o.frame + (s - o.at) = KernelLast + 1
    BY <1>2, <1>4, <2>1, <2>3
  <2>5. (KernelLast + 1) % NFrames = KernelLast + 1
    BY <1>4, <2>4, SmallRemainder
  <2> QED
    BY <1>5, <2>1, <2>3, <2>4, <2>5
<1>7. CASE \E c \in chunks : IsChunk(o, c)
  <2>1. PICK c \in chunks : IsChunk(o, c)
    BY <1>7
  <2>2. /\ o.at = c.at /\ RequiredPageCount(o.size) = 1
        /\ c.block \in Nat /\ c.block < MapBits
        /\ o.frame = (min_address + c.block) % NFrames
    BY <1>4, <2>1 DEF IsChunk, SingleInv, MarkedSingle
  <2>3. s = o.at
    BY <1>1, <1>2, <2>2 DEF SlotsOf
  <2>4. min_address + c.block \in 0 .. (NFrames - 1)
    BY <1>4, <2>2
  <2>5. o.frame = min_address + c.block
    BY <1>4, <2>2, <2>4, SmallRemainder
  <2>6. o.frame + (s - o.at) = min_address + c.block
    BY <1>2, <2>3, <2>5
  <2>7. (min_address + c.block) % NFrames = min_address + c.block
    BY <1>4, <2>4, SmallRemainder
  <2>8. page_table[s].frame = KernelLast + 2 + c.block
    BY <1>4, <1>5, <2>6, <2>7
  <2> QED
    BY <2>2, <2>3, <2>8 DEF Owns
<1> QED
  BY <1>6, <1>7 DEF SingleInv, ObjectsAreChunks

\* No page frame is reachable through two pointers, as long as single blocks
\* are allocated (memory.c:80-97, 161-192).
THEOREM FramesStayMappedOnce ==
    ASSUME MapHoldsMemory
    PROVE  MemSpec => []FramesMappedOnce
<1>1. MemInv /\ BlocksInv /\ SingleInv => FramesMappedOnce
  <2> SUFFICES ASSUME MemInv, BlocksInv, SingleInv, ~ranged,
                      NEW s \in Slots \ (BootSlots \cup {g_memory_allocator + 1}),
                      NEW t \in Slots \ (BootSlots \cup {g_memory_allocator + 1}),
                      s # t, InUse(page_table[s]), InUse(page_table[t])
               PROVE  page_table[s].frame # page_table[t].frame
    BY DEF FramesMappedOnce
  <2>1. KernelLast \in Nat
    BY BootAssumption
  <2>2. \/ s = g_memory_allocator /\ page_table[s].frame = KernelLast + 1
        \/ \E c \in chunks : Owns(s, c)
    BY OwnersOfSlots
  <2>3. \/ t = g_memory_allocator /\ page_table[t].frame = KernelLast + 1
        \/ \E c \in chunks : Owns(t, c)
    BY OwnersOfSlots
  <2>4. CASE s = g_memory_allocator /\ page_table[s].frame = KernelLast + 1
    BY <2>1, <2>3, <2>4 DEF Owns
  <2>5. CASE t = g_memory_allocator /\ page_table[t].frame = KernelLast + 1
    BY <2>1, <2>2, <2>5 DEF Owns
  <2>6. ASSUME NEW c \in chunks, NEW d \in chunks, Owns(s, c), Owns(t, d)
        PROVE  page_table[s].frame # page_table[t].frame
    <3>1. c # d
      BY <2>6 DEF Owns
    <3>2. c.block # d.block
      BY <3>1 DEF SingleInv, BlocksDiffer
    <3> QED
      BY <2>1, <2>6, <3>2 DEF Owns
  <2> QED
    BY <2>2, <2>3, <2>4, <2>5, <2>6
<1> QED
  BY <1>1, SingleInvHolds, PTL
===============================================================================
