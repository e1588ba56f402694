------------------------------ MODULE BootProofs ------------------------------
(***************************************************************************)
(* boot.s, for tables and images of every size and every %ecx: kernel_main *)
(* is reached with the tables paging.c is written for, or not at all.      *)
(***************************************************************************)
EXTENDS Boot, TLAPS

(***************************************************************************)
(* The inductive invariant.                                                *)
(***************************************************************************)

\* The kernel's table when the loop has got to page n.
MappedUpTo(n) ==
    [s \in Slots |-> IF s \in KernelFirst .. (n - 1) THEN BootEntry(s) ELSE Unused]

IdentityEntry ==
    [frame : LowPages, flags : SUBSET (PageFlags \cup {"WRITE_THROUGH"})]

Looping == {"kernel", "text mode"}
Switching == {"directory", "enable", "jump", "high", "reload", "kernel_main"}

\* The loops leave the tables as far as %edi has got, and nothing behind them.
TablesSoFar ==
    /\ page_table \in [Slots -> Entry]
    /\ identity \in [LowPages -> IdentityEntry]
    /\ i \in Nat
    /\ \A p \in LowPages : \/ identity[p] = Unused
                           \/ identity[p].frame = p /\ "PRESENT" \in identity[p].flags
    /\ pc \in {"start", "identity", "identity done"} =>
           page_table = [s \in Slots |-> Unused]
    /\ pc \in Looping => i <= KernelLast + 1 /\ page_table = MappedUpTo(i)
    /\ pc \in Switching =>
           /\ i <= KernelLast + 1
           /\ page_table = [MappedUpTo(i) EXCEPT ![VgaSlot] = BootEntry(VgaSlot)]

\* What the directory entries point to, and whether the processor uses them.
DirectorySoFar ==
    /\ pc \in {"enable", "jump", "high"} =>
           directory = [d \in {"low", "high"} |-> KernelTable]
    /\ pc \in {"reload", "kernel_main"} =>
           directory = [d \in {"low", "high"} |->
                           IF d = "low" THEN IdentityTable ELSE KernelTable]
    /\ directory \in [{"low", "high"} -> {NoTable, IdentityTable, KernelTable}]
    /\ pc \in {"jump", "high", "reload", "kernel_main"} => paging = TRUE
    /\ pc \in {"start", "identity", "identity done", "kernel", "text mode",
               "directory", "enable"} => paging = FALSE /\ low_tlb = {}

\* While directory entry 0 is the kernel's table, and again once cr3 has been
\* reloaded, what is cached is what the table says.
CachedIsCurrent ==
    pc \in {"jump", "high", "kernel_main"} => \A t \in low_tlb :
        /\ t.page \in LowPages
        /\ "PRESENT" \in LowEntry(t.page).flags
        /\ t.frame = LowEntry(t.page).frame

PagingUntouched == tlb = {} /\ live = {} /\ unpaged = 0 /\ status = "running"

\* The stack was mapped when the call pushed its return address.
StackMapped == pc = "kernel_main" => CanPush

\* A machine that reset had a reason to.
ResetHasCause == pc = "reset" => ~ImageMapped

BootInv ==
    /\ TablesSoFar
    /\ DirectorySoFar
    /\ CachedIsCurrent
    /\ PagingUntouched
    /\ StackMapped
    /\ ResetHasCause

-------------------------------------------------------------------------------
(***************************************************************************)
(* Lemmas about the tables.                                                *)
(***************************************************************************)

LEMMA TableSizes ==
    /\ PAGE_TABLE_LEN \in Nat \ {0}
    /\ KERNEL_PAGE_TABLES_LEN \in Nat
    /\ PAGE_TABLE_LEN <= KERNEL_PAGE_TABLES_LEN
    /\ KernelFirst \in Nat /\ KernelLast \in Nat /\ KernelFirst < KernelLast
    /\ KernelLast < VgaSlot /\ VgaSlot = PAGE_TABLE_LEN - 1
    /\ KernelLast < NFrames /\ VgaFrame \in Frames /\ NFrames \in Nat \ {0}
<1>1. /\ PAGE_TABLE_LEN \in Nat \ {0} /\ NUM_KERNEL_PAGE_TABLES \in Nat \ {0}
      /\ NFrames \in Nat \ {0}
  BY SizesAssumption
<1>2. /\ PAGE_TABLE_LEN * NUM_KERNEL_PAGE_TABLES \in Nat
      /\ PAGE_TABLE_LEN <= PAGE_TABLE_LEN * NUM_KERNEL_PAGE_TABLES
  BY <1>1
<1> QED
  BY <1>1, <1>2, BootAssumption, ImageAssumption DEF KERNEL_PAGE_TABLES_LEN, VgaSlot

LEMMA TableSlots ==
    /\ LowPages \subseteq Slots
    /\ VgaSlot \in LowPages
    /\ KernelFirst .. KernelLast \subseteq LowPages
    /\ VgaSlot \notin KernelFirst .. KernelLast
BY TableSizes DEF LowPages, Slots

LEMMA BootEntryType ==
    ASSUME NEW s \in Slots
    PROVE  BootEntry(s) \in Entry /\ Unused \in Entry
<1>1. s \in KernelFirst .. KernelLast => s \in Frames
  BY TableSizes DEF Slots, Frames
<1>2. 0 \in Frames
  BY TableSizes DEF Frames
<1>3. VgaFrame \in Frames
  BY TableSizes
<1> QED
  BY <1>1, <1>2, <1>3 DEF BootEntry, Unused, Entry, PageFlags

LEMMA MappedUpToType ==
    ASSUME NEW n \in Nat
    PROVE  MappedUpTo(n) \in [Slots -> Entry]
BY BootEntryType DEF MappedUpTo

\* One iteration of the second loop.
LEMMA MappedOneMore ==
    ASSUME NEW n \in Nat, n <= KernelLast
    PROVE  MappedUpTo(n + 1) =
              IF n < KernelFirst THEN MappedUpTo(n)
              ELSE [MappedUpTo(n) EXCEPT ![n] =
                       [frame |-> n, flags |-> {"PRESENT", "READ_WRITE", "LOCKED"}]]
<1>1. CASE n < KernelFirst
  <2>1. KernelFirst .. n = {} /\ KernelFirst .. (n - 1) = {}
    BY <1>1, TableSizes
  <2>2. (n + 1) - 1 = n
    OBVIOUS
  <2> QED
    BY <1>1, <2>1, <2>2 DEF MappedUpTo
<1>2. CASE n >= KernelFirst
  <2>1. n \in KernelFirst .. KernelLast
    BY <1>2, TableSizes
  <2>2. BootEntry(n) = [frame |-> n, flags |-> {"PRESENT", "READ_WRITE", "LOCKED"}]
    BY <2>1, TableSlots DEF BootEntry
  <2>3. \A s \in Slots :
            s \in KernelFirst .. ((n + 1) - 1) <=> s \in KernelFirst .. (n - 1) \/ s = n
    BY <2>1, TableSizes DEF Slots
  <2>4. ~(n < KernelFirst)
    BY <1>2, TableSizes
  <2> DEFINE now == [MappedUpTo(n) EXCEPT ![n] = BootEntry(n)]
  <2>5. MappedUpTo(n + 1) = now
    BY <2>3 DEF MappedUpTo
  <2> QED
    BY <2>2, <2>4, <2>5
<1> QED
  BY <1>1, <1>2, TableSizes

\* An entry of the image that is not clear is the one the loop writes.
LEMMA MappedIsBootEntry ==
    ASSUME TablesSoFar, pc \in Switching,
           NEW s \in KernelFirst .. KernelLast, page_table[s] # Unused
    PROVE  page_table[s] = BootEntry(s)
<1>1. s \in Slots /\ s # VgaSlot
  BY TableSlots
<1>2. page_table[s] = MappedUpTo(i)[s]
  BY <1>1, MappedUpToType DEF TablesSoFar
<1> QED
  BY <1>1, <1>2 DEF MappedUpTo

\* When the whole image is mapped, the processor fetches and pushes where the
\* image is.
LEMMA MappedImageRuns ==
    ASSUME TablesSoFar, pc \in Switching, ImageMapped,
           directory["high"] = KernelTable
    PROVE  CanFetchHigh /\ CanPush
<1>1. \A s \in KernelFirst .. KernelLast : HighMapped(s)
  <2> SUFFICES ASSUME NEW s \in KernelFirst .. KernelLast
               PROVE  HighMapped(s)
    OBVIOUS
  <2>1. page_table[s] = BootEntry(s)
    BY MappedIsBootEntry DEF ImageMapped
  <2> QED
    BY <2>1, TableSlots DEF HighMapped, BootEntry
<1> QED
  BY <1>1, TableSizes DEF CanFetchHigh, CanPush

\* The jump to the upper half is fetched from the kernel's own table.
LEMMA MappedImageJumps ==
    ASSUME TablesSoFar, DirectorySoFar, CachedIsCurrent, pc = "jump", ImageMapped
    PROVE  CanFetchLow
<1>1. KernelFirst \in KernelFirst .. KernelLast
  BY TableSizes
<1>2. page_table[KernelFirst] = BootEntry(KernelFirst)
  BY <1>1, MappedIsBootEntry DEF ImageMapped, Switching
<1>3. /\ directory["low"] = KernelTable
      /\ paging = TRUE
  BY DEF DirectorySoFar
<1>4. LowEntry(KernelFirst) = BootEntry(KernelFirst)
  BY <1>2, <1>3 DEF LowEntry, KernelTable, IdentityTable
<1>5. /\ "PRESENT" \in BootEntry(KernelFirst).flags
      /\ BootEntry(KernelFirst).frame = KernelFirst
  BY <1>1, TableSlots DEF BootEntry
<1>6. \A t \in low_tlb : t.page = KernelFirst => t.frame = KernelFirst
  BY <1>4, <1>5 DEF CachedIsCurrent
<1> QED
  BY <1>3, <1>4, <1>5, <1>6 DEF CanFetchLow, LowFrames

-------------------------------------------------------------------------------
(***************************************************************************)
(* BootInv is inductive: one lemma for the loops, one for the switch.      *)
(***************************************************************************)

USE DEF Looping, Switching, NoTable, IdentityTable, KernelTable

LEMMA BootInitInv ==
    ASSUME BootInit
    PROVE  BootInv
<1>1. page_table \in [Slots -> Entry]
  BY BootEntryType DEF BootInit
<1>2. Unused \in IdentityEntry
  BY TableSizes DEF IdentityEntry, Unused, LowPages
<1>3. TablesSoFar
  BY <1>1, <1>2 DEF BootInit, TablesSoFar
<1> QED
  BY <1>3 DEF BootInit, BootInv, DirectorySoFar, CachedIsCurrent, PagingUntouched,
              StackMapped, ResetHasCause

\* The steps that neither see nor change what the processor caches.
LEMMA UnpagedStep ==
    ASSUME BootInv, paging = FALSE, paging' = FALSE, low_tlb = {}, UNCHANGED <<directory, low_tlb>>,
           UNCHANGED <<tlb, live, unpaged, status>>, TablesSoFar',
           pc' \in {"identity", "identity done", "kernel", "text mode", "directory"}
    PROVE  BootInv'
BY DEF BootInv, DirectorySoFar, CachedIsCurrent, PagingUntouched, StackMapped,
       ResetHasCause

LEMMA IdentityLoopSteps ==
    ASSUME BootInv,
           \/ WriteFirstEntry
           \/ IdentityIteration \/ IdentityEnd
    PROVE  BootInv'
<1>1. /\ pc \in {"start", "identity"} /\ paging = FALSE /\ paging' = FALSE /\ low_tlb = {}
      /\ UNCHANGED <<directory, low_tlb, page_table, tlb, live, unpaged, status>>
      /\ pc' \in {"identity", "identity done"}
      /\ page_table = [s \in Slots |-> Unused]
      /\ page_table \in [Slots -> Entry]
  <2>1. CASE WriteFirstEntry
    BY <2>1 DEF BootInv, DirectorySoFar, TablesSoFar, WriteFirstEntry, vars
  <2>2. CASE IdentityIteration
    BY <2>2 DEF BootInv, DirectorySoFar, TablesSoFar, IdentityIteration, LoopTo, vars
  <2>3. CASE IdentityEnd
    BY <2>3 DEF BootInv, DirectorySoFar, TablesSoFar, IdentityEnd, vars
  <2> QED
    BY <2>1, <2>2, <2>3
<1>2. i' \in Nat
  <2>1. i \in Nat /\ i' \in {i, i + 1}
    BY DEF BootInv, TablesSoFar, WriteFirstEntry, IdentityIteration, IdentityEnd, LoopTo,
           vars
  <2> QED
    BY <2>1
<1>3. PICK p \in LowPages, e \in IdentityEntry :
          /\ e.frame = p /\ "PRESENT" \in e.flags
          /\ identity' \in {identity, [identity EXCEPT ![p] = e]}
  <2>1. 0 \in LowPages
    BY TableSizes DEF LowPages
  <2>2. CASE WriteFirstEntry
    BY <2>1, <2>2 DEF WriteFirstEntry, IdentityEntry, PageFlags
  <2>3. CASE IdentityIteration
    <3>0. i \in Nat /\ i < PAGE_TABLE_LEN
      BY <2>3 DEF IdentityIteration, BootInv, TablesSoFar
    <3>1. i \in LowPages
      BY <3>0, TableSizes DEF LowPages
    <3> DEFINE e == [frame |-> i, flags |-> {"PRESENT", "READ_WRITE"}]
    <3>2. e \in IdentityEntry /\ e.frame = i /\ "PRESENT" \in e.flags
      BY <3>1 DEF IdentityEntry, PageFlags
    <3>3. identity' = [identity EXCEPT ![i] = e]
      BY <2>3 DEF IdentityIteration
    <3> QED
      BY <3>1, <3>2, <3>3
  <2>4. CASE IdentityEnd
    <3> DEFINE e == [frame |-> 0, flags |-> {"PRESENT"}]
    <3>1. e \in IdentityEntry /\ e.frame = 0 /\ "PRESENT" \in e.flags
      BY <2>1 DEF IdentityEntry, PageFlags
    <3> QED
      BY <2>1, <2>4, <3>1 DEF IdentityEnd
  <2> QED
    BY <2>2, <2>3, <2>4
<1>4. /\ identity' \in [LowPages -> IdentityEntry]
      /\ \A q \in LowPages : \/ identity'[q] = Unused
                             \/ identity'[q].frame = q /\ "PRESENT" \in identity'[q].flags
  <2>1. /\ identity \in [LowPages -> IdentityEntry]
        /\ \A q \in LowPages : \/ identity[q] = Unused
                               \/ identity[q].frame = q /\ "PRESENT" \in identity[q].flags
    BY DEF BootInv, TablesSoFar
  <2>2. CASE identity' = identity
    BY <2>1, <2>2
  <2>3. CASE identity' = [identity EXCEPT ![p] = e]
    BY <1>3, <2>1, <2>3
  <2> QED
    BY <1>3, <2>2, <2>3
<1>5. TablesSoFar'
  BY <1>1, <1>2, <1>4 DEF TablesSoFar
<1> QED
  BY <1>1, <1>5, UnpagedStep

LEMMA KernelLoopSteps ==
    ASSUME BootInv,
           \/ KernelSetup \/ KernelIteration \/ KernelEnd
           \/ MapTextMode
    PROVE  BootInv'
<1>1. /\ paging = FALSE /\ paging' = FALSE /\ low_tlb = {}
      /\ UNCHANGED <<identity, directory, low_tlb, tlb, live, unpaged, status>>
      /\ pc' \in {"kernel", "text mode", "directory"}
  <2>1. CASE KernelSetup
    BY <2>1 DEF BootInv, DirectorySoFar, KernelSetup, vars
  <2>2. CASE KernelIteration
    BY <2>2 DEF BootInv, DirectorySoFar, KernelIteration, LoopTo, vars
  <2>3. CASE KernelEnd
    BY <2>3 DEF BootInv, DirectorySoFar, KernelEnd, vars
  <2>4. CASE MapTextMode
    BY <2>4 DEF BootInv, DirectorySoFar, MapTextMode, vars
  <2> QED
    BY <2>1, <2>2, <2>3, <2>4
<1>2. CASE KernelSetup
  <2>1. KernelFirst .. (0 - 1) = {}
    BY TableSizes
  <2>2. page_table' = MappedUpTo(0)
    BY <1>2, <2>1 DEF KernelSetup, vars, BootInv, TablesSoFar, MappedUpTo
  <2>3. page_table' \in [Slots -> Entry] /\ i' = 0 /\ pc' = "kernel"
    BY <1>2, <2>2, MappedUpToType DEF KernelSetup
  <2>5. 0 <= KernelLast + 1
    BY TableSizes
  <2>4. TablesSoFar'
    BY <1>1, <2>2, <2>3, <2>5 DEF BootInv, TablesSoFar
  <2> QED
    BY <1>1, <2>4, UnpagedStep
<1>3. CASE KernelIteration
  <2>0. i \in Nat /\ i <= KernelLast /\ KernelLast \in Nat
    BY <1>3, TableSizes DEF KernelIteration, BootInv, TablesSoFar
  <2>1. page_table = MappedUpTo(i) /\ i' = i + 1 /\ pc' \in Looping
    BY <1>3 DEF KernelIteration, LoopTo, BootInv, TablesSoFar
  <2>2. page_table' = MappedUpTo(i + 1)
    BY <1>3, <2>0, <2>1, MappedOneMore DEF KernelIteration
  <2>3. i + 1 \in Nat /\ i + 1 <= KernelLast + 1
    BY <2>0
  <2>4. TablesSoFar'
    BY <1>1, <2>1, <2>2, <2>3, MappedUpToType DEF BootInv, TablesSoFar
  <2> QED
    BY <1>1, <2>4, UnpagedStep
<1>4. CASE KernelEnd
  <2>1. TablesSoFar'
    BY <1>1, <1>4 DEF KernelEnd, vars, BootInv, TablesSoFar
  <2> QED
    BY <1>1, <2>1, UnpagedStep
<1>5. CASE MapTextMode
  <2>1. VgaSlot \in Slots
    BY TableSlots
  <2>2. BootEntry(VgaSlot) = [frame |-> VgaFrame, flags |-> {"PRESENT", "READ_WRITE"}]
    BY TableSlots DEF BootEntry
  <2>3. page_table' = [MappedUpTo(i) EXCEPT ![VgaSlot] = BootEntry(VgaSlot)]
    BY <1>5, <2>2 DEF MapTextMode, BootInv, TablesSoFar
  <2>4. page_table' \in [Slots -> Entry]
    BY <2>1, <2>3, MappedUpToType, BootEntryType DEF BootInv, TablesSoFar
  <2>5. TablesSoFar'
    BY <1>1, <1>5, <2>3, <2>4 DEF MapTextMode, BootInv, TablesSoFar
  <2> QED
    BY <1>1, <2>5, UnpagedStep
<1> QED
  BY <1>2, <1>3, <1>4, <1>5

\* Switching paging on, the jump and the reload leave the tables alone.
LEMMA SwitchSteps ==
    ASSUME BootInv,
           \/ SetDirectory \/ EnablePaging
           \/ JumpHigh \/ SwitchLowTable \/ ReloadAndCall
    PROVE  BootInv'
<1>1. /\ UNCHANGED <<page_table, identity, i, live, unpaged, status>>
      /\ pc \in Switching /\ pc' \in Switching /\ tlb' = {}
  BY DEF BootInv, PagingUntouched, SetDirectory, EnablePaging, JumpHigh,
         SwitchLowTable, ReloadAndCall, pagetable_refresh, vars
<1>2. TablesSoFar' /\ PagingUntouched' /\ ResetHasCause'
  BY <1>1 DEF BootInv, TablesSoFar, PagingUntouched, ResetHasCause
<1>3. DirectorySoFar'
  <2>1. DirectorySoFar
    BY DEF BootInv
  <2>2. CASE SetDirectory
    BY <2>1, <2>2 DEF SetDirectory, DirectorySoFar
  <2>3. CASE EnablePaging
    BY <2>1, <2>3 DEF EnablePaging, DirectorySoFar
  <2>4. CASE JumpHigh
    BY <2>1, <2>4 DEF JumpHigh, DirectorySoFar
  <2>5. CASE SwitchLowTable
    BY <2>1, <2>5 DEF SwitchLowTable, DirectorySoFar
  <2>6. CASE ReloadAndCall
    BY <2>1, <2>6 DEF ReloadAndCall, DirectorySoFar
  <2> QED
    BY <2>2, <2>3, <2>4, <2>5, <2>6
<1>4. CachedIsCurrent'
  <2>1. CASE SetDirectory \/ SwitchLowTable
    BY <2>1 DEF SetDirectory, SwitchLowTable, CachedIsCurrent
  <2>2. CASE EnablePaging
    BY <2>2 DEF EnablePaging, CachedIsCurrent, BootInv, DirectorySoFar
  <2>3. CASE JumpHigh
    BY <1>1, <2>3 DEF JumpHigh, CachedIsCurrent, BootInv, LowEntry
  <2>4. CASE ReloadAndCall
    BY <2>4 DEF ReloadAndCall, CachedIsCurrent
  <2> QED
    BY <2>1, <2>2, <2>3, <2>4
<1>5. StackMapped'
  <2>1. CASE ReloadAndCall
    BY <1>1, <2>1 DEF ReloadAndCall, StackMapped, CanPush, HighMapped
  <2>2. CASE ~ReloadAndCall
    BY <2>2 DEF SetDirectory, EnablePaging, JumpHigh, SwitchLowTable, StackMapped
  <2> QED
    BY <2>1, <2>2
<1> QED
  BY <1>2, <1>3, <1>4, <1>5 DEF BootInv

\* A fetch or push can only fault when the loop left a page of the image out.
LEMMA FaultStep ==
    ASSUME BootInv, FetchFault
    PROVE  BootInv'
<1>1. /\ pc \in {"jump", "high", "reload"} /\ pc' = "reset"
      /\ UNCHANGED <<vars, i, identity, directory, paging, low_tlb>>
  BY DEF FetchFault, TripleFault
<1>2. ~ImageMapped
  <2>1. CASE pc = "jump"
    BY <2>1, MappedImageJumps DEF FetchFault, BootInv
  <2>2. CASE pc \in {"high", "reload"}
    <3>1. directory["high"] = KernelTable
      BY <2>2 DEF BootInv, DirectorySoFar
    <3> QED
      BY <2>2, <3>1, MappedImageRuns DEF FetchFault, BootInv
  <2> QED
    BY <1>1, <2>1, <2>2
<1>3. ~ImageMapped'
  BY <1>1, <1>2 DEF ImageMapped, vars
<1>4. TablesSoFar' /\ DirectorySoFar' /\ CachedIsCurrent' /\ PagingUntouched'
      /\ StackMapped'
  BY <1>1 DEF BootInv, TablesSoFar, DirectorySoFar, CachedIsCurrent, PagingUntouched,
              StackMapped, vars
<1> QED
  BY <1>3, <1>4 DEF BootInv, ResetHasCause

\* What the page walker caches is in the table of the moment.
LEMMA WalkerStep ==
    ASSUME BootInv, LowTlbFill
    PROVE  BootInv'
<1>1. UNCHANGED <<vars, pc, i, ecx, identity, directory, paging>>
  BY DEF LowTlbFill
<1>2. PICK p \in LowPages :
          /\ "PRESENT" \in LowEntry(p).flags
          /\ low_tlb' = low_tlb \cup {[page |-> p, frame |-> LowEntry(p).frame]}
  BY DEF LowTlbFill
<1>3. \A q \in LowPages : LowEntry(q)' = LowEntry(q)
  BY <1>1 DEF LowEntry, vars
<1>4. CachedIsCurrent'
  <2> SUFFICES ASSUME pc' \in {"jump", "high", "kernel_main"}, NEW t \in low_tlb'
               PROVE  /\ t.page \in LowPages
                      /\ "PRESENT" \in (LowEntry(t.page)').flags
                      /\ t.frame = (LowEntry(t.page)').frame
    BY DEF CachedIsCurrent
  <2>1. CASE t \in low_tlb
    BY <1>1, <1>3, <2>1 DEF BootInv, CachedIsCurrent
  <2>2. CASE t = [page |-> p, frame |-> LowEntry(p).frame]
    BY <1>2, <1>3, <2>2
  <2> QED
    BY <1>2, <2>1, <2>2
<1>5. TablesSoFar' /\ PagingUntouched'
  BY <1>1 DEF BootInv, TablesSoFar, PagingUntouched, vars
<1>6. DirectorySoFar'
  <2>1. paging = TRUE => pc \notin {"start", "identity", "identity done", "kernel",
                                   "text mode", "directory", "enable"}
    BY DEF BootInv, DirectorySoFar
  <2>2. pc' \notin {"start", "identity", "identity done", "kernel", "text mode",
                    "directory", "enable"}
    BY <1>1, <2>1 DEF LowTlbFill, BootInv, DirectorySoFar
  <2> QED
    BY <1>1, <2>2 DEF BootInv, DirectorySoFar
<1>7. StackMapped'
  BY <1>1 DEF BootInv, StackMapped, CanPush, HighMapped, vars
<1>8. ResetHasCause'
  BY <1>1 DEF BootInv, ResetHasCause, ImageMapped, vars
<1> QED
  BY <1>4, <1>5, <1>6, <1>7, <1>8 DEF BootInv

LEMMA BootStepInv ==
    ASSUME BootInv, [BootNext]_<<vars, bootVars>>
    PROVE  BootInv'
<1>1. CASE Execute
  BY <1>1, IdentityLoopSteps, KernelLoopSteps, SwitchSteps, FaultStep DEF Execute
<1>2. CASE LowTlbFill
  BY <1>2, WalkerStep
<1>3. CASE UNCHANGED <<vars, bootVars>>
  BY <1>3 DEF BootInv, TablesSoFar, DirectorySoFar, CachedIsCurrent, PagingUntouched,
              StackMapped, ResetHasCause, CanPush, HighMapped, ImageMapped, LowEntry,
              vars, bootVars
<1> QED
  BY <1>1, <1>2, <1>3 DEF BootNext

LEMMA BootInductive == BootSpec => []BootInv
<1>1. BootInit => BootInv
  BY BootInitInv
<1>2. BootInv /\ [BootNext]_<<vars, bootVars>> => BootInv'
  BY BootStepInv
<1> QED
  BY <1>1, <1>2, PTL DEF BootSpec

(***************************************************************************)
(* What kernel_main finds.                                                 *)
(***************************************************************************)

\* Whatever the boot loader left in %ecx, and however large the image: when
\* kernel_main is called the kernel's tables are those paging.c starts with,
\* entry by entry, and nothing stale is cached of them (boot.s:75-100,
\* paging.c:36-44).  A loop that ends early leaves the stack unmapped, and the
\* push of the call faults.
THEOREM StartsWherePagingBegins == BootSpec => []KernelStartsInInit
<1>1. BootInv => KernelStartsInInit
  <2> SUFFICES ASSUME BootInv, pc = "kernel_main"
               PROVE  Init
    BY DEF KernelStartsInInit
  <2>1. /\ i \in Nat /\ i <= KernelLast + 1
        /\ page_table = [MappedUpTo(i) EXCEPT ![VgaSlot] = BootEntry(VgaSlot)]
    BY DEF BootInv, TablesSoFar
  <2>2. i - 1 >= KernelLast
    <3>1. page_table[KernelLast] # Unused
      BY DEF BootInv, StackMapped, CanPush, HighMapped, Unused
    <3>2. KernelLast \in Slots /\ KernelLast # VgaSlot
      BY TableSizes DEF Slots
    <3>3. KernelLast \in KernelFirst .. (i - 1)
      BY <2>1, <3>1, <3>2 DEF MappedUpTo
    <3> QED
      BY <2>1, <3>3, TableSizes
  <2>3. \A s \in Slots : s \in KernelFirst .. (i - 1) <=> s \in KernelFirst .. KernelLast
    BY <2>1, <2>2, TableSizes DEF Slots
  <2>4. \A s \in Slots : page_table[s] = BootEntry(s)
    <3> SUFFICES ASSUME NEW s \in Slots
                 PROVE  page_table[s] = BootEntry(s)
      OBVIOUS
    <3>1. CASE s = VgaSlot
      BY <2>1, <3>1 DEF MappedUpTo
    <3>2. CASE s # VgaSlot /\ s \in KernelFirst .. KernelLast
      BY <2>1, <2>3, <3>2 DEF MappedUpTo
    <3>3. CASE s # VgaSlot /\ s \notin KernelFirst .. KernelLast
      <4>1. page_table[s] = Unused
        BY <2>1, <2>3, <3>3 DEF MappedUpTo
      <4>2. BootEntry(s) = Unused
        BY <3>3 DEF BootEntry
      <4> QED
        BY <4>1, <4>2
    <3> QED
      BY <3>1, <3>2, <3>3
  <2>5. page_table = [s \in Slots |-> BootEntry(s)]
    BY <2>4 DEF BootInv, TablesSoFar
  <2> QED
    BY <2>5 DEF BootInv, PagingUntouched, Init
<1> QED
  BY <1>1, BootInductive, PTL

\* From the call on, a page below 4 MiB is at its physical address or nowhere:
\* reloading cr3 drops what was cached of the kernel's table while directory
\* entry 0 pointed to it (boot.s:57-67, 102-130).
THEOREM LowMemoryStaysIdentity == BootSpec => []LowMemoryIsIdentity
<1>1. BootInv => LowMemoryIsIdentity
  <2> SUFFICES ASSUME BootInv, pc = "kernel_main", NEW p \in LowPages
               PROVE  LowFrames(p) = IF identity[p] = Unused THEN {} ELSE {p}
    BY DEF LowMemoryIsIdentity
  <2>1. directory["low"] = IdentityTable /\ paging = TRUE
    BY DEF BootInv, DirectorySoFar
  <2>2. LowEntry(p) = identity[p]
    BY <2>1 DEF LowEntry
  <2>3. \A t \in low_tlb : t.page = p =>
            "PRESENT" \in identity[p].flags /\ t.frame = identity[p].frame
    BY <2>2 DEF BootInv, CachedIsCurrent
  <2>4. \/ identity[p] = Unused
        \/ identity[p].frame = p /\ "PRESENT" \in identity[p].flags
    BY DEF BootInv, TablesSoFar
  <2>5. "PRESENT" \notin Unused.flags
    BY DEF Unused
  <2>6. CASE identity[p] = Unused
    <3>1. {u \in low_tlb : u.page = p} = {}
      BY <2>3, <2>5, <2>6
    <3> QED
      BY <2>1, <2>2, <2>5, <2>6, <3>1 DEF LowFrames
  <2>7. CASE identity[p] # Unused
    <3>1. identity[p].frame = p /\ "PRESENT" \in identity[p].flags
      BY <2>4, <2>7
    <3>2. {t.frame : t \in {u \in low_tlb : u.page = p}} \subseteq {p}
      BY <2>3, <3>1
    <3>3. LowFrames(p) = {p}
      BY <2>1, <2>2, <3>1, <3>2 DEF LowFrames
    <3> QED
      BY <2>7, <3>3
  <2> QED
    BY <2>6, <2>7
<1> QED
  BY <1>1, BootInductive, PTL

\* The safety half of ReachesKernel: from switching paging on to the call, no
\* fetch and no push faults, unless a small %ecx has left a page of the image
\* out of the table (boot.s:78-97, 112-138).
THEOREM ResetMeansLoopCutShort == BootSpec => [](pc = "reset" => ~ImageMapped)
<1>1. BootInv => (pc = "reset" => ~ImageMapped)
  BY DEF BootInv, ResetHasCause
<1> QED
  BY <1>1, BootInductive, PTL
===============================================================================
