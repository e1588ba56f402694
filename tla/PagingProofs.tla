----------------------------- MODULE PagingProofs -----------------------------
(***************************************************************************)
(* What holds of Paging for tables of any size, any kernel image and any   *)
(* arguments.                                                              *)
(***************************************************************************)
EXTENDS Paging, TLAPS

-------------------------------------------------------------------------------
(***************************************************************************)
(* Arithmetic of pages and slots.                                          *)
(***************************************************************************)

\* An object takes at least one entry, an empty one included.
LEMMA RequiredPageCountType ==
    ASSUME NEW size \in Nat
    PROVE  RequiredPageCount(size) \in Nat \ {0}
BY SizesAssumption DEF RequiredPageCount

LEMMA SlotsType ==
    /\ KERNEL_PAGE_TABLES_LEN \in Nat \ {0}
    /\ Slots \subseteq Nat
    /\ VgaSlot \in Slots
    /\ KernelFirst .. KernelLast \subseteq Slots
    /\ BootSlots \subseteq Slots
<1>1. KERNEL_PAGE_TABLES_LEN \in Nat \ {0}
  BY SizesAssumption DEF KERNEL_PAGE_TABLES_LEN
<1>2. PAGE_TABLE_LEN <= KERNEL_PAGE_TABLES_LEN
  BY SizesAssumption DEF KERNEL_PAGE_TABLES_LEN
<1> QED
  BY <1>1, <1>2, SizesAssumption, BootAssumption DEF Slots, VgaSlot, BootSlots

\* Splitting a virtual page into directory and table index and putting the two
\* together again, as unpage() does, gives back the slot page() handed out.
LEMMA TableOffsetOfVirtPage ==
    ASSUME NEW s \in Slots
    PROVE  TableOffset(VirtPage(s)) = s
<1> DEFINE L == PAGE_TABLE_LEN
           K == KERNEL_FIRST_PAGE_TABLE_OFFSET
           v == VirtPage(s)
<1>1. L \in Nat \ {0} /\ K \in Nat /\ s \in Nat
  BY SizesAssumption, SlotsType
<1>2. v \in Nat /\ v = K * L + s
  BY <1>1 DEF VirtPage
<1>3. v \div L \in Int /\ v % L \in Int /\ v = L * (v \div L) + (v % L)
  <2> HIDE DEF v, L
  <2> QED BY <1>1, <1>2
<1>4. (v \div L - K) * L = L * (v \div L) - K * L
  <2> HIDE DEF v, L, K
  <2> QED BY <1>1, <1>3
<1> QED
  BY <1>1, <1>2, <1>3, <1>4 DEF TableOffset, PAGE_DIR_INDEX, PAGE_TABLE_INDEX

-------------------------------------------------------------------------------
(***************************************************************************)
(* Entries.                                                                *)
(***************************************************************************)
LEMMA BootEntryFacts ==
    ASSUME NEW s \in Slots
    PROVE  /\ BootEntry(s) \in Entry
           /\ s \in BootSlots => InUse(BootEntry(s))
           /\ s \notin BootSlots => BootEntry(s) = Unused
           /\ "END_OF_BLOCK" \notin BootEntry(s).flags
BY SlotsType, SizesAssumption, BootAssumption
   DEF BootEntry, BootSlots, Entry, Unused, Frames, PageFlags, InUse, VgaSlot

LEMMA UnusedFacts ==
    /\ Unused \in Entry
    /\ ~InUse(Unused)
    /\ ~StopsAt(Unused)
BY SizesAssumption DEF Unused, Entry, Frames, PageFlags, InUse, StopsAt

LEMMA ObjectFields ==
    ASSUME NEW o \in Objects
    PROVE  /\ o.at \in Slots /\ o.at \in Nat
           /\ o.frame \in Frames /\ o.frame \in Nat
           /\ o.size \in Nat
           /\ RequiredPageCount(o.size) \in Nat \ {0}
           /\ o.flags \subseteq {"READ_WRITE", "USER"}
<1>1. o.at \in Slots /\ o.frame \in Frames /\ o.size \in Nat /\ o.flags \in ClientFlags
  BY DEF Objects
<1>2. o.at \in Nat
  BY <1>1, SlotsType
<1>3. o.frame \in Nat
  BY <1>1, SizesAssumption DEF Frames
<1> QED
  BY <1>1, <1>2, <1>3, RequiredPageCountType DEF ClientFlags

\* The entries page() writes for an object are in use, never locked, and only
\* the last one ends the block.
LEMMA PromisedEntryFacts ==
    ASSUME NEW o \in Objects, NEW s \in SlotsOf(o)
    PROVE  /\ PromisedEntry(o, s) \in Entry
           /\ InUse(PromisedEntry(o, s))
           /\ PromisedEntry(o, s) # Unused
           /\ "LOCKED" \notin PromisedEntry(o, s).flags
           /\ StopsAt(PromisedEntry(o, s))
                 <=> s = o.at + RequiredPageCount(o.size) - 1
           /\ "END_OF_BLOCK" \in PromisedEntry(o, s).flags
                 <=> s = o.at + RequiredPageCount(o.size) - 1
<1>1. o.flags \subseteq {"READ_WRITE", "USER"} /\ o.frame \in Nat /\ o.at \in Nat
  BY ObjectFields
<1>2. s \in Nat /\ s - o.at \in Nat
  BY ObjectFields DEF SlotsOf
<1>3. (o.frame + (s - o.at)) % NFrames \in Frames
  BY <1>1, <1>2, SizesAssumption DEF Frames
<1> QED
  BY <1>1, <1>3
     DEF PromisedEntry, Entry, PageFlags, InUse, Unused, StopsAt

\* An object's run is not empty and lies at or behind its first slot.
LEMMA SlotsOfObject ==
    ASSUME NEW o \in Objects
    PROVE  /\ o.at \in SlotsOf(o)
           /\ o.at + RequiredPageCount(o.size) - 1 \in SlotsOf(o)
           /\ SlotsOf(o) \subseteq Nat
           /\ o.at \in Nat
BY ObjectFields DEF SlotsOf

-------------------------------------------------------------------------------
(***************************************************************************)
(* The inductive invariant.  No property of the runs is inductive alone:   *)
(* that unpage() stops where it should needs the entries of the object to  *)
(* be intact, that they stay intact needs the objects to be disjoint, and  *)
(* that the search finds only slots no object has needs every object's     *)
(* entries to be in use.                                                   *)
(***************************************************************************)
IInv ==
    /\ TypeOK
    /\ MappingsIntact
    /\ ObjectsDisjoint
    /\ NoLeakedPages
    /\ BootMapUnchanged
    /\ TlbCoherent

LEMMA InitIInv == Init => IInv
<1> SUFFICES ASSUME Init PROVE IInv
  OBVIOUS
<1>1. \A s \in Slots : page_table[s] = BootEntry(s) /\ BootEntry(s) \in Entry
  BY BootEntryFacts DEF Init
<1>2. TypeOK
  BY <1>1 DEF Init, TypeOK
<1>3. MappingsIntact /\ ObjectsDisjoint /\ TlbCoherent
  BY DEF Init, MappingsIntact, ObjectsDisjoint, TlbCoherent
<1>4. NoLeakedPages
  BY <1>1, BootEntryFacts DEF NoLeakedPages
<1>5. BootMapUnchanged
  BY <1>1, SlotsType DEF BootMapUnchanged
<1> QED
  BY <1>2, <1>3, <1>4, <1>5 DEF IInv

\* Slots the search finds free belong to nobody.
LEMMA FreeRunIsFree ==
    ASSUME IInv, NEW size \in Nat, NEW i \in FreeRuns(RequiredPageCount(size))
    PROVE  LET run == i .. (i + RequiredPageCount(size) - 1)
           IN  /\ run \subseteq Slots
               /\ run \cap BootSlots = {}
               /\ \A o \in live : SlotsOf(o) \cap run = {}
<1> DEFINE n == RequiredPageCount(size)
           run == i .. (i + n - 1)
<1>1. n \in Nat \ {0}
  BY RequiredPageCountType
<1>2. i \in Nat /\ i + n < KERNEL_PAGE_TABLES_LEN
      /\ \A j \in run : ~InUse(page_table[j])
  BY SlotsType DEF FreeRuns, RunFree
<1>3. run \subseteq Slots
  BY <1>1, <1>2, SlotsType DEF Slots
<1>4. run \cap BootSlots = {}
  BY <1>2, <1>3, BootEntryFacts, SlotsType DEF IInv, BootMapUnchanged
<1>5. ASSUME NEW o \in live PROVE SlotsOf(o) \cap run = {}
  BY <1>2, <1>5, PromisedEntryFacts DEF IInv, MappingsIntact, TypeOK
<1> QED
  BY <1>3, <1>4, <1>5

-------------------------------------------------------------------------------
(***************************************************************************)
(* page() and page_unaligned().                                            *)
(***************************************************************************)
LEMMA PageKeepsTypes ==
    ASSUME TypeOK, NEW frame \in Frames, NEW off \in 0 .. (PAGE_SIZE - 1),
           NEW size \in Nat, NEW flags \in ClientFlags, NEW i \in Slots,
           PageAt(i, frame, off, size, flags)
    PROVE  TypeOK'
<1> DEFINE n == RequiredPageCount(size)
           run == i .. (i + n - 1)
           new == [at |-> i, off |-> off, frame |-> frame, size |-> size,
                   flags |-> flags]
<1>1. new \in Objects /\ SlotsOf(new) = run /\ live' = live \cup {new}
      /\ tlb' = {} /\ unpaged' = unpaged /\ status' = status
  BY DEF PageAt, pagetable_refresh, Objects, SlotsOf
<1>2. page_table' = Mapped(i, n, frame, flags)
  BY DEF PageAt
<1>3. \A s \in Slots \cap run :
         page_table'[s] = PromisedEntry(new, s) /\ PromisedEntry(new, s) \in Entry
  <2>1. \A s \in Slots \cap run : page_table'[s] = PromisedEntry(new, s)
    BY <1>2 DEF Mapped, PromisedEntry
  <2> HIDE DEF new, run
  <2> QED
    BY <1>1, <2>1, PromisedEntryFacts
<1>4. \A s \in Slots \ run : page_table'[s] = page_table[s] /\ page_table[s] \in Entry
  BY <1>2 DEF Mapped, TypeOK
<1>5. page_table' \in [Slots -> Entry]
  <2>1. \A s \in Slots : page_table'[s] \in Entry
    <3> HIDE DEF run
    <3> QED BY <1>3, <1>4
  <2> QED
    BY <1>2, <2>1 DEF Mapped
<1> QED
  BY <1>1, <1>5 DEF TypeOK

LEMMA PagePreserves ==
    ASSUME IInv, NEW frame \in Frames, NEW off \in 0 .. (PAGE_SIZE - 1),
           NEW size \in Nat, NEW flags \in ClientFlags,
           NEW i \in FreeRuns(RequiredPageCount(size)),
           PageAt(i, frame, off, size, flags)
    PROVE  IInv'
<1> DEFINE n == RequiredPageCount(size)
           run == i .. (i + n - 1)
           new == [at |-> i, off |-> off, frame |-> frame, size |-> size,
                   flags |-> flags]
<1>1. n \in Nat \ {0}
  BY RequiredPageCountType
<1>2. /\ run \subseteq Slots /\ run \cap BootSlots = {}
      /\ \A o \in live : SlotsOf(o) \cap run = {}
  BY FreeRunIsFree
<1>3. new \in Objects /\ live' = live \cup {new} /\ tlb' = {}
      /\ unpaged' = unpaged /\ status' = status /\ SlotsOf(new) = run
  BY DEF FreeRuns, PageAt, pagetable_refresh, Objects, SlotsOf
<1>4. page_table' = Mapped(i, n, frame, flags)
  BY DEF PageAt
<1>5. \A s \in run : page_table'[s] = PromisedEntry(new, s)
  BY <1>2, <1>4 DEF Mapped, PromisedEntry
<1>6. \A s \in Slots \ run : page_table'[s] = page_table[s]
  BY <1>4 DEF Mapped
<1>7. TypeOK'
  BY PageKeepsTypes DEF IInv, FreeRuns
<1>8. MappingsIntact'
  <2> SUFFICES ASSUME NEW o \in live'
               PROVE  /\ SlotsOf(o) \subseteq Slots
                      /\ \A s \in SlotsOf(o) : page_table'[s] = PromisedEntry(o, s)
    BY DEF MappingsIntact, SlotsOf, PromisedEntry, RequiredPageCount
  <2>1. CASE o = new
    BY <1>2, <1>3, <1>5, <2>1
  <2>2. CASE o \in live
    BY <1>2, <1>6, <2>2 DEF IInv, MappingsIntact
  <2> QED
    BY <1>3, <2>1, <2>2
<1>9. ObjectsDisjoint'
  <2>1. \A o1, o2 \in live' : o1 # o2 => SlotsOf(o1) \cap SlotsOf(o2) = {}
    BY <1>2, <1>3 DEF IInv, ObjectsDisjoint
  <2>2. \A o \in live' : SlotsOf(o) \cap BootSlots = {}
    BY <1>2, <1>3 DEF IInv, ObjectsDisjoint
  <2> QED
    BY <2>1, <2>2 DEF ObjectsDisjoint, SlotsOf, RequiredPageCount
<1>10. NoLeakedPages'
  <2> SUFFICES ASSUME NEW s \in Slots \ BootSlots, page_table'[s] # Unused
               PROVE  \E o \in live' : s \in SlotsOf(o)
    BY DEF NoLeakedPages, SlotsOf, RequiredPageCount
  <2> QED
    BY <1>3, <1>6 DEF IInv, NoLeakedPages
<1>11. BootMapUnchanged'
  BY <1>2, <1>6, SlotsType DEF IInv, BootMapUnchanged
<1>12. TlbCoherent'
  BY <1>3 DEF TlbCoherent
<1> QED
  BY <1>7, <1>8, <1>9, <1>10, <1>11, <1>12 DEF IInv

-------------------------------------------------------------------------------
(***************************************************************************)
(* unpage().                                                               *)
(***************************************************************************)

\* Given the pointer of an object in use, unpage() stops at the object's own
\* last entry: not before it, not behind it, and never at a locked one.
LEMMA UnpageClearsTheObject ==
    ASSUME IInv, NEW o \in live, unpage(VirtPage(o.at))
    PROVE  /\ page_table' = Cleared(o.at, o.at + RequiredPageCount(o.size) - 1)
           /\ unpaged' = RequiredPageCount(o.size)
           /\ tlb' = {}
           /\ status' = status
<1> DEFINE n == RequiredPageCount(o.size)
           last == o.at + n - 1
<1>1. o \in Objects
  BY DEF IInv, TypeOK
<1>2. o.at \in Slots /\ o.at \in Nat /\ n \in Nat \ {0}
  BY <1>1, ObjectFields
<1>3. SlotsOf(o) = o.at .. last /\ last \in SlotsOf(o)
  BY <1>2 DEF SlotsOf
<1>4. \A s \in SlotsOf(o) :
         /\ s \in Slots
         /\ "LOCKED" \notin page_table[s].flags
         /\ StopsAt(page_table[s]) <=> s = last
  BY <1>1, PromisedEntryFacts DEF IInv, MappingsIntact
<1>5. TableOffset(VirtPage(o.at)) = o.at
  BY <1>2, TableOffsetOfVirtPage
<1>6. ASSUME NEW e \in Slots, o.at <= e, WalksTo(o.at, e)
      PROVE  e = last
  <2>1. e \in Nat /\ last \in Nat
    BY <1>2, SlotsType
  <2>2. ~(e < last)
    BY <1>2, <1>3, <1>4, <1>6, <2>1 DEF WalksTo
  <2>3. ~(last < e)
    BY <1>2, <1>3, <1>4, <1>6, <2>1 DEF WalksTo
  <2> QED
    BY <2>1, <2>2, <2>3
<1>7. ~UnpageLocked(o.at)
  BY <1>3, <1>4, <1>6 DEF UnpageLocked
<1>8. ~UnpageOverrun(o.at)
  BY <1>2, <1>3, <1>4 DEF UnpageOverrun
<1>9. UnpageBlock(o.at)
  BY <1>5, <1>7, <1>8 DEF unpage
<1>10. PICK e \in Slots :
          /\ o.at <= e /\ WalksTo(o.at, e)
          /\ page_table' = Cleared(o.at, e)
          /\ tlb' = {} /\ unpaged' = e - o.at + 1 /\ status' = status
  BY <1>9 DEF UnpageBlock, pagetable_refresh
<1>11. e = last
  BY <1>6, <1>10
<1> QED
  BY <1>2, <1>10, <1>11

LEMMA UnpagePreserves ==
    ASSUME IInv, NEW o \in live, unpage(VirtPage(o.at)), live' = live \ {o}
    PROVE  IInv'
<1> DEFINE n == RequiredPageCount(o.size)
           last == o.at + n - 1
<1>1. o \in Objects /\ n \in Nat \ {0} /\ SlotsOf(o) = o.at .. last
  BY ObjectFields DEF IInv, TypeOK, SlotsOf
<1>2. page_table' = Cleared(o.at, last) /\ unpaged' = n /\ tlb' = {}
      /\ status' = status
  BY UnpageClearsTheObject
<1>3. \A s \in Slots : s \in SlotsOf(o) => page_table'[s] = Unused
  BY <1>1, <1>2 DEF Cleared
<1>4. \A s \in Slots : s \notin SlotsOf(o) => page_table'[s] = page_table[s]
  BY <1>1, <1>2 DEF Cleared
<1>5. TypeOK'
  <2>1. \A s \in Slots : page_table'[s] \in Entry
    BY <1>3, <1>4, UnusedFacts DEF IInv, TypeOK
  <2>2. page_table' \in [Slots -> Entry]
    BY <1>2, <2>1 DEF Cleared
  <2> QED
    BY <1>1, <1>2, <2>2 DEF IInv, TypeOK
<1>6. MappingsIntact'
  <2> SUFFICES ASSUME NEW p \in live'
               PROVE  /\ SlotsOf(p) \subseteq Slots
                      /\ \A s \in SlotsOf(p) : page_table'[s] = PromisedEntry(p, s)
    BY DEF MappingsIntact, SlotsOf, PromisedEntry, RequiredPageCount
  <2>1. p \in live /\ p # o
    OBVIOUS
  <2>2. SlotsOf(p) \cap SlotsOf(o) = {}
    BY <2>1 DEF IInv, ObjectsDisjoint
  <2> QED
    BY <1>4, <2>1, <2>2 DEF IInv, MappingsIntact
<1>7. ObjectsDisjoint'
  <2>1. \A o1, o2 \in live' : o1 # o2 => SlotsOf(o1) \cap SlotsOf(o2) = {}
    BY DEF IInv, ObjectsDisjoint
  <2>2. \A p \in live' : SlotsOf(p) \cap BootSlots = {}
    BY DEF IInv, ObjectsDisjoint
  <2> QED
    BY <2>1, <2>2 DEF ObjectsDisjoint, SlotsOf, RequiredPageCount
<1>8. NoLeakedPages'
  <2> SUFFICES ASSUME NEW s \in Slots \ BootSlots, page_table'[s] # Unused
               PROVE  \E p \in live' : s \in SlotsOf(p)
    BY DEF NoLeakedPages, SlotsOf, RequiredPageCount
  <2>1. s \notin SlotsOf(o) /\ page_table[s] # Unused
    BY <1>3, <1>4
  <2> QED
    BY <2>1 DEF IInv, NoLeakedPages
<1>9. BootMapUnchanged'
  BY <1>4, SlotsType DEF IInv, BootMapUnchanged, ObjectsDisjoint
<1>10. TlbCoherent'
  BY <1>2 DEF TlbCoherent
<1> QED
  BY <1>5, <1>6, <1>7, <1>8, <1>9, <1>10 DEF IInv

-------------------------------------------------------------------------------
(***************************************************************************)
(* The theorems.                                                           *)
(***************************************************************************)
LEMMA PageAnywherePreserves ==
    ASSUME IInv, NEW frame \in Frames, NEW off \in 0 .. (PAGE_SIZE - 1),
           NEW size \in Nat, NEW flags \in ClientFlags,
           PageAnywhere(frame, off, size, flags)
    PROVE  IInv'
<1>1. CASE OutOfPageSpace(size, flags)
  BY <1>1
     DEF OutOfPageSpace, IInv, TypeOK, MappingsIntact, ObjectsDisjoint,
         NoLeakedPages, BootMapUnchanged, TlbCoherent, Running, SlotsOf,
         PromisedEntry, RequiredPageCount
<1>2. CASE \E i \in Slots :
              /\ find_free_blocks_offset(i, RequiredPageCount(size))
              /\ PageAt(i, frame, off, size, flags)
  BY <1>2, PagePreserves DEF find_free_blocks_offset
<1> QED
  BY <1>1, <1>2 DEF PageAnywhere

LEMMA NextPreserves == IInv /\ [Next]_vars => IInv'
<1> SUFFICES ASSUME IInv, [Next]_vars PROVE IInv'
  OBVIOUS
<1>1. CASE PageObject
  <2>1. PICK frame \in PhysFrames, size \in Sizes, flags \in ClientFlags :
           PageAnywhere(frame, 0, size, flags)
    BY <1>1 DEF PageObject, page
  <2>2. frame \in Frames /\ size \in Nat /\ 0 \in 0 .. (PAGE_SIZE - 1)
    BY ArgumentsAssumption, SizesAssumption
  <2> QED
    BY <2>1, <2>2, PageAnywherePreserves
<1>2. CASE PageUnalignedObject
  <2>1. PICK frame \in PhysFrames, off \in Offsets, size \in Sizes,
             flags \in ClientFlags : PageAnywhere(frame, off, size, flags)
    BY <1>2 DEF PageUnalignedObject, page_unaligned
  <2>2. frame \in Frames /\ size \in Nat /\ off \in 0 .. (PAGE_SIZE - 1)
    BY ArgumentsAssumption
  <2> QED
    BY <2>1, <2>2, PageAnywherePreserves
<1>3. CASE UnpageObject
  BY <1>3, UnpagePreserves DEF UnpageObject
<1>4. CASE TlbFill
  <2>1. PICK i \in Slots : tlb' = tlb \cup {[at |-> i, entry |-> page_table[i]]}
    BY <1>4 DEF TlbFill
  <2>2. UNCHANGED <<page_table, live, unpaged, status>>
    BY <1>4 DEF TlbFill
  <2>3. TypeOK' /\ TlbCoherent'
    BY <2>1, <2>2 DEF IInv, TypeOK, TlbCoherent, Running
  <2> QED
    BY <2>2, <2>3
       DEF IInv, MappingsIntact, ObjectsDisjoint, NoLeakedPages,
           BootMapUnchanged, SlotsOf, PromisedEntry, RequiredPageCount
<1>5. CASE UNCHANGED vars
  BY <1>5
     DEF vars, IInv, TypeOK, MappingsIntact, ObjectsDisjoint, NoLeakedPages,
         BootMapUnchanged, TlbCoherent, Running, SlotsOf, PromisedEntry,
         RequiredPageCount
<1> QED
  BY <1>1, <1>2, <1>3, <1>4, <1>5 DEF Next

\* Every reachable state satisfies the inductive invariant.
THEOREM InductiveInvariant == Spec => []IInv
BY InitIInv, NextPreserves, PTL DEF Spec

\* The variables keep their types: every entry is a frame of the machine with
\* known flags, every object lies where the tables are.
THEOREM TypeCorrect == Spec => []TypeOK
<1>1. IInv => TypeOK
  BY DEF IInv
<1> QED
  BY <1>1, InductiveInvariant, PTL

\* No call of page() or unpage() disturbs the entries of an object that is
\* still in use.
THEOREM ObjectsStayMapped == Spec => []MappingsIntact
<1>1. IInv => MappingsIntact
  BY DEF IInv
<1> QED
  BY <1>1, InductiveInvariant, PTL

\* Objects in use share no page table entry with each other or the boot map.
THEOREM ObjectsStayDisjoint == Spec => []ObjectsDisjoint
<1>1. IInv => ObjectsDisjoint
  BY DEF IInv
<1> QED
  BY <1>1, InductiveInvariant, PTL

\* unpage() leaves nothing of an object mapped.
THEOREM NothingLeaks == Spec => []NoLeakedPages
<1>1. IInv => NoLeakedPages
  BY DEF IInv
<1> QED
  BY <1>1, InductiveInvariant, PTL

\* The kernel image and the text-mode memory stay mapped, although the latter's
\* entry is not locked.
THEOREM BootMapStays == Spec => []BootMapUnchanged
<1>1. IInv => BootMapUnchanged
  BY DEF IInv
<1> QED
  BY <1>1, InductiveInvariant, PTL

\* No stale translation survives a change of the tables.
THEOREM TlbStaysCoherent == Spec => []TlbCoherent
<1>1. IInv => TlbCoherent
  BY DEF IInv
<1> QED
  BY <1>1, InductiveInvariant, PTL

\* unpage() reports exactly the entries page() made for the object.
THEOREM UnpageCounts == Spec => UnpageCountMatches
<1>1. IInv /\ [Next]_vars => [UnpageCountStep]_vars
  <2> SUFFICES ASSUME IInv, Next PROVE UnpageCountStep
    OBVIOUS
  <2>1. CASE UnpageObject
    <3>1. PICK o \in live : unpage(VirtPage(o.at)) /\ live' = live \ {o}
      BY <2>1 DEF UnpageObject
    <3>2. unpaged' = RequiredPageCount(o.size)
      BY <3>1, UnpageClearsTheObject
    <3> QED
      BY <3>1, <3>2 DEF UnpageCountStep
  <2>2. CASE PageObject \/ PageUnalignedObject \/ TlbFill
    <3>1. live \subseteq live'
      BY <2>2
         DEF PageObject, PageUnalignedObject, TlbFill, page, page_unaligned,
             PageAnywhere, PageAt, OutOfPageSpace
    <3> QED
      BY <3>1 DEF UnpageCountStep
  <2> QED
    BY <2>1, <2>2 DEF Next
<1> QED
  BY <1>1, InductiveInvariant, PTL DEF Spec, UnpageCountMatches

\* A unit below the end of the n-th page lies in one of the first n pages.
LEMMA DivBelow ==
    ASSUME NEW d \in Nat \ {0}, NEW n \in Nat, NEW k \in Nat, k < n * d
    PROVE  k \div d \in Nat /\ k \div d <= n - 1
<1> DEFINE q == k \div d
<1>1. q \in Nat /\ d * q <= k
  OBVIOUS
<1>2. d * q < d * n
  BY <1>1
<1> HIDE DEF q
<1>3. ASSUME q >= n PROVE FALSE
  <2>1. d * q = d * n + d * (q - n)
    BY <1>1
  <2>2. d * (q - n) >= 0
    BY <1>1, <1>3
  <2> QED
    BY <1>1, <1>2, <2>1, <2>2
<1> QED
  BY <1>1, <1>3 DEF q

\* Every unit of an object that fits into its pages is reachable through the
\* pointer, whichever of the table and the cached translations is used.
THEOREM Access == Spec => []ObjectsAccessible
<1>1. IInv => ObjectsAccessible
  <2> SUFFICES ASSUME IInv, Running, NEW o \in live, Fits(o),
                      NEW k \in o.off .. (o.off + o.size - 1)
               PROVE  LET s == o.at + (k \div PAGE_SIZE)
                      IN  /\ s \in Slots
                          /\ \A e \in Translations(s) :
                                /\ "PRESENT" \in e.flags
                                /\ e.frame = (o.frame + (k \div PAGE_SIZE)) % NFrames
    BY DEF ObjectsAccessible, Accessible
  <2> DEFINE q == k \div PAGE_SIZE
             s == o.at + q
             n == RequiredPageCount(o.size)
  <2>1. o \in Objects /\ o.at \in Nat /\ o.size \in Nat /\ o.off \in Nat
    BY ObjectFields DEF IInv, TypeOK, Objects
  <2>2. n \in Nat /\ k \in Nat /\ k < n * PAGE_SIZE
    BY <2>1, SizesAssumption DEF Fits, RequiredPageCount
  <2>3. q \in Nat /\ q <= n - 1
    BY <2>2, DivBelow, SizesAssumption
  <2>4. s \in SlotsOf(o) /\ s - o.at = q
    BY <2>1, <2>2, <2>3 DEF SlotsOf
  <2>5. s \in Slots /\ page_table[s] = PromisedEntry(o, s)
    BY <2>4 DEF IInv, MappingsIntact
  <2>6. \A e \in Translations(s) : e = page_table[s]
    BY <2>5 DEF Translations, IInv, TlbCoherent
  <2> HIDE DEF q, s
  <2>7. /\ "PRESENT" \in page_table[s].flags
        /\ page_table[s].frame = (o.frame + q) % NFrames
    BY <2>4, <2>5 DEF PromisedEntry
  <2>8. \A e \in Translations(s) :
            "PRESENT" \in e.flags /\ e.frame = (o.frame + q) % NFrames
    BY <2>6, <2>7
  <2> QED
    BY <2>5, <2>8 DEF q, s
<1> QED
  BY <1>1, InductiveInvariant, PTL

-------------------------------------------------------------------------------
(***************************************************************************)
(* Callers that pass unpage() any pointer into the kernel tables.  Little  *)
(* is left of the invariant then; that locked entries survive needs only   *)
(* the types.                                                              *)
(***************************************************************************)

\* Whatever way the walk of unpage() ends, it clears entries that are not
\* locked, and keeps the types.
LEMMA UnpageSparesLocked ==
    ASSUME TypeOK, NEW i \in Slots, unpage(VirtPage(i))
    PROVE  /\ LockedStep
           /\ page_table' \in [Slots -> Entry]
           /\ tlb' \subseteq [at : Slots, entry : Entry]
           /\ unpaged' \in Nat
           /\ status' \in {"running", "panic", "overrun"}
<1>1. TableOffset(VirtPage(i)) = i
  BY TableOffsetOfVirtPage
<1>2. i \in Nat /\ Slots \subseteq Nat /\ KERNEL_PAGE_TABLES_LEN \in Nat
  BY SlotsType
<1>3. \A a, b : Cleared(a, b) \in [Slots -> Entry]
  BY UnusedFacts DEF Cleared, TypeOK
<1>4. CASE UnpageBlock(i)
  <2>1. PICK e \in Slots :
           /\ i <= e /\ WalksTo(i, e) /\ "LOCKED" \notin page_table[e].flags
           /\ page_table' = Cleared(i, e) /\ tlb' = {}
           /\ unpaged' = e - i + 1 /\ status' = status
    BY <1>4 DEF UnpageBlock, pagetable_refresh
  <2>2. e \in Nat
    BY <1>2
  <2>3. \A s \in i .. e : s = e \/ s \in i .. (e - 1)
    BY <1>2, <2>2
  <2>4. \A s \in i .. e : "LOCKED" \notin page_table[s].flags
    BY <2>1, <2>3 DEF WalksTo, StopsAt
  <2>5. LockedStep
    BY <2>1, <2>4 DEF LockedStep, Cleared
  <2>6. unpaged' \in Nat
    BY <1>2, <2>1, <2>2
  <2> QED
    BY <1>3, <2>1, <2>5, <2>6 DEF TypeOK
<1>5. CASE UnpageLocked(i)
  <2>1. PICK e \in Slots :
           /\ i <= e /\ WalksTo(i, e) /\ page_table' = Cleared(i, e - 1)
           /\ status' = "panic" /\ tlb' = tlb /\ unpaged' = unpaged
    BY <1>5 DEF UnpageLocked
  <2>2. LockedStep
    BY <2>1 DEF LockedStep, Cleared, WalksTo, StopsAt
  <2> QED
    BY <1>3, <2>1, <2>2 DEF TypeOK
<1>6. CASE UnpageOverrun(i)
  <2>1. \A s \in Slots : s >= i => "LOCKED" \notin page_table[s].flags
    BY <1>6 DEF UnpageOverrun, StopsAt
  <2>2. page_table' = Cleared(i, KERNEL_PAGE_TABLES_LEN - 1)
        /\ status' = "overrun" /\ tlb' = tlb /\ unpaged' = unpaged
    BY <1>6 DEF UnpageOverrun
  <2>3. LockedStep
    BY <1>2, <2>1, <2>2 DEF LockedStep, Cleared
  <2> QED
    BY <1>3, <2>2, <2>3 DEF TypeOK
<1> QED
  BY <1>1, <1>4, <1>5, <1>6 DEF unpage

LEMMA PageSparesLocked ==
    ASSUME TypeOK, NEW frame \in Frames, NEW off \in 0 .. (PAGE_SIZE - 1),
           NEW size \in Nat, NEW flags \in ClientFlags,
           PageAnywhere(frame, off, size, flags)
    PROVE  TypeOK' /\ LockedStep
<1>1. CASE OutOfPageSpace(size, flags)
  BY <1>1 DEF OutOfPageSpace, TypeOK, LockedStep
<1>2. CASE \E i \in Slots :
              /\ find_free_blocks_offset(i, RequiredPageCount(size))
              /\ PageAt(i, frame, off, size, flags)
  <2>1. PICK i \in Slots :
           /\ i \in FreeRuns(RequiredPageCount(size))
           /\ PageAt(i, frame, off, size, flags)
    BY <1>2 DEF find_free_blocks_offset
  <2>2. LockedStep
    BY <2>1 DEF LockedStep, FreeRuns, RunFree, InUse, PageAt, Mapped
  <2> QED
    BY <2>1, <2>2, PageKeepsTypes
<1> QED
  BY <1>1, <1>2 DEF PageAnywhere

LEMMA WildStep == TypeOK /\ [WildNext]_vars => TypeOK' /\ [LockedStep]_vars
<1> SUFFICES ASSUME TypeOK, [WildNext]_vars PROVE TypeOK' /\ [LockedStep]_vars
  OBVIOUS
<1>1. CASE PageObject
  <2>1. PICK frame \in PhysFrames, size \in Sizes, flags \in ClientFlags :
           PageAnywhere(frame, 0, size, flags)
    BY <1>1 DEF PageObject, page
  <2>2. frame \in Frames /\ size \in Nat /\ 0 \in 0 .. (PAGE_SIZE - 1)
    BY ArgumentsAssumption, SizesAssumption
  <2> QED
    BY <2>1, <2>2, PageSparesLocked
<1>2. CASE PageUnalignedObject
  <2>1. PICK frame \in PhysFrames, off \in Offsets, size \in Sizes,
             flags \in ClientFlags : PageAnywhere(frame, off, size, flags)
    BY <1>2 DEF PageUnalignedObject, page_unaligned
  <2>2. frame \in Frames /\ size \in Nat /\ off \in 0 .. (PAGE_SIZE - 1)
    BY ArgumentsAssumption
  <2> QED
    BY <2>1, <2>2, PageSparesLocked
<1>3. CASE UnpageObject
  <2>1. PICK o \in live : unpage(VirtPage(o.at)) /\ live' = live \ {o}
    BY <1>3 DEF UnpageObject
  <2>2. o.at \in Slots
    BY ObjectFields DEF TypeOK
  <2> QED
    BY <2>1, <2>2, UnpageSparesLocked DEF TypeOK
<1>4. CASE UnpageStray
  <2>1. PICK s \in Slots : unpage(VirtPage(s)) /\ live' \subseteq live
    BY <1>4 DEF UnpageStray
  <2> QED
    BY <2>1, UnpageSparesLocked DEF TypeOK
<1>5. CASE TlbFill
  <2>1. PICK i \in Slots : tlb' = tlb \cup {[at |-> i, entry |-> page_table[i]]}
    BY <1>5 DEF TlbFill
  <2>2. UNCHANGED <<page_table, live, unpaged, status>>
    BY <1>5 DEF TlbFill
  <2> QED
    BY <2>1, <2>2 DEF TypeOK, LockedStep
<1>6. CASE UNCHANGED vars
  BY <1>6 DEF vars, TypeOK
<1> QED
  BY <1>1, <1>2, <1>3, <1>4, <1>5, <1>6 DEF WildNext, Next

\* Whatever pointers callers pass to unpage(), no entry of the kernel image is
\* ever cleared or changed.
THEOREM LockedSurvives == WildSpec => LockedNeverUnpaged
<1>1. Init => TypeOK
  BY InitIInv DEF IInv
<1> QED
  BY <1>1, WildStep, PTL DEF WildSpec, LockedNeverUnpaged

-------------------------------------------------------------------------------
(***************************************************************************)
(* Paging implements PageSpace, for tables of any size.                    *)
(*                                                                         *)
(* The refinement mapping reads the blocks off the END_OF_BLOCK bits of    *)
(* the page table.  Under the inductive invariant these                    *)
(* are exactly the objects handed out, and then each call of paging.c is   *)
(* the step of PageSpace of the same name, or changes no block.            *)
(***************************************************************************)

\* The block PageSpace sees of an object.
BlockOf(o) ==
    [at |-> o.at,
     frames |-> [k \in 0 .. (RequiredPageCount(o.size) - 1) |->
                    (o.frame + k) % NFrames]]

LastSlot(o) == o.at + RequiredPageCount(o.size) - 1

LEMMA ObjectEntries ==
    ASSUME IInv, NEW o \in live
    PROVE  /\ o \in Objects /\ o.at \in Nat /\ RequiredPageCount(o.size) \in Nat \ {0}
           /\ SlotsOf(o) = o.at .. LastSlot(o)
           /\ o.at \in SlotsOf(o) /\ LastSlot(o) \in SlotsOf(o)
           /\ SlotsOf(o) \subseteq Slots \ BootSlots
           /\ \A s \in SlotsOf(o) :
                 /\ page_table[s] = PromisedEntry(o, s)
                 /\ InUse(page_table[s])
                 /\ "END_OF_BLOCK" \in page_table[s].flags <=> s = LastSlot(o)
<1>1. o \in Objects
  BY DEF IInv, TypeOK
<1>2. /\ o.at \in Nat /\ RequiredPageCount(o.size) \in Nat \ {0}
      /\ o.at \in SlotsOf(o) /\ LastSlot(o) \in SlotsOf(o)
      /\ SlotsOf(o) = o.at .. LastSlot(o)
  BY <1>1, ObjectFields, SlotsOfObject DEF LastSlot, SlotsOf
<1>3. SlotsOf(o) \subseteq Slots \ BootSlots
  BY DEF IInv, MappingsIntact, ObjectsDisjoint
<1>4. \A s \in SlotsOf(o) : page_table[s] = PromisedEntry(o, s)
  BY DEF IInv, MappingsIntact
<1>5. \A s \in SlotsOf(o) :
         /\ InUse(PromisedEntry(o, s))
         /\ "END_OF_BLOCK" \in PromisedEntry(o, s).flags <=> s = LastSlot(o)
  BY <1>1, PromisedEntryFacts DEF LastSlot
<1> QED
  BY <1>1, <1>2, <1>3, <1>4, <1>5

\* A slot starts a block exactly when it is the first slot of an object.
LEMMA StartsAreObjects ==
    ASSUME IInv, NEW s \in Slots
    PROVE  StartsBlock(s) <=> \E o \in live : s = o.at
<1>1. s \in Nat
  BY SlotsType
<1>2. ASSUME StartsBlock(s) PROVE \E o \in live : s = o.at
  <2>1. PICK o \in live : s \in SlotsOf(o)
    BY <1>2, UnusedFacts DEF StartsBlock, IInv, NoLeakedPages
  <2>2. ASSUME s # o.at PROVE FALSE
    <3>1. o.at \in Nat /\ LastSlot(o) \in Nat /\ SlotsOf(o) = o.at .. LastSlot(o)
      BY ObjectEntries DEF LastSlot
    <3>2. s - 1 \in SlotsOf(o) /\ s - 1 # LastSlot(o)
      BY <1>1, <2>1, <2>2, <3>1
    <3> QED
      BY <1>2, <3>2, ObjectEntries DEF StartsBlock
  <2> QED
    BY <2>1, <2>2
<1>3. ASSUME NEW o \in live, s = o.at PROVE StartsBlock(s)
  <2>1. s \notin BootSlots /\ InUse(page_table[s]) /\ s \in SlotsOf(o)
    BY <1>3, ObjectEntries
  <2>2. ASSUME s - 1 \in Slots \ BootSlots, InUse(page_table[s - 1])
        PROVE  "END_OF_BLOCK" \in page_table[s - 1].flags
    <3>1. PICK p \in live : s - 1 \in SlotsOf(p)
      BY <2>2, UnusedFacts DEF IInv, NoLeakedPages
    <3>2. s - 1 \notin SlotsOf(o)
      BY <1>1, <1>3, ObjectEntries DEF LastSlot
    <3>3. s \notin SlotsOf(p)
      BY <2>1, <3>1, <3>2 DEF IInv, ObjectsDisjoint
    <3>4. s - 1 = LastSlot(p)
      BY <1>1, <3>1, <3>3, ObjectEntries DEF LastSlot
    <3> QED
      BY <3>1, <3>4, ObjectEntries
  <2> QED
    BY <2>1, <2>2 DEF StartsBlock
<1> QED
  BY <1>2, <1>3

LEMMA EndOfObject ==
    ASSUME IInv, NEW o \in live
    PROVE  EndOfBlock(o.at) = LastSlot(o)
<1>1. o.at \in Nat /\ LastSlot(o) \in Nat /\ Slots \subseteq Nat
  BY ObjectEntries, SlotsType DEF LastSlot
<1>2. LastSlot(o) \in Slots /\ EndsBlock(o.at, LastSlot(o))
  <2>1. \A j \in o.at .. (LastSlot(o) - 1) : j \in SlotsOf(o) /\ j # LastSlot(o)
    BY <1>1, ObjectEntries
  <2>2. LastSlot(o) \in Slots /\ o.at <= LastSlot(o)
    BY <1>1, ObjectEntries
  <2> QED
    BY <2>1, <2>2, ObjectEntries DEF EndsBlock
<1>3. ASSUME NEW e \in Slots, EndsBlock(o.at, e) PROVE e = LastSlot(o)
  <2>1. e \in Nat
    BY <1>1
  <2>2. ~(e < LastSlot(o))
    BY <1>1, <1>3, <2>1, ObjectEntries DEF EndsBlock
  <2>3. ~(LastSlot(o) < e)
    BY <1>1, <1>3, <2>1, ObjectEntries DEF EndsBlock
  <2> QED
    BY <1>1, <2>1, <2>2, <2>3
<1> QED
  BY <1>2, <1>3 DEF EndOfBlock

\* The blocks read off the page table are the objects handed out.
LEMMA BlocksAreObjects == IInv => Blocks = {BlockOf(o) : o \in live}
<1> SUFFICES ASSUME IInv PROVE Blocks = {BlockOf(o) : o \in live}
  OBVIOUS
<1> DEFINE Read(s) ==
      [at |-> s,
       frames |-> [k \in 0 .. (EndOfBlock(s) - s) |-> page_table[s + k].frame]]
<1>1. ASSUME NEW o \in live PROVE Read(o.at) = BlockOf(o) /\ o.at \in Slots
  <2>1. EndOfBlock(o.at) - o.at = RequiredPageCount(o.size) - 1
    BY ObjectEntries, EndOfObject DEF LastSlot
  <2>2. \A k \in 0 .. (RequiredPageCount(o.size) - 1) :
            page_table[o.at + k].frame = (o.frame + k) % NFrames
    <3> SUFFICES ASSUME NEW k \in 0 .. (RequiredPageCount(o.size) - 1)
                 PROVE  page_table[o.at + k].frame = (o.frame + k) % NFrames
      OBVIOUS
    <3>1. o.at + k \in SlotsOf(o) /\ (o.at + k) - o.at = k
      BY ObjectEntries DEF LastSlot
    <3>2. page_table[o.at + k] = PromisedEntry(o, o.at + k)
      BY <3>1, ObjectEntries
    <3> QED
      BY <3>1, <3>2 DEF PromisedEntry
  <2>3. o.at \in Slots
    BY ObjectEntries
  <2> QED
    BY <2>1, <2>2, <2>3 DEF BlockOf
<1>2. Blocks = {Read(s) : s \in {i \in Slots : StartsBlock(i)}}
  BY DEF Blocks
<1>3. \A s \in Slots : StartsBlock(s) <=> \E o \in live : s = o.at
  BY StartsAreObjects
<1> HIDE DEF Read
<1> QED
  BY <1>1, <1>2, <1>3

LEMMA SlotsOfBlock ==
    ASSUME IInv, NEW o \in live
    PROVE  Abstract!BlockSlots(BlockOf(o)) = SlotsOf(o)
<1>1. o.at \in Nat /\ RequiredPageCount(o.size) \in Nat \ {0}
  BY ObjectEntries
<1>2. \A s \in o.at .. (o.at + RequiredPageCount(o.size) - 1) :
         s - o.at \in 0 .. (RequiredPageCount(o.size) - 1) /\ s = o.at + (s - o.at)
  BY <1>1
<1>3. \A k \in 0 .. (RequiredPageCount(o.size) - 1) :
         o.at + k \in o.at .. (o.at + RequiredPageCount(o.size) - 1)
  BY <1>1
<1>4. BlockOf(o).at = o.at
      /\ DOMAIN BlockOf(o).frames = 0 .. (RequiredPageCount(o.size) - 1)
  BY DEF BlockOf
<1>5. Abstract!BlockSlots(BlockOf(o))
        = {o.at + k : k \in 0 .. (RequiredPageCount(o.size) - 1)}
  BY <1>4 DEF Abstract!BlockSlots
<1> QED
  BY <1>2, <1>3, <1>5 DEF SlotsOf

\* Paging an object maps its block, onto slots that no other block has.
LEMMA PageMaps ==
    ASSUME IInv, Blocks = {BlockOf(o) : o \in live},
           Blocks' = {BlockOf(o) : o \in live'},
           NEW frame \in Frames, NEW off \in 0 .. (PAGE_SIZE - 1),
           NEW size \in Nat, NEW flags \in ClientFlags,
           PageAnywhere(frame, off, size, flags)
    PROVE  Abstract!Next \/ Blocks' = Blocks
<1>1. CASE OutOfPageSpace(size, flags)
  BY <1>1 DEF OutOfPageSpace
<1>2. ASSUME NEW i \in Slots,
             find_free_blocks_offset(i, RequiredPageCount(size)),
             PageAt(i, frame, off, size, flags)
      PROVE  Abstract!Next
  <2> DEFINE n == RequiredPageCount(size)
             j == i + n - 1
             new == [at |-> i, off |-> off, frame |-> frame, size |-> size,
                     flags |-> flags]
  <2>1. i \in Nat /\ n \in Nat \ {0} /\ j - i = n - 1 /\ i <= j /\ j \in i .. j
    BY RequiredPageCountType, SlotsType
  <2>2. /\ i .. j \subseteq Slots /\ (i .. j) \cap BootSlots = {}
        /\ \A o \in live : SlotsOf(o) \cap (i .. j) = {}
    BY <1>2, FreeRunIsFree DEF find_free_blocks_offset
  <2>3. Blocks' = Blocks \cup {BlockOf(new)}
    <3>1. live' = live \cup {new}
      BY <1>2 DEF PageAt
    <3> HIDE DEF new
    <3> QED BY <3>1
  <2>4. BlockOf(new) = [at |-> i, frames |-> [k \in 0 .. (j - i) |-> (frame + k) % NFrames]]
    BY <2>1 DEF BlockOf
  <2>5. i .. j \subseteq Slots \ Abstract!Taken
    <3>1. \A b \in Blocks : Abstract!BlockSlots(b) \cap (i .. j) = {}
      BY <2>2, SlotsOfBlock
    <3> QED
      BY <2>2, <3>1 DEF Abstract!Taken
  <2>6. Abstract!Map(i, j)
    <3> HIDE DEF new, j, n
    <3> QED BY <2>1, <2>3, <2>4, <2>5 DEF Abstract!Map, Frames
  <2>7. j \in Slots
    BY <2>1, <2>2
  <2> QED
    BY <2>6, <2>7 DEF Abstract!Next
<1> QED
  BY <1>1, <1>2 DEF PageAnywhere

\* Unpaging an object takes back its block and no other.
LEMMA UnpageUnmaps ==
    ASSUME IInv, Blocks = {BlockOf(o) : o \in live},
           Blocks' = {BlockOf(o) : o \in live'},
           NEW o \in live, live' = live \ {o}
    PROVE  Abstract!Next
<1>1. \A p \in live : p # o => p.at # o.at
  BY ObjectEntries DEF IInv, ObjectsDisjoint
<1>2. \A p \in live : p # o => BlockOf(p) # BlockOf(o)
  BY <1>1 DEF BlockOf
<1>3. Blocks' = Blocks \ {BlockOf(o)}
  BY <1>2
<1> QED
  BY <1>3 DEF Abstract!Next, Abstract!Unmap

LEMMA StepRefines ==
    ASSUME IInv, [Next]_vars, Blocks = {BlockOf(o) : o \in live},
           Blocks' = {BlockOf(o) : o \in live'}
    PROVE  Abstract!Next \/ Blocks' = Blocks
<1>1. CASE PageObject
  <2>1. PICK frame \in PhysFrames, size \in Sizes, flags \in ClientFlags :
           PageAnywhere(frame, 0, size, flags)
    BY <1>1 DEF PageObject, page
  <2>2. frame \in Frames /\ size \in Nat /\ 0 \in 0 .. (PAGE_SIZE - 1)
    BY ArgumentsAssumption, SizesAssumption
  <2> QED
    BY <2>1, <2>2, PageMaps
<1>2. CASE PageUnalignedObject
  <2>1. PICK frame \in PhysFrames, off \in Offsets, size \in Sizes,
             flags \in ClientFlags : PageAnywhere(frame, off, size, flags)
    BY <1>2 DEF PageUnalignedObject, page_unaligned
  <2>2. frame \in Frames /\ size \in Nat /\ off \in 0 .. (PAGE_SIZE - 1)
    BY ArgumentsAssumption
  <2> QED
    BY <2>1, <2>2, PageMaps
<1>3. CASE UnpageObject
  BY <1>3, UnpageUnmaps DEF UnpageObject
<1>4. CASE TlbFill \/ UNCHANGED vars
  BY <1>4 DEF TlbFill, vars
<1> QED
  BY <1>1, <1>2, <1>3, <1>4 DEF Next

\* Every behaviour of paging.c, seen through the END_OF_BLOCK bits of the page
\* table, is a behaviour of PageSpace.
THEOREM Refinement == Spec => ImplementsPageSpace
<1>1. Init => Abstract!Init
  <2> SUFFICES ASSUME Init PROVE Blocks = {}
    BY DEF Abstract!Init
  <2>1. Blocks = {BlockOf(o) : o \in live}
    BY InitIInv, BlocksAreObjects
  <2> QED
    BY <2>1 DEF Init
<1>2. IInv /\ IInv' /\ [Next]_vars => [Abstract!Next]_Blocks
  <2> SUFFICES ASSUME IInv, IInv', [Next]_vars
               PROVE  Abstract!Next \/ Blocks' = Blocks
    OBVIOUS
  <2>1. Blocks = {BlockOf(o) : o \in live}
    BY BlocksAreObjects
  <2>2. (IInv => Blocks = {BlockOf(o) : o \in live})'
    BY BlocksAreObjects, PTL
  <2>3. Blocks' = {BlockOf(o) : o \in live'}
    BY <2>2 DEF BlockOf, RequiredPageCount
  <2> QED
    BY <2>1, <2>3, StepRefines
<1> QED
  BY <1>1, <1>2, InductiveInvariant, PTL DEF Spec, ImplementsPageSpace, Abstract!Spec
===============================================================================
