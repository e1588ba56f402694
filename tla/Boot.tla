--------------------------------- MODULE Boot ---------------------------------
(***************************************************************************)
(* boot.s: from the boot loader's jump to _start to the call of            *)
(* kernel_main, one iteration of a loop or one instruction that changes    *)
(* what is modelled per step.  It builds the table that Paging starts      *)
(* with, in Paging's variables, and switches paging on under its own feet. *)
(*                                                                         *)
(* Both loops close with the LOOP instruction, which decrements %ecx and   *)
(* falls through when it becomes 0.  Nothing sets %ecx, and the multiboot  *)
(* specification leaves it undefined at entry.                             *)
(***************************************************************************)
EXTENDS Paging

CONSTANTS
    EcxValues,   \* values %ecx may have at entry
    RegModulus   \* registers wrap here (2^32)

ASSUME EcxAssumption ==
    /\ RegModulus \in Nat \ {0}
    /\ EcxValues \subseteq 0 .. (RegModulus - 1)

\* The image has a page for .text behind that of .text.multiboot.
ASSUME ImageAssumption == KernelFirst < KernelLast

LowPages == 0 .. (PAGE_TABLE_LEN - 1)

VARIABLES
    pc,         \* the label or instruction to be executed next
    i,          \* %edi as an index into the table, and %esi as a page number
    ecx,
    identity,   \* g_page_table_00000000
    directory,  \* the tables of directory entries 0 and 768 (to 770)
    paging,     \* cr0.PG
    low_tlb     \* translations of pages below 4 MiB the processor has cached

bootVars == <<pc, i, ecx, identity, directory, paging, low_tlb>>

NoTable == "none"
IdentityTable == "00000000"
KernelTable == "C0000000"

\* The loader clears .bss, where the tables are.
BootInit ==
    /\ page_table = [s \in Slots |-> Unused]
    /\ tlb = {} /\ live = {} /\ unpaged = 0 /\ status = "running"
    /\ pc = "start"
    /\ i = 0
    /\ ecx \in EcxValues
    /\ identity = [p \in LowPages |-> Unused]
    /\ directory = [d \in {"low", "high"} |-> NoTable]
    /\ paging = FALSE
    /\ low_tlb = {}

-------------------------------------------------------------------------------
(***************************************************************************)
(* The two loops.                                                          *)
(***************************************************************************)

\* loop 1b: to the next iteration, or on to `next` when the counter runs out.
LoopTo(again, next) ==
    /\ i' = i + 1
    /\ ecx' = (ecx - 1) % RegModulus
    /\ pc' = IF ecx' = 0 THEN next ELSE again

\* The first entry's flags, which the first iteration overwrites.
WriteFirstEntry ==
    /\ pc = "start"
    /\ identity' = [identity EXCEPT ![0] =
          [frame |-> 0, flags |-> {"PRESENT", "READ_WRITE", "WRITE_THROUGH", "LOCKED"}]]
    /\ pc' = "identity"
    /\ UNCHANGED <<vars, i, ecx, directory, paging, low_tlb>>

IdentityIteration ==
    /\ pc = "identity" /\ i < PAGE_TABLE_LEN
    /\ identity' = [identity EXCEPT ![i] =
          [frame |-> i, flags |-> {"PRESENT", "READ_WRITE"}]]
    /\ LoopTo("identity", "identity done")
    /\ UNCHANGED <<vars, directory, paging, low_tlb>>

IdentityEnd ==
    /\ pc = "identity" /\ i >= PAGE_TABLE_LEN
    /\ pc' = "identity done"
    /\ UNCHANGED <<vars, i, ecx, identity, directory, paging, low_tlb>>

KernelSetup ==
    /\ pc = "identity done"
    /\ i' = 0
    /\ pc' = "kernel"
    /\ UNCHANGED <<vars, ecx, identity, directory, paging, low_tlb>>

\* Mutant: the image's pages are not locked.
KernelIterationUnlocked ==
    /\ pc = "kernel" /\ i <= KernelLast
    /\ page_table' =
          IF i < KernelFirst THEN page_table
          ELSE [page_table EXCEPT ![i] =
                   [frame |-> i, flags |-> {"PRESENT", "READ_WRITE"}]]
    /\ LoopTo("kernel", "text mode")
    /\ UNCHANGED <<tlb, live, unpaged, status, identity, directory, paging, low_tlb>>

\* Pages below the kernel image are skipped, pages of the image mapped.
KernelIteration ==
    /\ pc = "kernel" /\ i <= KernelLast
    /\ page_table' =
          IF i < KernelFirst THEN page_table
          ELSE [page_table EXCEPT ![i] =
                   [frame |-> i, flags |-> {"PRESENT", "READ_WRITE", "LOCKED"}]]
    /\ LoopTo("kernel", "text mode")
    /\ UNCHANGED <<tlb, live, unpaged, status, identity, directory, paging, low_tlb>>

KernelEnd ==
    /\ pc = "kernel" /\ i > KernelLast
    /\ pc' = "text mode"
    /\ UNCHANGED <<vars, i, ecx, identity, directory, paging, low_tlb>>

-------------------------------------------------------------------------------
(***************************************************************************)
(* The text-mode entry, the directory, and switching paging on.            *)
(***************************************************************************)
MapTextMode ==
    /\ pc = "text mode"
    /\ page_table' = [page_table EXCEPT ![VgaSlot] =
          [frame |-> VgaFrame, flags |-> {"PRESENT", "READ_WRITE"}]]
    /\ pc' = "directory"
    /\ UNCHANGED <<tlb, live, unpaged, status, i, ecx, identity, directory, paging,
                   low_tlb>>

\* Mutant: directory entry 0 is the identity table from the beginning, which
\* is only right if it covers the page the jump is in.
SetDirectoryHighOnly ==
    /\ pc = "directory"
    /\ directory' = [directory EXCEPT !["high"] = KernelTable]
    /\ pc' = "enable"
    /\ UNCHANGED <<vars, i, ecx, identity, paging, low_tlb>>

\* Directory entry 0 is the kernel's table until the jump to the upper half.
SetDirectory ==
    /\ pc = "directory"
    /\ directory' = [directory EXCEPT !["low"] = KernelTable, !["high"] = KernelTable]
    /\ pc' = "enable"
    /\ UNCHANGED <<vars, i, ecx, identity, paging, low_tlb>>

\* The translation of a page below 4 MiB by the tables.
LowEntry(p) ==
    CASE directory["low"] = IdentityTable -> identity[p]
      [] directory["low"] = KernelTable -> page_table[p]
      [] OTHER -> Unused

\* The frames the processor may take page p, below 4 MiB, to be in.
LowFrames(p) ==
    IF ~paging THEN {p}
    ELSE {t.frame : t \in {u \in low_tlb : u.page = p}}
            \cup (IF "PRESENT" \in LowEntry(p).flags THEN {LowEntry(p).frame} ELSE {})

HighMapped(s) ==
    /\ directory["high"] = KernelTable
    /\ "PRESENT" \in page_table[s].flags
    /\ page_table[s].frame = s

\* .text.multiboot is the first page of the image, linked at its physical
\* address; .text follows in the upper half, and the stack is at the very end
\* (linker.ld).
CanFetchLow == LowFrames(KernelFirst) = {KernelFirst}
CanFetchHigh == HighMapped(KernelFirst + 1)
CanPush == HighMapped(KernelLast)

\* There is no interrupt table yet: a page fault resets the machine.
TripleFault == pc' = "reset" /\ UNCHANGED <<vars, i, ecx, identity, directory, paging, low_tlb>>

EnablePaging ==
    /\ pc = "enable"
    /\ paging' = TRUE
    /\ pc' = "jump"
    /\ UNCHANGED <<vars, i, ecx, identity, directory, low_tlb>>

JumpHigh ==
    /\ pc = "jump" /\ CanFetchLow
    /\ pc' = "high"
    /\ UNCHANGED <<vars, i, ecx, identity, directory, paging, low_tlb>>

SwitchLowTable ==
    /\ pc = "high" /\ CanFetchHigh
    /\ directory' = [directory EXCEPT !["low"] = IdentityTable]
    /\ pc' = "reload"
    /\ UNCHANGED <<vars, i, ecx, identity, paging, low_tlb>>

\* Mutant: cr3 is not reloaded after directory entry 0 has changed.
CallWithoutReload ==
    /\ pc = "reload" /\ CanFetchHigh /\ CanPush
    /\ pc' = "kernel_main"
    /\ UNCHANGED <<vars, i, ecx, identity, directory, paging, low_tlb>>

\* Reload cr3, set up the stack, call kernel_main.
ReloadAndCall ==
    /\ pc = "reload" /\ CanFetchHigh /\ CanPush
    /\ pagetable_refresh
    /\ low_tlb' = {}
    /\ pc' = "kernel_main"
    /\ UNCHANGED <<page_table, live, unpaged, status, i, ecx, identity, directory,
                   paging>>

FetchFault ==
    /\ \/ pc = "jump" /\ ~CanFetchLow
       \/ pc = "high" /\ ~CanFetchHigh
       \/ pc = "reload" /\ ~(CanFetchHigh /\ CanPush)
    /\ TripleFault

\* The page walker (external).
LowTlbFill ==
    /\ paging /\ pc # "reset"
    /\ Cardinality(low_tlb) < MaxTlb
    /\ \E p \in LowPages :
          /\ "PRESENT" \in LowEntry(p).flags
          /\ low_tlb' = low_tlb \cup {[page |-> p, frame |-> LowEntry(p).frame]}
    /\ UNCHANGED <<vars, pc, i, ecx, identity, directory, paging>>

Execute ==
    \/ WriteFirstEntry
    \/ IdentityIteration \/ IdentityEnd
    \/ KernelSetup \/ KernelIteration \/ KernelEnd
    \/ MapTextMode \/ SetDirectory
    \/ EnablePaging \/ JumpHigh \/ SwitchLowTable \/ ReloadAndCall
    \/ FetchFault

BootNext == Execute \/ LowTlbFill

BootSpec == BootInit /\ [][BootNext]_<<vars, bootVars>> /\ WF_<<vars, bootVars>>(Execute)

-------------------------------------------------------------------------------
(***************************************************************************)
(* Properties.                                                             *)
(***************************************************************************)

\* Every page of the kernel image is mapped.
ImageMapped == \A s \in KernelFirst .. KernelLast : page_table[s] # Unused

\* kernel_main finds the table that paging.c is written for (paging.c:36-44),
\* and no stale translation of it.  That holds for any %ecx: when the loop
\* stops short of the end of the image, the stack is not mapped, and the
\* machine resets instead of running on half a map.
KernelStartsInInit == pc = "kernel_main" => Init

\* From the call of kernel_main on, the pages below 4 MiB, the hardware's
\* among them, are where their physical addresses say, whatever the processor
\* cached while directory entry 0 was still the kernel's table.  With a small
\* %ecx the loop leaves the last ones out, and they are nowhere.
LowMemoryIsIdentity ==
    pc = "kernel_main" => \A p \in LowPages :
        LowFrames(p) = IF identity[p] = Unused THEN {} ELSE {p}

\* Paging is switched on only when the next instruction can be fetched, and
\* the processor reaches the kernel, unless a small %ecx left a page of the
\* image out.
ReachesKernel ==
    <>(pc = "kernel_main" \/ (pc = "reset" /\ ~ImageMapped))
===============================================================================
