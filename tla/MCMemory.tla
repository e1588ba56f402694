------------------------------- MODULE MCMemory -------------------------------
(***************************************************************************)
(* Memory with words of four bits, six words to a page and twelve page     *)
(* table slots.  As on the machine, the bitmap has room to spare for the   *)
(* blocks there are, the first two free slots go to the bookkeeping page,  *)
(* and a bit number that wrapped around the address space lies some slots  *)
(* behind the bitmap, in one that allocations reach only later.            *)
(***************************************************************************)
EXTENDS Memory

NoFrames == {}

\* One block each: all that the kernel's own caller, ata_init(), asks for.
SingleBlock == {PAGE_SIZE - 1}

\* One or two blocks, which is as many as BlocksInRam is about.
UpToTwoBlocks == {PAGE_SIZE - 1, PAGE_SIZE}

\* The theorems of MemoryProofs are about machines like this one.
ASSUME MachineAssumption == MapHoldsMemory /\ MemoryAddressable
===============================================================================
