-------------------------------- MODULE Kernel --------------------------------
(***************************************************************************)
(* kernel_main() (main.c) from its call by boot.s to its end, with the     *)
(* exceptions that may interrupt it anywhere: the order in which the       *)
(* segments, the display, the gates, the interrupt controllers, the        *)
(* allocator and the disks are set up, against Interrupts and Descriptors, *)
(* which say what an exception and a kprintf() need to be in place.  What  *)
(* the steps of the other components do inside is in their own modules;    *)
(* here they print or panic.                                               *)
(***************************************************************************)
EXTENDS Interrupts, Descriptors

VARIABLES
    at,        \* the next step of Program that kernel_main() takes
    magic,     \* the loader has passed MULTIBOOT_BOOTLOADER_MAGIC
    displays,  \* s_num_displays
    reset      \* the processor could not deliver an exception, and started anew

kernelVars == <<vars, tables, at, magic, displays, reset>>

ASSUME KernelAssumption == Vectors \cup {GeneralProtection} \subseteq 0 .. LastStub

-------------------------------------------------------------------------------
(***************************************************************************)
(* What kernel_main() does, as a sequence of steps.                        *)
(***************************************************************************)

Step(op) == << [op |-> op, arg |-> 0] >>
Times(n, op) == [i \in 1 .. n |-> [op |-> op, arg |-> i - 1]]

gdt_init == Times(5, "gdt_set_gate") \o Step("lgdt") \o Step("load_data")
            \o Step("far_jump")

\* Mutant: the table is loaded before it is filled in.
IdtInitLoadsFirst ==
    Step("print") \o Step("memset") \o Step("lidt")
    \o Times(LastStub + 1, "idt_set_gate") \o Step("print")

idt_init == Step("print") \o Step("memset") \o Times(LastStub + 1, "idt_set_gate")
            \o Step("lidt") \o Step("print")

\* pic_remap() is in Pic.
irq_init == Times(2, "print")

mem_print_info == Times(2, "print")

\* page() panics when it finds no free entries, kmalloc() no free blocks.
mem_initialize == Step("print") \o Step("may_panic")

ata_init == Step("print") \o Step("may_panic") \o Times(4, "may_print")

ata_print_info == Times(4, "may_print")

\* Mutant: the display is registered behind the check that may print.
RegisterDisplayLate ==
    gdt_init \o Step("check_magic") \o Step("display_register") \o Step("print")
    \o idt_init \o irq_init \o mem_print_info \o mem_initialize
    \o ata_init \o ata_print_info \o Step("print") \o Step("end")

kernel_main ==
    gdt_init \o Step("display_register") \o Step("check_magic") \o Step("print")
    \o idt_init \o irq_init \o mem_print_info \o mem_initialize
    \o ata_init \o ata_print_info \o Step("print") \o Step("end")

\* The panic() macro, wherever it is expanded.
panic == Times(2, "print") \o Step("for_ever")

Program == kernel_main \o panic
PanicAt == Len(kernel_main) + 1

-------------------------------------------------------------------------------
(***************************************************************************)
(* The steps.                                                              *)
(***************************************************************************)

KernelInit ==
    /\ Init
    /\ TablesInit
    /\ at = 1
    /\ magic \in BOOLEAN
    /\ displays = 0
    /\ reset = FALSE

\* kernel_main() runs, and its next step is op.
Takes(op) ==
    /\ ~reset /\ Running = 0 /\ Pc = "working"
    /\ Program[at].op = op
    /\ UNCHANGED <<magic, reset>>

SetUpTables ==
    /\ \/ Takes("gdt_set_gate") /\ gdt_set_gate(Program[at].arg)
       \/ Takes("lgdt") /\ lgdt
       \/ Takes("load_data") /\ LoadDataSegments
       \/ Takes("far_jump") /\ FarJump
       \/ Takes("memset") /\ ClearIdt
       \/ Takes("idt_set_gate") /\ idt_set_gate(Program[at].arg)
       \/ Takes("lidt") /\ idt_update_lidt
    /\ at' = at + 1
    /\ UNCHANGED <<vars, displays>>

display_register ==
    /\ Takes("display_register")
    /\ displays' = displays + 1
    /\ at' = at + 1
    /\ UNCHANGED <<vars, tables>>

CheckMagic ==
    /\ Takes("check_magic")
    /\ at' = IF magic THEN at + 1 ELSE PanicAt
    /\ UNCHANGED <<vars, tables, displays>>

MayPanic ==
    /\ Takes("may_panic")
    /\ at' \in {at + 1, PanicAt}
    /\ UNCHANGED <<vars, tables, displays>>

\* A drive is mentioned only when it is there.
SkipPrint ==
    /\ Takes("may_print")
    /\ at' = at + 1
    /\ UNCHANGED <<vars, tables, displays>>

KernelPrint ==
    /\ Takes("print") \/ Takes("may_print")
    /\ CallKprintf
    /\ at' = at + 1
    /\ UNCHANGED <<tables, displays>>

\* The rest of kprintf(), in kernel_main() or in a handler, and the handler.
InKprintf ==
    /\ ~reset
    /\ \/ Running > 0 /\ CallKprintf
       \/ SeeUnlocked
       \/ mutex_lock
       \/ PrintHalf
       \/ mutex_unlock
    /\ UNCHANGED <<tables, at, magic, displays, reset>>

GoBack ==
    /\ ~reset
    /\ \/ LeaveHandler /\ RestoreData
       \/ Return /\ RestoreCode
    /\ UNCHANGED <<at, magic, displays, reset>>

\* An exception goes to the stub that its gate names or, without a gate and
\* without one for the faults that follow, resets the processor.
Exception ==
    /\ ~reset
    /\ \E v \in Vectors :
          \/ /\ Deliverable(v)
             /\ Interrupt(v) /\ LoadForHandler(v)
             /\ UNCHANGED reset
          \/ /\ ~Deliverable(v)
             /\ reset' = TRUE
             /\ UNCHANGED <<vars, tables>>
    /\ UNCHANGED <<at, magic, displays>>

\* The gates that let a handler begin are there when its iret faults.
FaultAtIret ==
    /\ ~reset
    /\ IretFault /\ LoadForHandler(GeneralProtection)
    /\ UNCHANGED <<at, magic, displays, reset>>

Runs == SetUpTables \/ display_register \/ CheckMagic \/ MayPanic \/ SkipPrint
        \/ KernelPrint \/ InKprintf \/ GoBack \/ FaultAtIret

KernelNext == Runs \/ Exception

\* The processor goes on executing; nothing is asked of the exceptions.
KernelSpec == KernelInit /\ [][KernelNext]_kernelVars /\ WF_kernelVars(Runs)

-------------------------------------------------------------------------------
(***************************************************************************)
(* Properties.                                                             *)
(***************************************************************************)

KernelTypeOK ==
    /\ TypeOK
    /\ TablesTypeOK
    /\ at \in DOMAIN Program
    /\ displays \in {0, 1}
    /\ magic \in BOOLEAN /\ reset \in BOOLEAN

\* From the lidt on, every exception finds a gate to the stub of its own
\* number, in a segment that is loaded, with interrupts masked; before it the
\* kernel has no gates, and only then can an exception reset the machine
\* (idt.c:110-193, gdt.c:45-74).
ExceptionsReachStubs ==
    /\ reset => idtr = NoTable
    /\ idtr # NoTable =>
          \A v \in 0 .. LastStub :
             Deliverable(v) /\ GateOf(g_idt[v]) = StubGate(v)

\* Nothing is printed before a display is there to show it, not even by the
\* panic that refuses the boot loader's magic or by an exception that comes
\* while the kernel starts (main.c:43-50).
NothingPrintedUnseen == Pc \in Printing => displays > 0

\* The lock is never left behind: while it is taken, some context is between
\* taking it and giving it back (display.c:52, 139).  That context may lie
\* below a handler that waits for the lock and so never go on; the lock then
\* has its holder, and the kernel stands still all the same.
LockHasHolder == locked = 1 => \E k \in DOMAIN pcs : pcs[k] \in Printing

\* kernel_main() gets to its end or to the loop of a panic, with its last
\* kprintf() returned, and never waits in vain for the lock, unless exceptions
\* keep it from running for ever (a handler that waits for the lock of the
\* line it has interrupted does).
KernelMainEnds ==
    <>[](Running = 0) =>
        <>(\/ reset
           \/ Program[at].op \in {"end", "for_ever"} /\ pcs[1] = "working")
===============================================================================
