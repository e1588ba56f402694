------------------------------ MODULE Descriptors ------------------------------
(***************************************************************************)
(* The descriptor tables: the segments of platform/i386/gdt.c and the      *)
(* gates of platform/i386/idt.c, as the bytes they are in memory, and what *)
(* the processor makes of those bytes when it loads a segment register or  *)
(* takes an exception.                                                     *)
(***************************************************************************)
EXTENDS Integers, Sequences

CONSTANTS
    IDT_ENTRIES,  \* 256
    LastStub,     \* the last vector that has a stub (47)
    isr           \* the address of every stub, as the linker placed it

Byte == 0 .. 255

\* A 32-bit number is the sequence of its bytes, the lowest one first.
U32 == [1 .. 4 -> Byte]
Zero == <<0, 0, 0, 0>>
Ones == <<255, 255, 255, 255>>

ASSUME DescriptorsAssumption ==
    /\ LastStub \in Nat
    /\ IDT_ENTRIES \in Nat /\ LastStub < IDT_ENTRIES
    /\ isr \in [0 .. LastStub -> U32]
    /\ \A v, w \in 0 .. LastStub : v # w => isr[v] # isr[w]

ACCESS_FLAG_CODE_SEGMENT_READABLE == 2
ACCESS_FLAG_DATA_SEGMENT_WRITABLE == 2
ACCESS_FLAG_IS_EXECUTABLE == 8
ACCESS_FLAG_IS_CODE_OR_DATA == 16
ACCESS_FLAG_RING_3 == 96
ACCESS_FLAG_IS_PRESENT == 128
GDT_FLAG_IS_32_BITS == 4
GDT_FLAG_4KB_GRANULARITY == 8

KERNEL_CODE_SEGMENT_INDEX == 8
KERNEL_DATA_SEGMENT_INDEX == 16

VARIABLES
    g_gdt_entries,  \* eight bytes for each of five segments
    gdtr,           \* the limit loaded by lgdt, or NoTable
    cs, ds,         \* the segments the processor has loaded for code and data
    g_idt,          \* eight bytes for each vector
    idtr            \* the limit loaded by lidt, or NoTable

tables == <<g_gdt_entries, gdtr, cs, ds, g_idt, idtr>>

\* The tables of the boot loader, if there are any, may be gone.
NoTable == -1

-------------------------------------------------------------------------------
(***************************************************************************)
(* Segments.                                                               *)
(***************************************************************************)

\* Mutant: the two halves of a byte shared by two bit-fields swapped.
GdtEntryNibblesSwapped(base, limit, access, flags) ==
    << limit[1], limit[2], base[1], base[2], base[3], access,
       flags + 16 * (limit[3] % 16), base[4] >>

\* gdt_entry_t as gdt_set_gate() fills it in: the number of a segment's last
\* page has 20 bits, the upper four of them next to the flags.
gdt_entry_t(base, limit, access, flags) ==
    << limit[1], limit[2], base[1], base[2], base[3], access,
       (limit[3] % 16) + 16 * flags, base[4] >>

\* The access flags that gdt_init() gives segments 1 to 4.
SegmentAccess ==
    LET code == ACCESS_FLAG_IS_EXECUTABLE + ACCESS_FLAG_CODE_SEGMENT_READABLE
                + ACCESS_FLAG_IS_CODE_OR_DATA + ACCESS_FLAG_IS_PRESENT
        data == ACCESS_FLAG_DATA_SEGMENT_WRITABLE
                + ACCESS_FLAG_IS_CODE_OR_DATA + ACCESS_FLAG_IS_PRESENT
    IN  << code, data, code + ACCESS_FLAG_RING_3, data + ACCESS_FLAG_RING_3 >>

gdt_set_gate(num) ==
    /\ g_gdt_entries' = [g_gdt_entries EXCEPT ![num] =
          IF num = 0 THEN gdt_entry_t(Zero, Zero, 0, 0)
          ELSE gdt_entry_t(Zero, Ones, SegmentAccess[num],
                           GDT_FLAG_IS_32_BITS + GDT_FLAG_4KB_GRANULARITY)]
    /\ UNCHANGED <<gdtr, cs, ds, g_idt, idtr>>

\* External: a descriptor as the processor reads it.  With 4 KiB granularity
\* the last byte of the segment is the last one of its last page.
SegmentOf(d) ==
    [ base |-> << d[3], d[4], d[5], d[8] >>,
      last |-> IF (d[7] \div 128) % 2 = 1
               THEN << 255, 15 + 16 * (d[1] % 16),
                       (d[1] \div 16) + 16 * (d[2] % 16),
                       (d[2] \div 16) + 16 * (d[7] % 16) >>
               ELSE << d[1], d[2], d[7] % 16, 0 >>,
      bits32 |-> (d[7] \div 64) % 2 = 1,
      present |-> d[6] \div 128 = 1,
      ring |-> (d[6] \div 32) % 4,
      user |-> (d[6] \div 16) % 2 = 1,
      code |-> (d[6] \div 8) % 2 = 1,
      rw |-> (d[6] \div 2) % 2 = 1 ]

\* All four gigabytes, for the kernel, as code or as data.
FlatSegment(code) ==
    [ base |-> Zero, last |-> Ones, bits32 |-> TRUE, present |-> TRUE,
      ring |-> 0, user |-> TRUE, code |-> code, rw |-> TRUE ]

\* External: what loading a selector gives.
Selectable(selector) == selector + 7 <= gdtr
SegmentAt(selector) == SegmentOf(g_gdt_entries[selector \div 8])

\* gdt_flush(): lgdt with g_gdt_ptr, whose limit gdt_init() has set; the data
\* segments; the far jump.
lgdt ==
    /\ gdtr' = 5 * 8 - 1
    /\ UNCHANGED <<g_gdt_entries, cs, ds, g_idt, idtr>>

LoadDataSegments ==
    /\ Selectable(16)
    /\ ds' = SegmentAt(16)
    /\ UNCHANGED <<g_gdt_entries, gdtr, cs, g_idt, idtr>>

FarJump ==
    /\ Selectable(8)
    /\ cs' = SegmentAt(8)
    /\ UNCHANGED <<g_gdt_entries, gdtr, ds, g_idt, idtr>>

-------------------------------------------------------------------------------
(***************************************************************************)
(* Gates.                                                                  *)
(***************************************************************************)

EmptyEntry == << 0, 0, 0, 0, 0, 0, 0, 0 >>

\* idt_entry_t as idt_set_gate() fills it in.
idt_entry_t(base, selector, flags) ==
    << base[1], base[2], selector % 256, selector \div 256, 0, flags,
       base[3], base[4] >>

ClearIdt ==
    /\ g_idt' = [v \in 0 .. (IDT_ENTRIES - 1) |-> EmptyEntry]
    /\ UNCHANGED <<g_gdt_entries, gdtr, cs, ds, idtr>>

\* 0x8E: present, ring 0, 32-bit interrupt gate.
idt_set_gate(index) ==
    /\ g_idt' = [g_idt EXCEPT ![index] =
                    idt_entry_t(isr[index], KERNEL_CODE_SEGMENT_INDEX, 142)]
    /\ UNCHANGED <<g_gdt_entries, gdtr, cs, ds, idtr>>

idt_update_lidt ==
    /\ idtr' = 8 * IDT_ENTRIES - 1
    /\ UNCHANGED <<g_gdt_entries, gdtr, cs, ds, g_idt>>

\* External: a gate as the processor reads it.
GateOf(g) ==
    [ entry |-> << g[1], g[2], g[7], g[8] >>,
      selector |-> g[3] + 256 * g[4],
      present |-> g[6] \div 128 = 1,
      ring |-> (g[6] \div 32) % 4,
      masksInterrupts |-> g[6] % 32 = 14 ]

\* The gate that the stubs and Interrupts are written for: to the stub of the
\* vector, in the kernel's code segment, with the interrupt flag cleared.
StubGate(v) ==
    [ entry |-> isr[v], selector |-> KERNEL_CODE_SEGMENT_INDEX,
      present |-> TRUE, ring |-> 0, masksInterrupts |-> TRUE ]

\* External: the processor finds a gate for the vector and its code segment.
Deliverable(v) ==
    /\ 8 * v + 7 <= idtr
    /\ GateOf(g_idt[v]).present
    /\ Selectable(GateOf(g_idt[v]).selector)
    /\ LET s == SegmentAt(GateOf(g_idt[v]).selector) IN s.present /\ s.code

\* The gate loads cs, and the common stub loads the data segments.
LoadForHandler(v) ==
    /\ cs' = SegmentAt(GateOf(g_idt[v]).selector)
    /\ ds' = SegmentAt(KERNEL_DATA_SEGMENT_INDEX)
    /\ UNCHANGED <<g_gdt_entries, gdtr, g_idt, idtr>>

\* Going back, the stub loads the data segments that it has saved, and iret
\* the code segment: those of gdt_flush(), which comes before any gate.
RestoreData ==
    /\ ds' = SegmentAt(KERNEL_DATA_SEGMENT_INDEX)
    /\ UNCHANGED <<g_gdt_entries, gdtr, cs, g_idt, idtr>>

RestoreCode ==
    /\ cs' = SegmentAt(KERNEL_CODE_SEGMENT_INDEX)
    /\ UNCHANGED <<g_gdt_entries, gdtr, ds, g_idt, idtr>>

\* External: the boot loader starts the kernel with flat 32-bit segments, as
\* the multiboot specification demands of it.
TablesInit ==
    /\ g_gdt_entries = [s \in 0 .. 4 |-> EmptyEntry]
    /\ gdtr = NoTable
    /\ cs = FlatSegment(TRUE)
    /\ ds = FlatSegment(FALSE)
    /\ g_idt = [v \in 0 .. (IDT_ENTRIES - 1) |-> EmptyEntry]
    /\ idtr = NoTable

Entries == [1 .. 8 -> Byte]

TablesTypeOK ==
    /\ g_gdt_entries \in [0 .. 4 -> Entries]
    /\ g_idt \in [0 .. (IDT_ENTRIES - 1) -> Entries]
    /\ gdtr \in {NoTable, 39}
    /\ idtr \in {NoTable, 8 * IDT_ENTRIES - 1}

-------------------------------------------------------------------------------
(***************************************************************************)
(* Properties.                                                             *)
(***************************************************************************)

\* Code and data are addressed from 0 to the last byte, in ring 0, whichever
\* table the loaded segments came from and whatever handler loaded them last:
\* what paging.c and the VGA addresses take for granted (gdt.c:7-75,
\* idt.s:77-81).
SegmentsFlat ==
    /\ cs = FlatSegment(TRUE)
    /\ ds = FlatSegment(FALSE)
===============================================================================
