------------------------------ MODULE Interrupts ------------------------------
(***************************************************************************)
(* Interrupts and the kernel's printing: the gates and stubs of            *)
(* platform/i386/idt.c and idt.s, isr_handler(), kprintf() and its mutex.  *)
(*                                                                         *)
(* Context 0 is kernel_main().  Context k > 0 is the handler of the k-th   *)
(* interrupt, which runs on the stack of the context it interrupted.  The  *)
(* gates clear the interrupt flag, and the one sti, in the stub, takes     *)
(* effect only behind its iret, which restores the flag as it was: clear.  *)
(* What arrives are therefore the exceptions and the NMI, at any           *)
(* instruction.                                                            *)
(***************************************************************************)
EXTENDS Integers, Sequences

CONSTANTS
    Vectors,       \* the exceptions that occur
    MaxInterrupts  \* bound: handlers on the stack

NMI == 2
GeneralProtection == 13

\* The exceptions for which the processor pushes an error code.
ErrorCodeVectors == {8, 10, 11, 12, 13, 14, 17}

\* idt_init() gives vectors 0 to 47 a gate, each to the stub of its number.
Gates == 0 .. 47

ASSUME InterruptsAssumption ==
    /\ Vectors \subseteq 0 .. 31
    /\ MaxInterrupts \in Nat

VARIABLES
    stack,   \* the words of the kernel stack, the last one on top
    pcs,     \* where each context is, the running one last
    raised,  \* history: the vector that started each context after the first
    locked,  \* m_kprintf.locked
    open     \* history: the context whose half line ends the screen, or None

vars == <<stack, pcs, raised, locked, open>>

None == -1

\* A word on the stack: what it is, and whose.
Word(what, of) == [what |-> what, of |-> of]

\* A context as the number interrupts have been nested.
Running == Len(pcs) - 1
Pc == pcs[Len(pcs)]
GoTo(pc) == pcs' = [pcs EXCEPT ![Len(pcs)] = pc]

Init ==
    /\ stack = << Word("local", 0) >>
    /\ pcs = << "working" >>
    /\ raised = <<>>
    /\ locked = 0
    /\ open = None

-------------------------------------------------------------------------------
(***************************************************************************)
(* Entering a handler.                                                     *)
(***************************************************************************)

\* What the processor pushes when context c is interrupted.
CpuFrame(c, v) ==
    << Word("eflags", c), Word("cs", c), Word("eip", c) >>
    \o IF v \in ErrorCodeVectors THEN << Word("error", c) >> ELSE <<>>

\* The stubs written with ISR_ERRCODE; all others are ISR_NOERRCODE.
ErrcodeStubs == {8, 10, 11, 12, 13, 14}

\* Mutants: the words in the other order; the vector of the line of that
\* number instead of the exception's.
IsrStubSwapped(v) ==
    << Word("vector", v) >>
    \o IF v \in ErrcodeStubs THEN << Word("dummy", 0) >> ELSE <<>>

IsrStubOfLine(v) ==
    (IF v \in ErrcodeStubs THEN << Word("dummy", 0) >> ELSE <<>>)
    \o << Word("vector", v + 32) >>

\* The two macros: it is ISR_ERRCODE that pushes a dummy error code.
IsrStub(v) ==
    (IF v \in ErrcodeStubs THEN << Word("dummy", 0) >> ELSE <<>>)
    \o << Word("vector", v) >>

\* pusha, and the data segment on top of it.
SavedByCommonStub(c) ==
    [i \in 1 .. 8 |-> Word("general", c)] \o << Word("ds", c) >>

\* From the interrupt to the call of isr_handler().
Enter(v) ==
    LET c == Running
    IN  /\ Len(raised) < MaxInterrupts
        /\ v \in Gates
        /\ stack' = stack \o CpuFrame(c, v) \o IsrStub(v) \o SavedByCommonStub(c)
        /\ pcs' = Append(pcs, "handler")
        /\ raised' = Append(raised, v)
        /\ UNCHANGED <<locked, open>>

\* The processor holds an NMI back until the handler of the one before it
\* executes an iret.
NmiBlocked == \E k \in DOMAIN raised : raised[k] = NMI /\ pcs[k + 1] # "iret"

Interrupt(v) ==
    /\ Pc # "iret"
    /\ v = NMI => ~NmiBlocked
    /\ Enter(v)

-------------------------------------------------------------------------------
(***************************************************************************)
(* isr_handler() and kprintf().  A kprintf() call prints a line in two     *)
(* halves; mutex_lock() reads m->locked and sets it in separate steps.     *)
(***************************************************************************)

\* The word of the registers_t argument at offset o from its first field.
RegsWord(o) == stack[Len(stack) - o]
int_no == RegsWord(9)

\* kernel_main() prints as it goes; isr_handler() prints the vector.
CallKprintf ==
    /\ Pc \in {"working", "handler"}
    /\ GoTo("lock")
    /\ UNCHANGED <<stack, raised, locked, open>>

\* Mutant: mutex_lock() does not wait.
SeeAnything ==
    /\ Pc = "lock"
    /\ GoTo("take")
    /\ UNCHANGED <<stack, raised, locked, open>>

\* The loop of mutex_lock() ends when the lock is seen free.
SeeUnlocked ==
    /\ Pc = "lock"
    /\ locked = 0
    /\ GoTo("take")
    /\ UNCHANGED <<stack, raised, locked, open>>

mutex_lock ==
    /\ Pc = "take"
    /\ locked' = 1
    /\ GoTo("first half")
    /\ UNCHANGED <<stack, raised, open>>

PrintHalf ==
    /\ \/ Pc = "first half" /\ GoTo("second half") /\ open' = Running
       \/ Pc = "second half" /\ GoTo("unlock") /\ open' = None
    /\ UNCHANGED <<stack, raised, locked>>

\* Mutant: the lock is not given back.
UnlockKeepsLock ==
    /\ Pc = "unlock"
    /\ GoTo(IF Running = 0 THEN "working" ELSE "leave")
    /\ UNCHANGED <<stack, raised, locked, open>>

\* kprintf() returns, to kernel_main() or to isr_handler() and the stub.
mutex_unlock ==
    /\ Pc = "unlock"
    /\ locked' = 0
    /\ GoTo(IF Running = 0 THEN "working" ELSE "leave")
    /\ UNCHANGED <<stack, raised, open>>

-------------------------------------------------------------------------------
(***************************************************************************)
(* Leaving the handler.                                                    *)
(***************************************************************************)

\* The stub pops the data segment and the registers, and `add $8` drops the
\* two words that should be the vector and the error code.
PoppedByCommonStub == 1 + 8 + 2

LeaveHandler ==
    /\ Pc = "leave"
    /\ stack' = SubSeq(stack, 1, Len(stack) - PoppedByCommonStub)
    /\ GoTo("iret")
    /\ UNCHANGED <<raised, locked, open>>

\* The words iret takes for eip, cs and eflags.
IretFrame == SubSeq(stack, Len(stack) - 2, Len(stack))
FrameOf(c) == << Word("eflags", c), Word("cs", c), Word("eip", c) >>

\* iret goes back to a context when its frame is on top of the stack.
Return ==
    /\ Pc = "iret"
    /\ \E c \in 0 .. (Running - 1) :
          /\ Len(stack) >= 3 /\ IretFrame = FrameOf(c)
          /\ pcs' = SubSeq(pcs, 1, c + 1)
          /\ raised' = SubSeq(raised, 1, c)
    /\ stack' = SubSeq(stack, 1, Len(stack) - 3)
    /\ UNCHANGED <<locked, open>>

\* Any other word is no selector of a code segment: neither eflags, whose
\* bits 3 and 5 are zero, nor an address in the stub is one.  iret faults
\* and leaves the stack as it was.
IretFault ==
    /\ Pc = "iret"
    /\ Len(stack) >= 3 => \A c \in 0 .. Running : IretFrame # FrameOf(c)
    /\ Enter(GeneralProtection)

Next ==
    \/ \E v \in Vectors : Interrupt(v)
    \/ CallKprintf
    \/ SeeUnlocked
    \/ mutex_lock
    \/ PrintHalf
    \/ mutex_unlock
    \/ LeaveHandler
    \/ Return
    \/ IretFault

Spec == Init /\ [][Next]_vars

-------------------------------------------------------------------------------
(***************************************************************************)
(* Properties.                                                             *)
(***************************************************************************)

Words ==
    [what : {"local", "eflags", "cs", "eip", "error", "dummy", "general", "ds"},
     of : 0 .. MaxInterrupts]
    \cup [what : {"vector"}, of : Gates]

Printing == {"first half", "second half", "unlock"}

TypeOK ==
    /\ stack \in Seq(Words)
    /\ pcs \in Seq({"working", "handler", "lock", "take", "leave", "iret"}
                   \cup Printing)
    /\ raised \in Seq(Gates)
    /\ Len(pcs) = Len(raised) + 1
    /\ locked \in {0, 1}
    /\ open \in {None} \cup 0 .. MaxInterrupts

\* Whatever the processor and the stub pushed before it, and however deep
\* interrupts are nested, isr_handler() finds the number of the interrupt it
\* was called for in the field it reads (idt.c:64-74, 208-211).
HandlerSeesVector ==
    Pc = "handler" => int_no = Word("vector", raised[Len(raised)])

\* Two lines are never mixed on the screen, a line being what one kprintf()
\* prints: a line begins where another one is complete and ends where its own
\* first half is the last thing printed,
\* although interrupts print too and although mutex_lock() takes the lock
\* some time after it has seen it free (mutex.c:6-9).
LinesNotMixed ==
    /\ Pc = "first half" => open = None
    /\ Pc = "second half" => open = Running

\* When the stub executes iret, "the pushed error code and pushed ISR number"
\* are gone (idt.s:92) and the frame of the interrupted context is on top.
FrameIsOnTop ==
    Pc = "iret" => /\ Len(stack) >= 3
                   /\ IretFrame = FrameOf(Running - 1)
===============================================================================
