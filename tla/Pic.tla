---------------------------------- MODULE Pic ----------------------------------
(***************************************************************************)
(* The interrupt controllers and their driver, platform/i386/irq.c.        *)
(*                                                                         *)
(* The driver is a list of port writes; what they do is in the two 8259As, *)
(* which are modelled from the data sheet as far as the driver uses them.  *)
(* Devices raise their lines at any time, between two writes too.  No code *)
(* of the kernel sets the interrupt flag for good: Accept is a processor   *)
(* on which something has, after irq_init() has returned.                  *)
(***************************************************************************)
EXTENDS Integers, Sequences, FiniteSets

CONSTANT Lines  \* the interrupt lines in use, out of 0 .. 15

Cascade == 2

ASSUME PicAssumption == Lines \subseteq (0 .. 15) \ {Cascade}

Chips == {"master", "slave"}
LinesOf(chip) == IF chip = "master" THEN {n \in Lines : n < 8}
                                    ELSE {n \in Lines : n >= 8}

PIC_IRQ_OFFSET1 == 32

\* Mutant: the slave's vectors begin with the master's last one.
OverlappingOffset == PIC_IRQ_OFFSET1 + 7

PIC_IRQ_OFFSET2 == PIC_IRQ_OFFSET1 + 8

VARIABLES
    next,      \* how many steps of pic_remap() are done
    a1, a2,    \* the saved masks
    icw,       \* by chip: the initialisation word it waits for, 0 for none
    imr,       \* by chip: the masked lines
    irr,       \* by chip: the lines that request
    inservice, \* by chip: the lines in service
    offset,    \* by chip: the first vector
    slaves,    \* the lines of the master that ICW3 says a slave is on
    identity,  \* the line of the master that ICW3 tells the slave it is on
    vector,    \* the vector being handled, or None
    line,      \* the line that was acknowledged for it
    eois,      \* chips the handler has still to send an end of interrupt
    firmware   \* history: the masks the firmware left

vars == <<next, a1, a2, icw, imr, irr, inservice, offset, slaves, identity,
          vector, line, eois, firmware>>
chips == <<icw, imr, irr, inservice, offset, slaves, identity>>

None == -1

\* What the firmware leaves: any masks, interrupts at vectors 8 and 0x70.
Init ==
    /\ next = 0
    /\ a1 = {} /\ a2 = {}
    /\ icw = [c \in Chips |-> 0]
    /\ imr \in [Chips -> SUBSET Lines]
    /\ \A c \in Chips : imr[c] \subseteq LinesOf(c)
    /\ irr = [c \in Chips |-> {}]
    /\ inservice = [c \in Chips |-> {}]
    /\ offset = [c \in Chips |-> IF c = "master" THEN 8 ELSE 112]
    /\ slaves = {Cascade}
    /\ identity = Cascade
    /\ vector = None
    /\ line = None
    /\ eois = <<>>
    /\ firmware = imr

-------------------------------------------------------------------------------
(***************************************************************************)
(* The controllers.                                                        *)
(***************************************************************************)

\* ICW1 starts the initialisation sequence: it clears the mask and forgets
\* requests and what is in service.
CommandInit(c) ==
    /\ icw' = [icw EXCEPT ![c] = 2]
    /\ imr' = [imr EXCEPT ![c] = {}]
    /\ irr' = [irr EXCEPT ![c] = {}]
    /\ inservice' = [inservice EXCEPT ![c] = {}]
    /\ UNCHANGED <<offset, slaves, identity>>

\* The line that is served first of a set.
Highest(set) == CHOOSE n \in set : \A m \in set : n <= m

\* A non-specific end of interrupt ends the first line in service.
CommandEoi(c) ==
    /\ inservice' = [inservice EXCEPT ![c] =
                        IF @ = {} THEN {} ELSE @ \ {Highest(@)}]
    /\ UNCHANGED <<icw, imr, irr, offset, slaves, identity>>

\* ICW3 is a mask of lines for the master and the number of one for the slave.
CascadeWord(c, value) ==
    \/ c = "master" /\ slaves' = value /\ UNCHANGED identity
    \/ c = "slave" /\ identity' = value /\ UNCHANGED slaves

\* A write to the data port is the initialisation word the chip waits for,
\* and its mask when it waits for none.  Masks are sets of lines.
Data(c, value) ==
    /\ \/ /\ icw[c] = 2 /\ offset' = [offset EXCEPT ![c] = value]
          /\ UNCHANGED <<slaves, identity, imr>>
       \/ /\ icw[c] = 3 /\ CascadeWord(c, value)
          /\ UNCHANGED <<offset, imr>>
       \/ /\ icw[c] = 4
          /\ UNCHANGED <<offset, slaves, identity, imr>>
       \/ /\ icw[c] = 0 /\ imr' = [imr EXCEPT ![c] = value]
          /\ UNCHANGED <<offset, slaves, identity>>
    /\ icw' = [icw EXCEPT ![c] = IF @ \in {2, 3} THEN @ + 1 ELSE 0]
    /\ UNCHANGED <<irr, inservice>>

\* What a chip would have served now.
Serves(c, requests) ==
    {n \in requests \ imr[c] : \A m \in inservice[c] : n < m}

MasterRequests ==
    irr["master"] \cup IF Serves("slave", irr["slave"]) # {}
                       THEN {Cascade} ELSE {}

\* The slave answers for line m if the master hands the acknowledgement on
\* and the slave takes the line for its own.
SlaveAnswers(m) == m \in slaves /\ identity = m

\* The vector on the bus when the master acknowledges its line m and the
\* slave would answer with its line n: the master's own, the slave's, or
\* that of an empty bus.
FloatingBus == 255

VectorFor(m, n) ==
    IF m \notin slaves THEN offset["master"] + m
    ELSE IF SlaveAnswers(m) THEN offset["slave"] + (n - 8)
    ELSE FloatingBus

-------------------------------------------------------------------------------
(***************************************************************************)
(* The driver.                                                             *)
(***************************************************************************)

\* The writes of pic_remap() behind the reading of the masks, in order.
Command(c) == [chip |-> c, port |-> "command"]
DataPort(c, value) == [chip |-> c, port |-> "data", value |-> value]

\* Mutants: the fourth initialisation words are left out; the masks are
\* restored to the wrong chips; the slave is told the mask of its line for
\* the number.
RemapWithoutICW4 == <<
    Command("master"), Command("slave"),
    DataPort("master", PIC_IRQ_OFFSET1), DataPort("slave", PIC_IRQ_OFFSET2),
    DataPort("master", {Cascade}), DataPort("slave", Cascade),
    DataPort("master", a1), DataPort("slave", a2) >>

RemapMasksSwapped == <<
    Command("master"), Command("slave"),
    DataPort("master", PIC_IRQ_OFFSET1), DataPort("slave", PIC_IRQ_OFFSET2),
    DataPort("master", {Cascade}), DataPort("slave", Cascade),
    DataPort("master", "8086"), DataPort("slave", "8086"),
    DataPort("master", a2), DataPort("slave", a1) >>

RemapIdentityIsMask == <<
    Command("master"), Command("slave"),
    DataPort("master", PIC_IRQ_OFFSET1), DataPort("slave", PIC_IRQ_OFFSET2),
    DataPort("master", {Cascade}), DataPort("slave", 2 ^ Cascade),
    DataPort("master", "8086"), DataPort("slave", "8086"),
    DataPort("master", a1), DataPort("slave", a2) >>

RemapWrites == <<
    Command("master"), Command("slave"),
    DataPort("master", PIC_IRQ_OFFSET1), DataPort("slave", PIC_IRQ_OFFSET2),
    DataPort("master", {Cascade}), DataPort("slave", Cascade),
    DataPort("master", "8086"), DataPort("slave", "8086"),
    DataPort("master", a1), DataPort("slave", a2) >>

SaveMasks ==
    /\ next = 0
    /\ a1' = imr["master"]
    /\ a2' = imr["slave"]
    /\ next' = 1
    /\ UNCHANGED <<chips, vector, line, eois, firmware>>

pic_remap ==
    /\ next \in DOMAIN RemapWrites
    /\ LET w == RemapWrites[next]
       IN  IF w.port = "command" THEN CommandInit(w.chip)
                                 ELSE Data(w.chip, w.value)
    /\ next' = next + 1
    /\ UNCHANGED <<a1, a2, vector, line, eois, firmware>>

Remapped == next > Len(RemapWrites)

\* Mutant: line 8 is taken for one of the master's.
SendEoiAbove8(irq) ==
    IF irq > 8 THEN <<"slave", "master">> ELSE <<"master">>

\* The end of interrupt writes of pic_send_eoi(), in order.
pic_send_eoi(irq) ==
    IF irq >= 8 THEN <<"slave", "master">> ELSE <<"master">>

\* isr_handler() passes the interrupts 32 to 47 to irq_handler(), which sends
\* the ends of interrupt; others it only prints.
IrqHandler(v) ==
    IF v \in 32 .. 47 THEN pic_send_eoi(v - 32) ELSE <<>>

SendEoi ==
    /\ eois # <<>>
    /\ CommandEoi(Head(eois))
    /\ eois' = Tail(eois)
    /\ UNCHANGED <<next, a1, a2, vector, line, firmware>>

HandlerReturns ==
    /\ vector # None
    /\ eois = <<>>
    /\ vector' = None
    /\ line' = None
    /\ UNCHANGED <<next, a1, a2, chips, eois, firmware>>

-------------------------------------------------------------------------------
(***************************************************************************)
(* Devices and the processor.                                              *)
(***************************************************************************)

Raise(n) ==
    \E c \in Chips :
        /\ n \in LinesOf(c)
        /\ irr' = [irr EXCEPT ![c] = @ \cup {n}]
        /\ UNCHANGED <<next, a1, a2, icw, imr, inservice, offset, slaves,
                       identity, vector, line, eois, firmware>>

\* The processor takes v as the interrupt for line n.
Take(v, n) ==
    /\ vector' = v
    /\ line' = n
    /\ eois' = IrqHandler(v)
    /\ UNCHANGED <<next, a1, a2, icw, imr, offset, slaves, identity, firmware>>

Ready == Remapped /\ vector = None

AcceptMaster(n) ==
    /\ Ready
    /\ n = Highest(Serves("master", MasterRequests))
    /\ n # Cascade
    /\ irr' = [irr EXCEPT !["master"] = @ \ {n}]
    /\ inservice' = [inservice EXCEPT !["master"] = @ \cup {n}]
    /\ Take(VectorFor(n, 15), n)

\* The master hands the acknowledgement on to the slave, which has its line
\* in service when it answers.
AcceptSlave(n) ==
    /\ Ready
    /\ Highest(Serves("master", MasterRequests)) = Cascade
    /\ n = Highest(Serves("slave", irr["slave"]))
    /\ irr' = [irr EXCEPT !["slave"] = @ \ {n}]
    /\ inservice' = [inservice EXCEPT !["master"] = @ \cup {Cascade},
                                      !["slave"] = IF SlaveAnswers(Cascade)
                                                   THEN @ \cup {n} ELSE @]
    /\ Take(VectorFor(Cascade, n), n)

Accept ==
    /\ Serves("master", MasterRequests) # {}
    /\ \E n \in Lines : AcceptMaster(n) \/ AcceptSlave(n)

\* A line that falls before it is acknowledged: the chip answers with its
\* seventh vector and has nothing in service.
Spurious ==
    /\ Ready
    /\ irr' = irr
    /\ \/ inservice' = inservice /\ Take(VectorFor(7, 15), 7)
       \/ /\ Serves("master", {Cascade}) # {}
          /\ inservice' = [inservice EXCEPT !["master"] = @ \cup {Cascade}]
          /\ Take(VectorFor(Cascade, 15), 15)

Next ==
    \/ SaveMasks
    \/ pic_remap
    \/ SendEoi
    \/ HandlerReturns
    \/ \E n \in Lines : Raise(n)
    \/ Accept
    \/ Spurious

Spec == Init /\ [][Next]_vars

-------------------------------------------------------------------------------
(***************************************************************************)
(* Properties.                                                             *)
(***************************************************************************)

TypeOK ==
    /\ next \in 0 .. (Len(RemapWrites) + 1)
    /\ a1 \subseteq Lines /\ a2 \subseteq Lines
    /\ icw \in [Chips -> {0, 2, 3, 4}]
    /\ \A c \in Chips : /\ imr[c] \subseteq LinesOf(c)
                        /\ irr[c] \subseteq LinesOf(c)
                        /\ inservice[c] \subseteq LinesOf(c) \cup {Cascade}
    /\ offset \in [Chips -> {8, 112, PIC_IRQ_OFFSET1, PIC_IRQ_OFFSET2}]
    /\ slaves \subseteq 0 .. 7 /\ identity \in 0 .. 7
    /\ vector \in {None} \cup 0 .. 255
    /\ line \in {None} \cup 0 .. 15
    /\ eois \in Seq(Chips)

\* When irq_init() is done both chips are out of their initialisation and
\* mask what the firmware masked, although ICW1 cleared the masks
\* (irq.c:35-36, 60-61).
MasksKept ==
    Remapped => \A c \in Chips : icw[c] = 0 /\ imr[c] = firmware[c]

\* "Performs remapping of the PIC to put the irq's on interrupts 32 - 47"
\* (irq.h:4): each line arrives at its own one of them, so that irq_handler()
\* is called with its number.  For the slave's lines both chips must have been
\* told of each other, in two different ways (irq.c:47, 52).
LineNumbersArrive == vector # None => vector = 32 + line

\* No line is left in service when its handler returns, on neither chip and
\* for spurious interrupts too; a line that is blocks the ones below it for
\* good (irq.c:64-71).
NothingLeftInService ==
    Ready => \A c \in Chips : inservice[c] = {}
===============================================================================
