---------------------------------- MODULE Ata ----------------------------------
(***************************************************************************)
(* The disk driver, drivers/block/ata.c: probing the four drives and       *)
(* reading sectors with programmed I/O.                                    *)
(*                                                                         *)
(* The driver and the drives run concurrently.  The driver writes          *)
(* registers, polls the status register of the selected drive and reads    *)
(* the data register; a drive that was given a command turns busy, and     *)
(* ready with data or an error some time later.  A word stands for its two *)
(* bytes; bytes of registers and sectors have the small sizes below.       *)
(***************************************************************************)
EXTENDS Integers, Sequences

CONSTANTS
    Kinds,     \* what can be attached at a place: "none", "ata", "atapi"
    Words,     \* 256: words of a sector, and of what IDENTIFY returns
    ByteSize,  \* 256: values of an address register
    HighSize,  \* 16: values of the address bits in the drive select register
    Sectors    \* the sectors that are read

ASSUME AtaAssumption ==
    /\ Kinds \subseteq {"none", "ata", "atapi"}
    /\ Words \in Nat \ {0}
    /\ ByteSize \in Nat \ {0}
    /\ HighSize \in Nat \ {0}
    /\ Sectors \subseteq 0 .. (ByteSize * ByteSize * ByteSize * HighSize - 1)

Buses == {0, 1}           \* ATA_PRIMARY, ATA_SECONDARY
Drives == {0, 1}          \* ATA_MASTER, ATA_SLAVE
Places == Buses \X Drives

\* The order of ata_probe().
ProbeOrder == << <<0, 0>>, <<0, 1>>, <<1, 0>>, <<1, 1>> >>

VARIABLES
    kind,      \* what is attached at each place
    phase,     \* by place: what the drive does
    command,   \* by place: the command the drive works on
    left,      \* by place: the words it has still to hand out
    selected,  \* by bus: the drive that was selected last
    regs,      \* by bus: the address registers
    pc,        \* where the driver is
    place,     \* the bus and drive it works on
    buffer,    \* the bytes read so far
    available, \* by place: g_ata_info->drive[bus][drive].available
    model,     \* by place: g_ata_info->drive[bus][drive].model
    sector     \* history: the sector ata_read_sector() was called for

drives == <<kind, phase, command, left>>
driver == <<pc, place, buffer, available, model, sector>>
vars == <<drives, selected, regs, driver>>

Bus == place[1]
NoRegs == [lba0 |-> 0, lba1 |-> 0, lba2 |-> 0, high |-> 0]

\* The firmware may have left a drive with the error bit of its last command.
Init ==
    /\ kind \in [Places -> Kinds]
    /\ phase \in [Places -> {"idle", "error"}]
    /\ \A p \in Places : kind[p] = "none" => phase[p] = "idle"
    /\ command = [p \in Places |-> "none"]
    /\ left = [p \in Places |-> 0]
    /\ selected = [b \in Buses |-> 0]
    /\ regs = [b \in Buses |-> NoRegs]
    /\ pc = "select"
    /\ place = ProbeOrder[1]
    /\ buffer = <<>>
    /\ available = [p \in Places |-> 0]
    /\ model = [p \in Places |-> <<>>]
    /\ sector = 0

-------------------------------------------------------------------------------
(***************************************************************************)
(* The drives.                                                             *)
(***************************************************************************)

\* The place that answers on a bus.
Selected(b) == <<b, selected[b]>>

\* Nothing is attached: the register reads zero.  Packet devices show no
\* status bit before their first command.
IdleStatus(k) == IF k = "ata" THEN {"DRDY"} ELSE {}

Status(b) ==
    LET p == Selected(b)
    IN  CASE phase[p] \in {"idle", "accepted"} -> IdleStatus(kind[p])
          [] phase[p] = "busy" -> {"BSY"}
          [] phase[p] = "data" -> {"DRDY", "DRQ"}
          [] phase[p] \in {"error", "accepted, old error"} -> {"DRDY", "ERR"}

\* A drive shows that it is busy within 400 ns, which is less than a port
\* read takes: only the first read after a command may still see the old
\* status.
NotYetBusy == {"accepted", "accepted, old error"}

Accepted(b) ==
    phase' = [phase EXCEPT ![Selected(b)] = IF @ \in NotYetBusy THEN "busy" ELSE @]

TurnBusy(p) ==
    /\ phase[p] \in NotYetBusy
    /\ phase' = [phase EXCEPT ![p] = "busy"]
    /\ UNCHANGED <<kind, command, left, selected, regs, driver>>

\* A disk may fail a read, but has an answer to IDENTIFY; what answers it with
\* an error is a packet device.
FinishCommand(p) ==
    /\ phase[p] = "busy"
    /\ \/ /\ kind[p] = "ata"
          /\ phase' = [phase EXCEPT ![p] = "data"]
          /\ left' = [left EXCEPT ![p] = Words]
       \/ /\ kind[p] = "atapi" \/ command[p] = "READ_PIO"
          /\ phase' = [phase EXCEPT ![p] = "error"]
          /\ UNCHANGED left
    /\ UNCHANGED <<kind, command, selected, regs, driver>>

Drive == \E p \in Places : TurnBusy(p) \/ FinishCommand(p)

\* The sector that the address registers name.
Address(r) ==
    ((r.high * ByteSize + r.lba2) * ByteSize + r.lba1) * ByteSize + r.lba0

\* The n-th byte, from 1, of what a drive returns for a command.
Byte(p, cmd, at, n) == [place |-> p, command |-> cmd, at |-> at, n |-> n]

\* The drive sends the bytes of the model name in pairs, the first one in the
\* high half of a word, and sectors with the first one in the low half.
WordOf(p, i) ==
    IF command[p] = "IDENTIFY"
    THEN << Byte(p, "IDENTIFY", 0, 2 * i), Byte(p, "IDENTIFY", 0, 2 * i - 1) >>
    ELSE << Byte(p, "READ_PIO", Address(regs[p[1]]), 2 * i - 1),
            Byte(p, "READ_PIO", Address(regs[p[1]]), 2 * i) >>

\* A command written to a bus goes to the selected drive.
WriteCommand(b, cmd) ==
    LET p == Selected(b)
    IN  IF kind[p] = "none" THEN UNCHANGED <<phase, command, left>>
        ELSE /\ phase' = [phase EXCEPT ![p] =
                              IF @ = "error" THEN "accepted, old error" ELSE "accepted"]
             /\ command' = [command EXCEPT ![p] = cmd]
             /\ left' = [left EXCEPT ![p] = 0]

-------------------------------------------------------------------------------
(***************************************************************************)
(* What identifying and reading have in common.                            *)
(***************************************************************************)

\* The register that selects the drive also holds the high address bits.
ata_select_drive ==
    /\ pc = "select"
    /\ selected' = [selected EXCEPT ![Bus] = place[2]]
    /\ regs' = [regs EXCEPT ![Bus].high = 0]
    /\ pc' = "identify"
    /\ UNCHANGED <<drives, place, buffer, available, model, sector>>

\* A status read that only moves the driver.
Poll(from, to) ==
    /\ pc = from
    /\ pc' = to
    /\ Accepted(Bus)
    /\ UNCHANGED <<kind, command, left, selected, regs, place, buffer,
                   available, model, sector>>

\* A read of the data register; behind the last word the drive is idle.
ReadWord ==
    LET p == Selected(Bus)
    IN  /\ phase[p] = "data"
        /\ buffer' = buffer \o WordOf(p, Words - left[p] + 1)
        /\ left' = [left EXCEPT ![p] = @ - 1]
        /\ phase' = [phase EXCEPT ![p] = IF left[p] = 1 THEN "idle" ELSE @]
        /\ UNCHANGED <<kind, command, selected, regs, sector>>

\* Mutant: the loop ends one word early.
LastWordEarly == Len(buffer) = 2 * (Words - 2)

LastWord == Len(buffer) = 2 * (Words - 1)

-------------------------------------------------------------------------------
(***************************************************************************)
(* ata_probe() and ata_identify().                                         *)
(***************************************************************************)

\* ata_identify() returns: the next place's turn, or the end of ata_probe().
Position == CHOOSE i \in 1 .. Len(ProbeOrder) : ProbeOrder[i] = place
NextPlace ==
    IF Position < Len(ProbeOrder)
    THEN pc' = "select" /\ place' = ProbeOrder[Position + 1]
    ELSE pc' = "done" /\ UNCHANGED place

\* Mutant: the place to read to is not reset.
SendIdentifyKeepsBuffer ==
    /\ pc = "identify"
    /\ regs' = [regs EXCEPT ![Bus] = [NoRegs EXCEPT !.high = regs[Bus].high]]
    /\ WriteCommand(Bus, "IDENTIFY")
    /\ pc' = "present"
    /\ UNCHANGED <<kind, selected, place, buffer, available, model, sector>>

SendIdentify ==
    /\ pc = "identify"
    /\ regs' = [regs EXCEPT ![Bus] = [NoRegs EXCEPT !.high = regs[Bus].high]]
    /\ WriteCommand(Bus, "IDENTIFY")
    /\ pc' = "present"
    /\ buffer' = <<>>
    /\ UNCHANGED <<kind, selected, place, available, model, sector>>

\* No status at all: there is no drive.
NotPresent ==
    /\ pc = "present"
    /\ Status(Bus) = {}
    /\ NextPlace
    /\ Accepted(Bus)
    /\ UNCHANGED <<kind, command, left, selected, regs, buffer, available,
                   model, sector>>

Present == Status(Bus) # {} /\ Poll("present", "id busy")

ata_poll_status_busy ==
    Poll("id busy", IF "BSY" \in Status(Bus) THEN "id busy" ELSE "id wait")

\* Mutant: the error bit does not end the loop.
IdentifyPollsOn ==
    /\ pc = "id wait"
    /\ "ERR" \in Status(Bus)
    /\ UNCHANGED vars

IdentifyFailed ==
    /\ pc = "id wait"
    /\ "ERR" \in Status(Bus)
    /\ NextPlace
    /\ UNCHANGED <<drives, selected, regs, buffer, available, model, sector>>

IdentifyWait ==
    /\ "ERR" \notin Status(Bus)
    /\ Poll("id wait", IF "DRQ" \in Status(Bus) THEN "id read" ELSE "id wait")

\* `available` is set before the first word is read.
IdentifyOnline ==
    /\ pc = "id read"
    /\ available[place] = 0
    /\ available' = [available EXCEPT ![place] = 1]
    /\ UNCHANGED <<drives, selected, regs, pc, place, buffer, model, sector>>

\* Mutant: the bytes are copied as they come.
NotSwapped(s) == s

\* The bytes of each word changed places.
Swapped(s) ==
    [i \in DOMAIN s |-> IF i % 2 = 1 THEN s[i + 1] ELSE s[i - 1]]

IdentifyRead ==
    /\ pc = "id read"
    /\ available[place] = 1
    /\ ~LastWord
    /\ ReadWord
    /\ UNCHANGED <<pc, place, available, model>>

IdentifyEnd ==
    /\ pc = "id read"
    /\ available[place] = 1
    /\ LastWord
    /\ ReadWord
    /\ model' = [model EXCEPT ![place] = Swapped(buffer')]
    /\ NextPlace
    /\ UNCHANGED available

-------------------------------------------------------------------------------
(***************************************************************************)
(* ata_read_sector().                                                      *)
(***************************************************************************)

\* Mutant: the second register gets the bits of the third.
AddressRegsShifted(lba) ==
    [lba0 |-> lba % ByteSize,
     lba1 |-> (lba \div (ByteSize * ByteSize)) % ByteSize,
     lba2 |-> (lba \div (ByteSize * ByteSize)) % ByteSize,
     high |-> (lba \div (ByteSize * ByteSize * ByteSize)) % HighSize]

\* The registers that hold an address; the shifts and casts cut it to them.
AddressRegs(lba) ==
    [lba0 |-> lba % ByteSize,
     lba1 |-> (lba \div ByteSize) % ByteSize,
     lba2 |-> (lba \div (ByteSize * ByteSize)) % ByteSize,
     high |-> (lba \div (ByteSize * ByteSize * ByteSize)) % HighSize]

\* A caller reads a sector of a drive that ata_init() found.
ata_read_sector(p, lba) ==
    /\ pc = "done"
    /\ available[p] = 1
    /\ place' = p
    /\ selected' = [selected EXCEPT ![p[1]] = p[2]]
    /\ regs' = [regs EXCEPT ![p[1]] = [@ EXCEPT !.high = AddressRegs(lba).high]]
    /\ buffer' = <<>>
    /\ sector' = lba
    /\ pc' = "read command"
    /\ UNCHANGED <<drives, available, model>>

SendRead ==
    /\ pc = "read command"
    /\ regs' = [regs EXCEPT ![Bus] = [AddressRegs(sector) EXCEPT
                                         !.high = regs[Bus].high]]
    /\ WriteCommand(Bus, "READ_PIO")
    /\ pc' = "read delay"
    /\ UNCHANGED <<kind, selected, place, buffer, available, model, sector>>

\* The four reads of ata_poll_status() that only pass time, and its loops.
ReadDelay == Poll("read delay", "read busy")

ReadBusy ==
    Poll("read busy", IF "BSY" \in Status(Bus) THEN "read busy" ELSE "read wait")

ReadFailed == "ERR" \in Status(Bus) /\ Poll("read wait", "panic")

ReadWait ==
    /\ "ERR" \notin Status(Bus)
    /\ Poll("read wait", IF "DRQ" \in Status(Bus) THEN "read" ELSE "read wait")

ReadData ==
    /\ pc = "read"
    /\ ReadWord
    /\ pc' = IF LastWord THEN "read end" ELSE "read"
    /\ UNCHANGED <<place, available, model>>

ReadEnd == Poll("read end", "done")

-------------------------------------------------------------------------------
Driver ==
    \/ ata_select_drive
    \/ SendIdentify
    \/ NotPresent
    \/ Present
    \/ ata_poll_status_busy
    \/ IdentifyFailed
    \/ IdentifyWait
    \/ IdentifyOnline
    \/ IdentifyRead
    \/ IdentifyEnd
    \/ SendRead
    \/ ReadDelay
    \/ ReadBusy
    \/ ReadFailed
    \/ ReadWait
    \/ ReadData
    \/ ReadEnd

Caller == \E p \in Places, lba \in Sectors : ata_read_sector(p, lba)

Next == Driver \/ Caller \/ Drive

\* The processor executes the driver, and every drive finishes the command it
\* was given; nothing obliges anyone to read a sector.
Fairness == WF_vars(Driver) /\ \A p \in Places : WF_vars(FinishCommand(p))

Spec == Init /\ [][Next]_vars /\ Fairness

-------------------------------------------------------------------------------
(***************************************************************************)
(* Properties.                                                             *)
(***************************************************************************)

TypeOK ==
    /\ kind \in [Places -> Kinds]
    /\ phase \in [Places -> {"idle", "busy", "data", "error"} \cup NotYetBusy]
    /\ left \in [Places -> 0 .. Words]
    /\ selected \in [Buses -> Drives]
    /\ place \in Places
    /\ Len(buffer) <= 2 * Words
    /\ available \in [Places -> {0, 1}]
    /\ sector \in Sectors \cup {0}

\* What the drive returns for a command, in the order of the text.
Answer(p, cmd, at) == [n \in 1 .. (2 * Words) |-> Byte(p, cmd, at, n)]

Probed == pc \notin {"select", "identify", "present", "id busy", "id wait",
                     "id read"}

\* When ata_probe() is done exactly the disks are available, each one under
\* its own bus and number and with its own name, whatever stale status the
\* driver saw and however long the drives took (ata.c:150-219).
DisksIdentified ==
    Probed => \A p \in Places :
        /\ available[p] = 1 <=> kind[p] = "ata"
        /\ kind[p] = "ata" => model[p] = Answer(p, "IDENTIFY", 0)

\* A read that returns has put the sector that was asked for, of the drive
\* that was asked for, into the caller's buffer, in order (ata.c:283-313).
SectorRead == pc = "read end" => buffer = Answer(place, "READ_PIO", sector)

\* Between two operations no disk is left with data to hand out or a command
\* running, which the next command would cut off.  A packet device may be: the
\* probe abandons it once it has seen what it is (ata.c:175-181).
DrivesQuiet ==
    pc \in {"done", "select"} => \A p \in Places :
        phase[p] \in {"idle", "error"} \/ kind[p] = "atapi"

\* The probe ends, whatever is attached, and so does every read, with the
\* data or with a panic (ata.c:143-148, 172-183, 242-264).
OperationsEnd == []<>(pc \in {"done", "panic"})
===============================================================================
