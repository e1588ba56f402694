----------------------------- MODULE KernelProofs -----------------------------
(***************************************************************************)
(* Interrupts and the start of the kernel.  The kprintf() mutex keeps      *)
(* lines whole and a handler reads its own vector, for every set of        *)
(* exceptions and every depth of nesting; the steps of kernel_main() are   *)
(* steps of Interrupts, whose theorems hold of it; and, for every number   *)
(* of gates and every placement of the stubs, the descriptor tables are    *)
(* right whenever the processor uses them.                                 *)
(***************************************************************************)
EXTENDS Kernel, TLAPS, SequenceTheorems

-------------------------------------------------------------------------------
(***************************************************************************)
(* Interrupts: theorems of its own specification, Spec.                    *)
(***************************************************************************)

Pcs == {"working", "handler", "lock", "take", "leave", "iret"} \cup Printing

\* A sequence of the contexts' places, as a function on its domain.
PcsType == /\ pcs \in Seq(Pcs)
           /\ Len(pcs) \in Nat \ {0}

\* While the lock is free nobody prints, and the screen ends in whole lines.
NobodyPrints == \A k \in 1 .. Len(pcs) : pcs[k] \notin Printing
FreeMeansIdle == locked = 0 => NobodyPrints /\ open = None

\* While it is taken exactly one context prints.  The handlers that run on
\* top of it wait for the lock, if they have come that far.
OnlyPrinter(k) == /\ pcs[k] \in Printing
                  /\ \A j \in 1 .. (k - 1) : pcs[j] \notin Printing
WaitAbove(k) == \A j \in (k + 1) .. Len(pcs) : pcs[j] \in {"handler", "lock"}
LineOf(k, pc) == IF pc = "second half" THEN k - 1 ELSE None
OpenBy(k) == open = LineOf(k, pcs[k])

TakenMeansPrinting ==
    locked = 1 => \E k \in 1 .. Len(pcs) :
                      OnlyPrinter(k) /\ WaitAbove(k) /\ OpenBy(k)

LockInv ==
    /\ PcsType
    /\ locked \in {0, 1}
    /\ FreeMeansIdle
    /\ TakenMeansPrinting

LEMMA InitLockInv == Init => LockInv
<1> SUFFICES ASSUME Init PROVE LockInv
  OBVIOUS
<1>1. PcsType
  <2>1. "working" \in Pcs
    BY DEF Pcs
  <2>2. pcs = << "working" >>
    BY DEF Init
  <2> QED
    BY <2>1, <2>2 DEF PcsType
<1>2. NobodyPrints
  <2>1. pcs = << "working" >> /\ "working" \notin Printing
    BY DEF Init, Printing
  <2> QED
    BY <2>1 DEF NobodyPrints
<1> QED
  BY <1>1, <1>2 DEF Init, LockInv, FreeMeansIdle, TakenMeansPrinting

\* The running context moves on, and the other ones stay where they are.
LEMMA GoToMoves ==
    ASSUME PcsType, NEW pc \in Pcs, GoTo(pc)
    PROVE  /\ PcsType'
           /\ Len(pcs') = Len(pcs)
           /\ pcs'[Len(pcs)] = pc
           /\ \A k \in 1 .. (Len(pcs) - 1) : pcs'[k] = pcs[k]
BY DEF PcsType, GoTo

\* An interrupt puts a handler on top of the contexts.
LEMMA EnterAdds ==
    ASSUME PcsType, NEW v, Enter(v)
    PROVE  /\ PcsType'
           /\ Len(pcs') = Len(pcs) + 1
           /\ pcs'[Len(pcs) + 1] = "handler"
           /\ \A k \in 1 .. Len(pcs) : pcs'[k] = pcs[k]
           /\ locked' = locked /\ open' = open
BY DEF PcsType, Enter, Pcs

\* A running context that prints holds the lock, and one that is somewhere
\* else, and has not just entered or waits, knows the lock to be free.
LEMMA RunningPrints ==
    ASSUME LockInv, Pc \in Printing
    PROVE  /\ locked = 1
           /\ \A j \in 1 .. (Len(pcs) - 1) : pcs[j] \notin Printing
           /\ open = LineOf(Len(pcs), Pc)
<1>1. Len(pcs) \in Nat /\ Len(pcs) \in 1 .. Len(pcs)
  BY DEF LockInv, PcsType
<1>2. locked = 1
  BY <1>1 DEF LockInv, FreeMeansIdle, NobodyPrints, Pc
<1>3. PICK k \in 1 .. Len(pcs) : OnlyPrinter(k) /\ WaitAbove(k) /\ OpenBy(k)
  BY <1>2 DEF LockInv, TakenMeansPrinting
<1>4. k < Len(pcs) => Pc \in {"handler", "lock"}
  BY <1>1, <1>3 DEF Pc, WaitAbove
<1>5. Pc \notin {"handler", "lock"}
  BY DEF Printing
<1>6. k = Len(pcs)
  BY <1>1, <1>4, <1>5
<1> QED
  BY <1>2, <1>3, <1>6 DEF Pc, OnlyPrinter, OpenBy

LEMMA RunningElsewhere ==
    ASSUME LockInv, Pc \notin Printing, Pc \notin {"handler", "lock"}
    PROVE  locked = 0
<1>1. Len(pcs) \in Nat /\ Len(pcs) \in 1 .. Len(pcs)
  BY DEF LockInv, PcsType
<1> SUFFICES ASSUME locked = 1 PROVE FALSE
  BY DEF LockInv
<1>2. PICK k \in 1 .. Len(pcs) : OnlyPrinter(k) /\ WaitAbove(k) /\ OpenBy(k)
  BY DEF LockInv, TakenMeansPrinting
<1>3. CASE k = Len(pcs)
  BY <1>2, <1>3 DEF Pc, OnlyPrinter
<1>4. CASE k < Len(pcs)
  BY <1>1, <1>2, <1>4 DEF Pc, WaitAbove
<1> QED
  BY <1>1, <1>3, <1>4

\* When every context up to a place keeps its own, and those that are new
\* behind it have no more than entered or wait, the printer stays the one.
LEMMA PrinterStays ==
    ASSUME LockInv, Len(pcs') \in Nat, UNCHANGED <<locked, open>>,
           locked = 1,
           NEW n \in 0 .. Len(pcs), n <= Len(pcs'),
           \A k \in 1 .. n : pcs'[k] = pcs[k],
           \A k \in (n + 1) .. Len(pcs') : pcs'[k] \in {"handler", "lock"},
           \A k \in (n + 1) .. Len(pcs) : pcs[k] \notin Printing
    PROVE  TakenMeansPrinting'
<1>1. Len(pcs) \in Nat
  BY DEF LockInv, PcsType
<1>2. PICK k \in 1 .. Len(pcs) : OnlyPrinter(k) /\ WaitAbove(k) /\ OpenBy(k)
  BY DEF LockInv, TakenMeansPrinting
<1>3. k \in 1 .. n /\ k \in 1 .. Len(pcs')
  BY <1>1, <1>2 DEF OnlyPrinter
<1>4. OnlyPrinter(k)'
  BY <1>1, <1>2, <1>3 DEF OnlyPrinter
<1>5. WaitAbove(k)'
  BY <1>1, <1>2, <1>3 DEF WaitAbove
<1>6. OpenBy(k)'
  BY <1>2, <1>3 DEF OpenBy
<1> QED
  BY <1>3, <1>4, <1>5, <1>6 DEF TakenMeansPrinting

\* A context that moves between two places outside the printing, and has not
\* come past the loop of mutex_lock() unless the lock is free.
LEMMA MoveOutside ==
    ASSUME LockInv, NEW pc \in Pcs \ Printing, GoTo(pc),
           Pc \notin Printing, UNCHANGED <<locked, open>>,
           pc \in {"handler", "lock"} \/ locked = 0
    PROVE  LockInv'
<1>1. /\ PcsType' /\ Len(pcs') = Len(pcs) /\ pcs'[Len(pcs)] = pc
      /\ \A k \in 1 .. (Len(pcs) - 1) : pcs'[k] = pcs[k]
  BY GoToMoves DEF LockInv
<1>2. Len(pcs) \in Nat /\ Len(pcs) >= 1
  BY DEF LockInv, PcsType
<1>3. NobodyPrints => NobodyPrints'
  BY <1>1, <1>2 DEF NobodyPrints
<1>4. ASSUME locked = 1 PROVE TakenMeansPrinting'
  <2> DEFINE n == Len(pcs) - 1
  <2>1. n \in 0 .. Len(pcs) /\ n <= Len(pcs') /\ Len(pcs') \in Nat
    BY <1>1, <1>2
  <2>2. \A k \in (n + 1) .. Len(pcs') : pcs'[k] \in {"handler", "lock"}
    BY <1>1, <1>2, <1>4
  <2>3. \A k \in (n + 1) .. Len(pcs) : pcs[k] \notin Printing
    BY <1>2 DEF Pc
  <2>4. \A k \in 1 .. n : pcs'[k] = pcs[k]
    BY <1>1
  <2> HIDE DEF n
  <2> QED
    BY <1>4, <2>1, <2>2, <2>3, <2>4, PrinterStays
<1>5. TakenMeansPrinting'
  BY <1>4 DEF TakenMeansPrinting
<1> QED
  BY <1>1, <1>3, <1>5 DEF LockInv, FreeMeansIdle

LEMMA EnterKeeps ==
    ASSUME LockInv, NEW v, Enter(v)
    PROVE  LockInv'
<1>1. /\ PcsType' /\ Len(pcs') = Len(pcs) + 1
      /\ pcs'[Len(pcs) + 1] = "handler"
      /\ \A k \in 1 .. Len(pcs) : pcs'[k] = pcs[k]
  BY EnterAdds DEF LockInv
<1>2. locked' = locked /\ open' = open
  BY DEF Enter
<1>3. Len(pcs) \in Nat /\ Len(pcs) >= 1
  BY DEF LockInv, PcsType
<1>4. NobodyPrints => NobodyPrints'
  <2> SUFFICES ASSUME NobodyPrints, NEW k \in 1 .. Len(pcs')
               PROVE  pcs'[k] \notin Printing
    BY DEF NobodyPrints
  <2>1. CASE k \in 1 .. Len(pcs)
    BY <1>1, <2>1 DEF NobodyPrints
  <2>2. CASE k = Len(pcs) + 1
    BY <1>1, <2>2 DEF Printing
  <2> QED
    BY <1>1, <1>3, <2>1, <2>2
<1>5. ASSUME locked = 1 PROVE TakenMeansPrinting'
  <2> DEFINE n == Len(pcs)
  <2>1. n \in 0 .. Len(pcs) /\ n <= Len(pcs') /\ Len(pcs') \in Nat
    BY <1>1, <1>3
  <2>2. \A k \in (n + 1) .. Len(pcs') : pcs'[k] \in {"handler", "lock"}
    BY <1>1, <1>3
  <2>3. \A k \in (n + 1) .. Len(pcs) : pcs[k] \notin Printing
    BY <1>3
  <2>4. \A k \in 1 .. n : pcs'[k] = pcs[k]
    BY <1>1
  <2> HIDE DEF n
  <2> QED
    BY <1>2, <1>5, <2>1, <2>2, <2>3, <2>4, PrinterStays
<1>6. TakenMeansPrinting'
  BY <1>2, <1>5 DEF TakenMeansPrinting
<1> QED
  BY <1>1, <1>2, <1>4, <1>6 DEF LockInv, FreeMeansIdle

\* The running context moves to a place in the printing, with the open line
\* that belongs there and nobody else printing.
LEMMA MoveInside ==
    ASSUME LockInv, NEW pc \in Printing, GoTo(pc), locked' = 1,
           open' = LineOf(Len(pcs), pc),
           \A j \in 1 .. (Len(pcs) - 1) : pcs[j] \notin Printing
    PROVE  LockInv'
<1>1. /\ PcsType' /\ Len(pcs') = Len(pcs) /\ pcs'[Len(pcs)] = pc
      /\ \A k \in 1 .. (Len(pcs) - 1) : pcs'[k] = pcs[k]
  BY GoToMoves DEF LockInv, Pcs
<1>2. Len(pcs) \in Nat /\ Len(pcs) >= 1
  BY DEF LockInv, PcsType
<1>3. OnlyPrinter(Len(pcs))'
  BY <1>1, <1>2 DEF OnlyPrinter
<1>4. WaitAbove(Len(pcs))'
  BY <1>1, <1>2 DEF WaitAbove
<1>5. OpenBy(Len(pcs))'
  BY <1>1 DEF OpenBy
<1>6. Len(pcs') \in 1 .. Len(pcs')
  BY <1>1, <1>2
<1>7. TakenMeansPrinting'
  BY <1>1, <1>3, <1>4, <1>5, <1>6 DEF TakenMeansPrinting
<1> QED
  BY <1>1, <1>7 DEF LockInv, FreeMeansIdle

LEMMA StepLockInv ==
    ASSUME LockInv, [Next]_vars
    PROVE  LockInv'
<1>1. ASSUME NEW v \in Vectors, Interrupt(v) PROVE LockInv'
  BY <1>1, EnterKeeps DEF Interrupt
<1>2. CASE CallKprintf
  BY <1>2, MoveOutside DEF CallKprintf, Printing, Pcs
<1>3. CASE SeeUnlocked
  BY <1>3, MoveOutside DEF SeeUnlocked, Printing, Pcs
<1>4. CASE mutex_lock
  <2>1. locked = 0
    BY <1>4, RunningElsewhere DEF mutex_lock, Printing
  <2>2. open = None /\ NobodyPrints
    BY <2>1 DEF LockInv, FreeMeansIdle
  <2>3. \A j \in 1 .. (Len(pcs) - 1) : pcs[j] \notin Printing
    BY <2>2 DEF NobodyPrints, LockInv, PcsType
  <2>4. open' = LineOf(Len(pcs), "first half")
    BY <1>4, <2>2 DEF mutex_lock, LineOf
  <2> QED
    BY <1>4, <2>3, <2>4, MoveInside DEF mutex_lock, Printing
<1>5. CASE PrintHalf
  <2>1. Pc \in Printing
    BY <1>5 DEF PrintHalf, Printing
  <2>2. PICK pc \in {"second half", "unlock"} :
          GoTo(pc) /\ open' = LineOf(Len(pcs), pc)
    BY <1>5 DEF PrintHalf, LineOf, Running
  <2>3. locked' = 1 /\ \A j \in 1 .. (Len(pcs) - 1) : pcs[j] \notin Printing
    BY <1>5, <2>1, RunningPrints DEF PrintHalf
  <2> QED
    BY <2>2, <2>3, MoveInside DEF Printing
<1>6. CASE mutex_unlock
  <2>1. PICK pc \in {"working", "leave"} : GoTo(pc)
    BY <1>6 DEF mutex_unlock
  <2>2. /\ PcsType' /\ Len(pcs') = Len(pcs) /\ pcs'[Len(pcs)] = pc
        /\ \A k \in 1 .. (Len(pcs) - 1) : pcs'[k] = pcs[k]
    BY <2>1, GoToMoves DEF LockInv, Pcs
  <2>3. \A j \in 1 .. (Len(pcs) - 1) : pcs[j] \notin Printing
    BY <1>6, RunningPrints DEF mutex_unlock, Printing
  <2>4. open' = None
    BY <1>6, RunningPrints DEF mutex_unlock, Printing, LineOf
  <2>5. Len(pcs) \in Nat
    BY DEF LockInv, PcsType
  <2>6. pc \notin Printing
    BY DEF Printing
  <2>7. NobodyPrints'
    BY <2>2, <2>3, <2>5, <2>6 DEF NobodyPrints
  <2> QED
    BY <1>6, <2>2, <2>4, <2>7 DEF mutex_unlock, LockInv, FreeMeansIdle,
                                  TakenMeansPrinting
<1>7. CASE LeaveHandler
  <2>1. locked = 0
    BY <1>7, RunningElsewhere DEF LeaveHandler, Printing
  <2> QED
    BY <1>7, <2>1, MoveOutside DEF LeaveHandler, Printing, Pcs
<1>8. CASE Return
  <2>1. locked = 0
    BY <1>8, RunningElsewhere DEF Return, Printing
  <2>2. PICK c \in 0 .. (Running - 1) : pcs' = SubSeq(pcs, 1, c + 1)
    BY <1>8 DEF Return
  <2>3. c + 1 \in 1 .. Len(pcs) /\ c + 1 \in Nat
    BY <2>2 DEF Running, LockInv, PcsType
  <2>4. PcsType' /\ Len(pcs') = c + 1 /\ \A k \in 1 .. (c + 1) : pcs'[k] = pcs[k]
    BY <2>2, <2>3 DEF LockInv, PcsType
  <2>5. open = None /\ NobodyPrints
    BY <2>1 DEF LockInv, FreeMeansIdle
  <2>6. Len(pcs) \in Nat
    BY DEF LockInv, PcsType
  <2>7. NobodyPrints'
    BY <2>3, <2>4, <2>5, <2>6 DEF NobodyPrints
  <2> QED
    BY <1>8, <2>1, <2>4, <2>5, <2>7 DEF Return, LockInv, FreeMeansIdle,
                                        TakenMeansPrinting
<1>9. CASE IretFault
  BY <1>9, EnterKeeps DEF IretFault
<1>10. CASE UNCHANGED vars
  BY <1>10 DEF vars, LockInv, PcsType, FreeMeansIdle, TakenMeansPrinting,
               NobodyPrints, OnlyPrinter, WaitAbove, OpenBy
<1> QED
  BY <1>1, <1>2, <1>3, <1>4, <1>5, <1>6, <1>7, <1>8, <1>9, <1>10 DEF Next

\* With any exceptions at any depth, no line is printed into another one:
\* the mutex holds although taking it is not atomic, because a handler either
\* finishes before the context below it goes on or never takes the lock
\* (mutex.c:3-16, display.c:46-140).
THEOREM LinesStayWhole == Spec => []LinesNotMixed
<1>1. LockInv => LinesNotMixed
  <2> SUFFICES ASSUME LockInv, Pc \in {"first half", "second half"}
               PROVE  LinesNotMixed
    BY DEF LinesNotMixed
  <2>1. open = LineOf(Len(pcs), Pc)
    BY RunningPrints DEF Printing
  <2> QED
    BY <2>1 DEF LinesNotMixed, LineOf, Running
<1>2. LockInv /\ [Next]_vars => LockInv'
  BY StepLockInv
<1> QED
  BY <1>1, <1>2, InitLockInv, PTL DEF Spec

-------------------------------------------------------------------------------
(***************************************************************************)
(* What the handlers' words on the stack are worth, for every set of       *)
(* exceptions and every depth of nesting: a handler reads its own vector,  *)
(* although the frames of handlers that never return pile up below it.     *)
(***************************************************************************)

-------------------------------------------------------------------------------
(***************************************************************************)
(* What an interrupt puts on the stack.                                    *)
(***************************************************************************)

\* The words that nobody can take for the start of a frame.
Plain == {w \in Words : w.what # "eflags"}

LEMMA WordsOfContext ==
    ASSUME NEW c \in 0 .. MaxInterrupts
    PROVE  /\ Word("eflags", c) \in Words
           /\ Word("eflags", c).what = "eflags" /\ Word("eflags", c).of = c
           /\ Word("cs", c) \in Plain /\ Word("eip", c) \in Plain
           /\ Word("error", c) \in Plain /\ Word("general", c) \in Plain
           /\ Word("ds", c) \in Plain
BY DEF Plain, Words, Word

LEMMA WordsOfStub ==
    ASSUME NEW v \in Gates
    PROVE  Word("dummy", 0) \in Plain /\ Word("vector", v) \in Plain
BY InterruptsAssumption DEF Plain, Words, Word

LEMMA PlainWords ==
    ASSUME NEW s \in Seq(Plain)
    PROVE  s \in Seq(Words) /\ \A k \in 1 .. Len(s) : s[k].what # "eflags"
<1>1. \A k \in 1 .. Len(s) : s[k] \in Plain
  BY ElementOfSeq
<1>2. s \in Seq(Words)
  BY DEF Plain
<1> QED
  BY <1>1, <1>2 DEF Plain

\* What a sequence put together of two holds.
LEMMA Joined ==
    ASSUME NEW S, NEW s \in Seq(S), NEW t \in Seq(S), NEW st, st = s \o t
    PROVE  /\ st \in Seq(S)
           /\ Len(s) \in Nat /\ Len(t) \in Nat /\ Len(st) = Len(s) + Len(t)
           /\ \A k \in 1 .. Len(s) : st[k] = s[k]
           /\ \A k \in (Len(s) + 1) .. Len(st) :
                 k - Len(s) \in 1 .. Len(t) /\ st[k] = t[k - Len(s)]
OBVIOUS

LEMMA FramePushed ==
    ASSUME NEW c \in 0 .. MaxInterrupts, NEW v
    PROVE  /\ CpuFrame(c, v) \in Seq(Words) /\ Len(CpuFrame(c, v)) \in Nat \ {0}
           /\ CpuFrame(c, v)[1] = Word("eflags", c)
           /\ \A k \in 2 .. Len(CpuFrame(c, v)) : CpuFrame(c, v)[k].what # "eflags"
<1> DEFINE f == Word("eflags", c)
           g == Word("cs", c)
           h == Word("eip", c)
           e == Word("error", c)
           first == << f, g, h >>
           rest == IF v \in ErrorCodeVectors THEN << e >> ELSE <<>>
<1>1. f \in Words /\ g \in Plain /\ h \in Plain /\ e \in Plain
  BY WordsOfContext
<1>2. CpuFrame(c, v) = first \o rest
  BY DEF CpuFrame
<1> HIDE DEF f, g, h, e
<1>3. /\ first \in Seq(Words) /\ Len(first) = 3
      /\ first[1] = f /\ first[2] = g /\ first[3] = h
  BY <1>1 DEF Plain
<1>4. rest \in Seq(Plain)
  <2>1. << e >> \in Seq(Plain) /\ <<>> \in Seq(Plain)
    BY <1>1
  <2> QED
    BY <2>1, Zenon
<1> HIDE DEF first, rest
<1>5. rest \in Seq(Words) /\ \A k \in 1 .. Len(rest) : rest[k].what # "eflags"
  BY <1>4, PlainWords
<1>6. Len(rest) \in Nat
  BY <1>5, LenProperties
<1> DEFINE frame == first \o rest
<1>10. frame = first \o rest
  OBVIOUS
<1> HIDE DEF frame
<1>11. first \in Seq(Words)
  BY <1>3
<1>12. /\ frame \in Seq(Words) /\ Len(frame) = Len(first) + Len(rest)
       /\ \A k \in 1 .. Len(first) : frame[k] = first[k]
       /\ \A k \in (Len(first) + 1) .. Len(frame) :
             k - Len(first) \in 1 .. Len(rest) /\ frame[k] = rest[k - Len(first)]
  BY <1>5, <1>10, <1>11, Joined
<1>7. /\ Len(frame) = 3 + Len(rest)
      /\ \A k \in 1 .. 3 + Len(rest) :
            frame[k] = IF k <= 3 THEN first[k] ELSE rest[k - 3]
  BY <1>3, <1>6, <1>12
<1>8. frame[1] = f /\ Len(frame) \in Nat \ {0}
  BY <1>3, <1>6, <1>7
<1>9. ASSUME NEW k \in 2 .. Len(frame) PROVE frame[k].what # "eflags"
  <2>1. CASE k \in {2, 3}
    <3>1. frame[k] \in {g, h}
      BY <1>3, <1>6, <1>7, <2>1
    <3> QED
      BY <1>1, <3>1 DEF Plain
  <2>2. CASE k > 3
    <3>1. k - 3 \in 1 .. Len(rest) /\ frame[k] = rest[k - 3]
      BY <1>6, <1>7, <2>2
    <3> QED
      BY <1>5, <3>1
  <2> QED
    BY <1>6, <1>7, <2>1, <2>2
<1> QED
  BY <1>2, <1>12, <1>8, <1>9 DEF frame, f

LEMMA StubPushesVector ==
    ASSUME NEW v \in Gates
    PROVE  /\ IsrStub(v) \in Seq(Plain) /\ Len(IsrStub(v)) \in Nat \ {0}
           /\ IsrStub(v)[Len(IsrStub(v))] = Word("vector", v)
<1> DEFINE d == Word("dummy", 0)
           w == Word("vector", v)
           first == IF v \in ErrcodeStubs THEN << d >> ELSE <<>>
           last == << w >>
<1>1. d \in Plain /\ w \in Plain
  BY WordsOfStub
<1>2. IsrStub(v) = first \o last
  BY DEF IsrStub
<1> HIDE DEF d, w
<1>3. first \in Seq(Plain)
  <2>1. << d >> \in Seq(Plain) /\ <<>> \in Seq(Plain)
    BY <1>1
  <2> QED
    BY <2>1, Zenon
<1>4. last \in Seq(Plain) /\ Len(last) = 1 /\ last[1] = w
  BY <1>1
<1> HIDE DEF first, last
<1>5. Len(first) \in Nat
  BY <1>3, LenProperties
<1> DEFINE stub == first \o last
<1>10. stub = first \o last
  OBVIOUS
<1> HIDE DEF stub
<1>11. last \in Seq(Plain)
  BY <1>4
<1>6. /\ stub \in Seq(Plain) /\ Len(stub) = Len(first) + Len(last)
      /\ \A k \in (Len(first) + 1) .. Len(stub) :
            k - Len(first) \in 1 .. Len(last) /\ stub[k] = last[k - Len(first)]
  BY <1>3, <1>10, <1>11, Joined
<1>7. stub[Len(first) + 1] = w
  BY <1>4, <1>5, <1>6
<1>8. Len(stub) = Len(first) + 1 /\ Len(stub) \in Nat \ {0} /\ stub[Len(stub)] = w
  BY <1>4, <1>5, <1>6, <1>7
<1>9. IsrStub(v) = stub
  BY <1>2 DEF stub
<1> QED
  BY <1>6, <1>8, <1>9, Zenon DEF w

LEMMA StubSavesNine ==
    ASSUME NEW c \in 0 .. MaxInterrupts
    PROVE  SavedByCommonStub(c) \in Seq(Plain) /\ Len(SavedByCommonStub(c)) = 9
<1> DEFINE g == Word("general", c)
           d == Word("ds", c)
           first == [i \in 1 .. 8 |-> g]
           last == << d >>
<1>1. g \in Plain /\ d \in Plain
  BY WordsOfContext
<1>2. SavedByCommonStub(c) = first \o last
  BY DEF SavedByCommonStub
<1> HIDE DEF g, d
<1>3. first \in Seq(Plain) /\ Len(first) = 8
  BY <1>1
<1>4. last \in Seq(Plain) /\ Len(last) = 1
  BY <1>1
<1> HIDE DEF first, last
<1>5. first \in Seq(Plain) /\ last \in Seq(Plain)
  BY <1>3, <1>4
<1> DEFINE saved == first \o last
<1>6. saved = first \o last
  OBVIOUS
<1> HIDE DEF saved
<1>7. saved \in Seq(Plain) /\ Len(saved) = Len(first) + Len(last)
  BY <1>5, <1>6, Joined
<1>8. saved \in Seq(Plain) /\ Len(saved) = 9
  BY <1>3, <1>4, <1>7
<1> QED
  BY <1>2, <1>8 DEF saved

-------------------------------------------------------------------------------
(***************************************************************************)
(* The types, and what an interrupt changes.                               *)
(***************************************************************************)

Places == {"working", "handler", "lock", "take", "leave", "iret"} \cup Printing

TypeInv == TypeOK /\ Len(raised) <= MaxInterrupts

LEMMA RunningIsLast ==
    ASSUME TypeInv
    PROVE  /\ Running \in 0 .. MaxInterrupts /\ Running = Len(raised)
           /\ Len(pcs) = Running + 1 /\ Len(pcs) \in Nat \ {0}
           /\ Len(stack) \in Nat
           /\ stack \in Seq(Words) /\ pcs \in Seq(Places) /\ raised \in Seq(Gates)
<1>1. /\ stack \in Seq(Words) /\ pcs \in Seq(Places) /\ raised \in Seq(Gates)
      /\ Len(pcs) = Len(raised) + 1 /\ Len(raised) <= MaxInterrupts
  BY DEF TypeInv, TypeOK, Places
<1>2. Len(raised) \in Nat /\ Len(stack) \in Nat
  BY <1>1, LenProperties
<1> QED
  BY <1>1, <1>2, InterruptsAssumption DEF Running

\* An interrupt keeps the words below those it pushes.
LEMMA EnterPushes ==
    ASSUME TypeInv, NEW v, Enter(v)
    PROVE  /\ stack' \in Seq(Words) /\ Len(stack') \in Nat
           /\ Len(stack') > Len(stack) + 10
           /\ \A k \in 1 .. Len(stack) : stack'[k] = stack[k]
           /\ stack'[Len(stack) + 1] = Word("eflags", Running)
           /\ \A k \in (Len(stack) + 2) .. Len(stack') : stack'[k].what # "eflags"
           /\ stack'[Len(stack') - 9] = Word("vector", v)
<1> DEFINE frame == CpuFrame(Running, v)
           stub == IsrStub(v)
           saved == SavedByCommonStub(Running)
           one == stack \o frame
           two == one \o stub
<1>1. /\ frame \in Seq(Words) /\ Len(frame) \in Nat \ {0}
      /\ frame[1] = Word("eflags", Running)
      /\ \A k \in 2 .. Len(frame) : frame[k].what # "eflags"
  BY RunningIsLast, FramePushed
<1>2. /\ stub \in Seq(Plain) /\ Len(stub) \in Nat \ {0}
      /\ stub[Len(stub)] = Word("vector", v)
  BY StubPushesVector DEF Enter
<1>3. stub \in Seq(Words) /\ \A k \in 1 .. Len(stub) : stub[k].what # "eflags"
  BY <1>2, PlainWords
<1>4. saved \in Seq(Plain) /\ Len(saved) = 9
  BY RunningIsLast, StubSavesNine
<1>5. saved \in Seq(Words) /\ \A k \in 1 .. Len(saved) : saved[k].what # "eflags"
  BY <1>4, PlainWords
<1>6. stack' = two \o saved /\ two = one \o stub /\ one = stack \o frame
  BY DEF Enter
<1> HIDE DEF frame, stub, saved, one, two
<1>7. stack \in Seq(Words) /\ Len(stack) \in Nat
  BY RunningIsLast
<1>8. /\ one \in Seq(Words) /\ Len(one) = Len(stack) + Len(frame)
      /\ \A k \in 1 .. Len(stack) : one[k] = stack[k]
      /\ \A k \in (Len(stack) + 1) .. Len(one) :
            k - Len(stack) \in 1 .. Len(frame) /\ one[k] = frame[k - Len(stack)]
  <2>1. frame \in Seq(Words)
    BY <1>1
  <2> QED
    BY <2>1, <1>6, <1>7, Joined
<1>9. /\ two \in Seq(Words) /\ Len(two) = Len(one) + Len(stub)
      /\ \A k \in 1 .. Len(one) : two[k] = one[k]
      /\ \A k \in (Len(one) + 1) .. Len(two) :
            k - Len(one) \in 1 .. Len(stub) /\ two[k] = stub[k - Len(one)]
  <2>1. one \in Seq(Words) /\ stub \in Seq(Words)
    BY <1>3, <1>8
  <2> QED
    BY <2>1, <1>6, Joined
<1>10. /\ stack' \in Seq(Words) /\ Len(stack') = Len(two) + Len(saved)
       /\ \A k \in 1 .. Len(two) : stack'[k] = two[k]
       /\ \A k \in (Len(two) + 1) .. Len(stack') :
             k - Len(two) \in 1 .. Len(saved) /\ stack'[k] = saved[k - Len(two)]
  <2>1. two \in Seq(Words) /\ saved \in Seq(Words)
    BY <1>5, <1>9
  <2> QED
    BY <2>1, <1>6, Joined
<1>11. /\ Len(one) \in Nat /\ Len(two) \in Nat
       /\ Len(one) > Len(stack) /\ Len(two) > Len(one) /\ Len(stack') = Len(two) + 9
  BY <1>1, <1>2, <1>4, <1>7, <1>8, <1>9, <1>10
<1>12. \A k \in 1 .. Len(stack) : stack'[k] = stack[k]
  BY <1>7, <1>8, <1>9, <1>10, <1>11
<1>13. stack'[Len(stack) + 1] = Word("eflags", Running)
  <2>1. one[Len(stack) + 1] = frame[1]
    BY <1>1, <1>7, <1>8, <1>11
  <2>2. Len(stack) + 1 \in 1 .. Len(one) /\ Len(stack) + 1 \in 1 .. Len(two)
    BY <1>7, <1>11
  <2>3. stack'[Len(stack) + 1] = frame[1]
    BY <1>9, <1>10, <2>1, <2>2
  <2> QED
    BY <1>1, <2>3
<1>14. ASSUME NEW k \in (Len(stack) + 2) .. Len(stack')
       PROVE  stack'[k].what # "eflags"
  <2>1. CASE k \in (Len(stack) + 2) .. Len(one)
    <3>1. one[k] = frame[k - Len(stack)] /\ k - Len(stack) \in 2 .. Len(frame)
      BY <1>1, <1>7, <1>8, <1>11, <2>1
    <3>2. stack'[k] = one[k]
      BY <1>7, <1>9, <1>10, <1>11, <2>1
    <3> QED
      BY <1>1, <3>1, <3>2
  <2>2. CASE k \in (Len(one) + 1) .. Len(two)
    <3>1. stack'[k] = two[k]
      BY <1>10, <1>11, <2>2
    <3> QED
      BY <1>3, <1>9, <2>2, <3>1
  <2>3. CASE k \in (Len(two) + 1) .. Len(stack')
    BY <1>5, <1>10, <2>3
  <2> QED
    BY <1>7, <1>11, <2>1, <2>2, <2>3
<1>15. stack'[Len(stack') - 9] = Word("vector", v)
  <2>1. stack'[Len(two)] = two[Len(two)] /\ Len(stack') - 9 = Len(two)
    BY <1>10, <1>11
  <2>2. two[Len(two)] = stub[Len(two) - Len(one)] /\ Len(two) - Len(one) = Len(stub)
    BY <1>2, <1>9, <1>11
  <2> QED
    BY <1>2, <2>1, <2>2
<1> QED
  BY <1>7, <1>10, <1>11, <1>12, <1>13, <1>14, <1>15

\* The first n words, or none.
LEMMA FirstWords ==
    ASSUME NEW s \in Seq(Words), NEW n \in Int, n <= Len(s), NEW t, t = SubSeq(s, 1, n)
    PROVE  /\ t \in Seq(Words)
           /\ Len(t) = IF n > 0 THEN n ELSE 0
           /\ \A k \in 1 .. Len(t) : t[k] = s[k]
<1>1. \A k \in 1 .. n : s[k] \in Words
  BY ElementOfSeq, LenProperties
<1> QED
  BY <1>1, SubSeqProperties

LEMMA InitTypeInv == Init => TypeInv
BY InterruptsAssumption DEF Init, TypeInv, TypeOK, Words, Word, Printing, None

LEMMA GoToType ==
    ASSUME TypeInv, NEW pc \in Places, GoTo(pc), UNCHANGED raised
    PROVE  /\ pcs' \in Seq(Places) /\ Len(pcs') = Len(raised') + 1
           /\ raised' \in Seq(Gates) /\ Len(raised') <= MaxInterrupts
BY RunningIsLast DEF GoTo, TypeInv, TypeOK

LEMMA EnterType ==
    ASSUME TypeInv, NEW v, Enter(v)
    PROVE  TypeInv'
<1>1. stack' \in Seq(Words)
  BY EnterPushes
<1>2. /\ pcs \in Seq(Places) /\ "handler" \in Places /\ pcs' = Append(pcs, "handler")
      /\ raised \in Seq(Gates) /\ v \in Gates /\ raised' = Append(raised, v)
      /\ Len(raised) < MaxInterrupts /\ Len(pcs) = Len(raised) + 1
      /\ UNCHANGED <<locked, open>>
  BY RunningIsLast DEF Enter, Places, TypeInv, TypeOK
<1>3. /\ pcs' \in Seq(Places) /\ Len(pcs') = Len(pcs) + 1
      /\ raised' \in Seq(Gates) /\ Len(raised') = Len(raised) + 1
  BY <1>2, AppendProperties
<1>4. Len(raised) \in Nat
  BY RunningIsLast
<1> QED
  BY <1>1, <1>2, <1>3, <1>4, InterruptsAssumption DEF TypeInv, TypeOK, Places

LEMMA StepTypeInv ==
    ASSUME TypeInv, [Next]_vars
    PROVE  TypeInv'
<1> USE InterruptsAssumption
<1>1. CASE \E v : Enter(v)
  BY <1>1, EnterType
<1>2. ASSUME NEW pc \in Places, GoTo(pc), UNCHANGED raised,
             stack' \in Seq(Words), locked' \in {0, 1}, open' \in {open, None, Running}
      PROVE  TypeInv'
  <2>1. open' \in {None} \cup 0 .. MaxInterrupts
    BY <1>2, RunningIsLast DEF TypeInv, TypeOK
  <2> QED
    BY <1>2, <2>1, GoToType DEF TypeInv, TypeOK, Places
<1>3. /\ stack \in Seq(Words) /\ locked \in {0, 1}
  BY DEF TypeInv, TypeOK
<1>4. CASE CallKprintf
  BY <1>2, <1>3, <1>4 DEF CallKprintf, Places
<1>5. CASE SeeUnlocked
  BY <1>2, <1>3, <1>5 DEF SeeUnlocked, Places
<1>6. CASE mutex_lock
  BY <1>2, <1>3, <1>6 DEF mutex_lock, Places, Printing
<1>7. CASE PrintHalf
  BY <1>2, <1>3, <1>7 DEF PrintHalf, Places, Printing
<1>8. CASE mutex_unlock
  BY <1>2, <1>3, <1>8 DEF mutex_unlock, Places
<1>9. CASE LeaveHandler
  <2>1. /\ Len(stack) - PoppedByCommonStub \in Int
        /\ Len(stack) - PoppedByCommonStub <= Len(stack)
    BY RunningIsLast DEF PoppedByCommonStub
  <2>2. stack' \in Seq(Words)
    BY <1>3, <1>9, <2>1, FirstWords DEF LeaveHandler
  <2> QED
    BY <1>2, <1>3, <1>9, <2>2 DEF LeaveHandler, Places
<1>10. CASE Return
  <2>1. PICK c \in 0 .. (Running - 1) :
           pcs' = SubSeq(pcs, 1, c + 1) /\ raised' = SubSeq(raised, 1, c)
    BY <1>10 DEF Return
  <2>2. /\ Len(stack) - 3 \in Int /\ Len(stack) - 3 <= Len(stack)
        /\ stack' = SubSeq(stack, 1, Len(stack) - 3)
    BY <1>10, RunningIsLast DEF Return
  <2>3. stack' \in Seq(Words)
    BY <1>3, <2>2, FirstWords
  <2>4. c \in Nat /\ c < Len(raised) /\ c + 1 <= Len(pcs) /\ Len(raised) \in Nat
    BY <2>1, RunningIsLast
  <2>5. /\ \A k \in 1 .. (c + 1) : pcs[k] \in Places
        /\ \A k \in 1 .. c : raised[k] \in Gates
    BY <2>4, RunningIsLast, ElementOfSeq
  <2>6. /\ pcs' \in Seq(Places) /\ Len(pcs') = c + 1
        /\ raised' \in Seq(Gates) /\ Len(raised') = c
    BY <2>1, <2>4, <2>5, SubSeqProperties
  <2>7. UNCHANGED <<locked, open>> /\ Len(raised) <= MaxInterrupts
    BY <1>10 DEF Return, TypeInv
  <2> QED
    BY <2>3, <2>4, <2>6, <2>7 DEF TypeInv, TypeOK, Places
<1>11. CASE UNCHANGED vars
  BY <1>11 DEF vars, TypeInv, TypeOK
<1> QED
  BY <1>1, <1>4, <1>5, <1>6, <1>7, <1>8, <1>9, <1>10, <1>11
     DEF Next, Interrupt, IretFault

\* The stack holds words of the contexts, and no more handlers run than
\* interrupts were counted (idt.c, idt.s, display.c:46-140).
THEOREM InterruptsTypes == Spec => []TypeOK
<1>1. TypeInv /\ [Next]_vars => TypeInv'
  BY StepTypeInv
<1>2. TypeInv => TypeOK
  BY DEF TypeInv
<1> QED
  BY <1>1, <1>2, InitTypeInv, PTL DEF Spec

-------------------------------------------------------------------------------
(***************************************************************************)
(* The vector.                                                             *)
(***************************************************************************)

\* A handler about to read its vector has it ten words below the top, and so
\* has one that an interrupt stopped there, ten words below the flags that
\* were pushed for it.
RunningHasVector ==
    Pc = "handler" => /\ Len(stack) > 9
                      /\ stack[Len(stack) - 9] = Word("vector", raised[Len(raised)])

IsFlags(p) == stack[p].what = "eflags"
HasVector(p) ==
    /\ stack[p].of \in 0 .. (Running - 1)
    /\ pcs[stack[p].of + 1] = "handler" =>
          /\ p > 10
          /\ stack[p - 10] = Word("vector", raised[stack[p].of])
InterruptedHaveVector == \A p \in 1 .. Len(stack) : IsFlags(p) => HasVector(p)

\* The flags further up are those of later contexts, whatever is left of the
\* handlers that never returned.
FlagsInOrder ==
    \A p \in 1 .. Len(stack) : \A q \in 1 .. Len(stack) :
       p < q /\ IsFlags(p) /\ IsFlags(q) => stack[p].of < stack[q].of

VectorInv ==
    /\ TypeInv
    /\ pcs[1] # "handler"
    /\ RunningHasVector
    /\ InterruptedHaveVector
    /\ FlagsInOrder

LEMMA InitVectorInv == Init => VectorInv
<1> SUFFICES ASSUME Init PROVE VectorInv
  OBVIOUS
<1>1. /\ Len(stack) = 1 /\ stack[1].what = "local"
      /\ Len(pcs) = 1 /\ pcs[1] = "working"
  BY DEF Init, Word
<1>2. \A p \in 1 .. Len(stack) : ~IsFlags(p)
  BY <1>1 DEF IsFlags
<1> QED
  BY <1>1, <1>2, InitTypeInv
     DEF VectorInv, RunningHasVector, InterruptedHaveVector, FlagsInOrder, Pc

\* A step of the running context that may drop words from its stack.
LEMMA RunningMovesOn ==
    ASSUME VectorInv, TypeInv', NEW pc \in Places, pc # "handler", GoTo(pc),
           UNCHANGED raised, Len(stack') <= Len(stack),
           \A k \in 1 .. Len(stack') : stack'[k] = stack[k]
    PROVE  VectorInv'
<1>1. /\ Len(pcs) = Running + 1 /\ Running \in Nat /\ Len(stack) \in Nat
      /\ pcs \in Seq(Places) /\ Len(stack') \in Nat
  <2>1. stack' \in Seq(Words)
    BY DEF TypeInv, TypeOK
  <2>2. Len(stack') \in Nat
    BY <2>1, LenProperties
  <2> QED
    BY <2>2, RunningIsLast, InterruptsAssumption DEF VectorInv
<1>2. /\ Len(pcs') = Len(pcs) /\ pcs'[Len(pcs)] = pc
      /\ \A k \in 1 .. (Len(pcs) - 1) : pcs'[k] = pcs[k]
  BY <1>1 DEF GoTo
<1>3. Running' = Running /\ Pc' = pc
  BY <1>2 DEF Running, Pc
<1>4. pcs'[1] # "handler"
  BY <1>1, <1>2 DEF VectorInv
<1>5. ASSUME NEW p \in 1 .. Len(stack'), IsFlags(p)' PROVE HasVector(p)'
  <2>1. p \in 1 .. Len(stack) /\ stack'[p] = stack[p]
    BY <1>1
  <2>2. IsFlags(p) /\ HasVector(p)
    BY <1>5, <2>1 DEF IsFlags, VectorInv, InterruptedHaveVector
  <2>3. pcs'[stack[p].of + 1] = pcs[stack[p].of + 1]
    BY <1>1, <1>2, <2>2 DEF HasVector
  <2>4. p > 10 => stack'[p - 10] = stack[p - 10]
    BY <1>1, <2>1
  <2> QED
    BY <1>3, <2>1, <2>2, <2>3, <2>4 DEF HasVector
<1>6. FlagsInOrder'
  <2> SUFFICES ASSUME NEW p \in 1 .. Len(stack'), NEW q \in 1 .. Len(stack'),
                      p < q, IsFlags(p)', IsFlags(q)'
               PROVE  stack'[p].of < stack'[q].of
    BY DEF FlagsInOrder
  <2>1. /\ p \in 1 .. Len(stack) /\ stack'[p] = stack[p]
        /\ q \in 1 .. Len(stack) /\ stack'[q] = stack[q]
    BY <1>1
  <2>2. IsFlags(p) /\ IsFlags(q)
    BY <2>1 DEF IsFlags
  <2> QED
    BY <2>1, <2>2 DEF VectorInv, FlagsInOrder
<1> QED
  BY <1>3, <1>4, <1>5, <1>6 DEF VectorInv, RunningHasVector, InterruptedHaveVector

LEMMA EnterVectorInv ==
    ASSUME VectorInv, NEW v, Enter(v)
    PROVE  VectorInv'
<1> DEFINE n == Len(stack)
<1>1. /\ Running \in Nat /\ Running = Len(raised) /\ Len(pcs) = Running + 1
      /\ n \in Nat /\ pcs \in Seq(Places) /\ raised \in Seq(Gates)
      /\ TypeInv
  BY RunningIsLast, InterruptsAssumption DEF VectorInv
<1>2. /\ Len(stack') \in Nat /\ Len(stack') > n + 10
      /\ \A k \in 1 .. n : stack'[k] = stack[k]
      /\ stack'[n + 1] = Word("eflags", Running)
      /\ \A k \in (n + 2) .. Len(stack') : stack'[k].what # "eflags"
      /\ stack'[Len(stack') - 9] = Word("vector", v)
  BY <1>1, EnterPushes
<1>3. TypeInv'
  BY <1>1, EnterType
<1>4. /\ Len(pcs') = Len(pcs) + 1 /\ pcs'[Len(pcs) + 1] = "handler"
      /\ \A k \in 1 .. Len(pcs) : pcs'[k] = pcs[k]
  <2>1. "handler" \in Places /\ pcs' = Append(pcs, "handler")
    BY DEF Enter, Places
  <2> QED
    BY <1>1, <2>1, AppendProperties
<1>5. /\ Len(raised') = Len(raised) + 1 /\ raised'[Len(raised) + 1] = v
      /\ \A k \in 1 .. Len(raised) : raised'[k] = raised[k]
  <2>1. v \in Gates /\ raised' = Append(raised, v)
    BY DEF Enter
  <2> QED
    BY <1>1, <2>1, AppendProperties
<1>6. Running' = Running + 1
  BY <1>1, <1>4 DEF Running
<1>7. RunningHasVector'
  BY <1>1, <1>2, <1>5 DEF RunningHasVector
<1>8. pcs'[1] # "handler"
  BY <1>1, <1>4 DEF VectorInv
<1>9. ASSUME NEW p \in 1 .. Len(stack'), IsFlags(p)'
      PROVE  \/ p \in 1 .. n /\ IsFlags(p) /\ stack'[p] = stack[p] /\ HasVector(p)
             \/ p = n + 1 /\ stack'[p].of = Running
  <2>1. p \in 1 .. n \/ p = n + 1
    BY <1>1, <1>2, <1>9 DEF IsFlags
  <2>2. CASE p \in 1 .. n
    BY <1>2, <1>9, <2>2 DEF IsFlags, VectorInv, InterruptedHaveVector
  <2>3. CASE p = n + 1
    BY <1>2, <2>3 DEF Word
  <2> QED
    BY <2>1, <2>2, <2>3
<1>10. ASSUME NEW p \in 1 .. Len(stack'), IsFlags(p)' PROVE HasVector(p)'
  <2>1. CASE p \in 1 .. n /\ stack'[p] = stack[p] /\ HasVector(p)
    <3> DEFINE c == stack[p].of
    <3>1. c \in 0 .. (Running - 1)
      BY <2>1 DEF HasVector
    <3>2. pcs'[c + 1] = pcs[c + 1]
      BY <1>1, <1>4, <3>1
    <3>3. ASSUME pcs'[c + 1] = "handler"
          PROVE  p > 10 /\ stack'[p - 10] = Word("vector", raised'[c])
      <4>1. p > 10 /\ stack[p - 10] = Word("vector", raised[c])
        BY <2>1, <3>2, <3>3 DEF HasVector
      <4>2. c # 0
        <5>1. pcs[c + 1] = "handler" /\ pcs[1] # "handler"
          BY <3>2, <3>3 DEF VectorInv
        <5>2. c \in Int
          BY <1>1, <3>1
        <5> HIDE DEF c
        <5> QED
          BY <5>1, <5>2
      <4>3. raised'[c] = raised[c]
        <5>1. c \in 1 .. Len(raised)
          BY <1>1, <3>1, <4>2
        <5> QED
          BY <1>5, <5>1
      <4>4. stack'[p - 10] = stack[p - 10]
        <5>1. p - 10 \in 1 .. n
          BY <1>1, <2>1, <4>1
        <5> QED
          BY <1>2, <5>1
      <4> QED
        BY <4>1, <4>3, <4>4
    <3> QED
      BY <1>1, <1>6, <2>1, <3>1, <3>3 DEF HasVector
  <2>2. CASE p = n + 1 /\ stack'[p].of = Running
    <3>1. ASSUME pcs'[Running + 1] = "handler"
          PROVE  p > 10 /\ stack'[p - 10] = Word("vector", raised'[Running])
      <4>1. Pc = "handler"
        BY <1>1, <1>4, <3>1 DEF Pc
      <4>2. n > 9 /\ stack[n - 9] = Word("vector", raised[Len(raised)])
        BY <4>1 DEF VectorInv, RunningHasVector
      <4>3. Running # 0
        BY <1>1, <4>1 DEF Pc, VectorInv
      <4>4. raised'[Running] = raised[Running] /\ stack'[n - 9] = stack[n - 9]
        BY <1>1, <1>2, <1>5, <4>2, <4>3
      <4>5. p - 10 = n - 9
        BY <1>1, <2>2
      <4> QED
        BY <1>1, <2>2, <4>2, <4>4, <4>5
    <3>2. Running \in 0 .. (Running' - 1)
      BY <1>1, <1>6
    <3> QED
      BY <2>2, <3>1, <3>2 DEF HasVector
  <2> QED
    BY <1>9, <1>10, <2>1, <2>2
<1>11. FlagsInOrder'
  <2> SUFFICES ASSUME NEW p \in 1 .. Len(stack'), NEW q \in 1 .. Len(stack'),
                      p < q, IsFlags(p)', IsFlags(q)'
               PROVE  stack'[p].of < stack'[q].of
    BY DEF FlagsInOrder
  <2>1. p \in 1 .. n /\ IsFlags(p) /\ stack'[p] = stack[p] /\ HasVector(p)
    BY <1>1, <1>9
  <2>2. CASE q \in 1 .. n /\ IsFlags(q) /\ stack'[q] = stack[q]
    BY <2>1, <2>2 DEF VectorInv, FlagsInOrder
  <2>3. CASE q = n + 1 /\ stack'[q].of = Running
    BY <1>1, <2>1, <2>3 DEF HasVector
  <2> QED
    BY <1>9, <2>2, <2>3
<1> QED
  BY <1>3, <1>7, <1>8, <1>10, <1>11 DEF VectorInv, InterruptedHaveVector

\* iret finds the flags of a context only where that context left them.
LEMMA ReturnVectorInv ==
    ASSUME VectorInv, Return
    PROVE  VectorInv'
<1> DEFINE n == Len(stack)
<1>1. /\ Running \in Nat /\ Len(raised) = Running /\ Len(pcs) = Running + 1
      /\ n \in Nat /\ stack \in Seq(Words) /\ TypeInv
      /\ pcs \in Seq(Places) /\ raised \in Seq(Gates)
  BY RunningIsLast, InterruptsAssumption DEF VectorInv
<1>2. TypeInv'
  BY <1>1, StepTypeInv DEF Next
<1>3. PICK c \in 0 .. (Running - 1) :
         /\ n >= 3 /\ IretFrame = FrameOf(c)
         /\ pcs' = SubSeq(pcs, 1, c + 1) /\ raised' = SubSeq(raised, 1, c)
  BY DEF Return
<1>4. /\ Len(stack') = n - 3
      /\ \A k \in 1 .. (n - 3) : stack'[k] = stack[k]
  <2>1. n - 3 \in Int /\ n - 3 <= n /\ stack' = SubSeq(stack, 1, n - 3)
    BY <1>1 DEF Return
  <2>2. /\ Len(stack') = IF n - 3 > 0 THEN n - 3 ELSE 0
        /\ \A k \in 1 .. Len(stack') : stack'[k] = stack[k]
    BY <1>1, <2>1, FirstWords
  <2>3. n - 3 >= 0
    BY <1>1, <1>3
  <2> HIDE DEF n
  <2>4. Len(stack') = n - 3
    BY <1>1, <2>2, <2>3
  <2> QED
    BY <2>2, <2>4
<1>5. stack[n - 2] = Word("eflags", c)
  <2>1. IretFrame[1] = stack[n - 2]
    <3>1. \A k \in (n - 2) .. n : stack[k] \in Words
      BY <1>1, <1>3, ElementOfSeq
    <3>2. n - 2 \in Int /\ n \in Int /\ 1 \in 1 .. n - (n - 2) + 1
      BY <1>1
    <3>3. IretFrame[1] = stack[(n - 2) + 1 - 1]
      BY <3>1, <3>2, SubSeqProperties DEF IretFrame
    <3> QED
      BY <1>1, <3>3
  <2>2. FrameOf(c)[1] = Word("eflags", c)
    BY DEF FrameOf
  <2> QED
    BY <1>3, <2>1, <2>2
<1>6. /\ Len(pcs') = c + 1 /\ \A k \in 1 .. (c + 1) : pcs'[k] = pcs[k]
      /\ Len(raised') = c /\ \A k \in 1 .. c : raised'[k] = raised[k]
  <2>1. /\ c \in Nat /\ c < Running
        /\ \A k \in 1 .. (c + 1) : pcs[k] \in Places
        /\ \A k \in 1 .. c : raised[k] \in Gates
    BY <1>1, ElementOfSeq
  <2> QED
    BY <1>3, <2>1, SubSeqProperties
<1>7. Running' = c /\ c \in Nat /\ Pc' = pcs[c + 1]
  BY <1>1, <1>6 DEF Running, Pc
<1>8. IsFlags(n - 2) /\ stack[n - 2].of = c /\ HasVector(n - 2)
  <2>1. n - 2 \in 1 .. n
    BY <1>1, <1>3
  <2>2. IsFlags(n - 2) /\ stack[n - 2].of = c
    BY <1>5 DEF IsFlags, Word
  <2> QED
    BY <2>1, <2>2, Zenon DEF VectorInv, InterruptedHaveVector
<1>9. RunningHasVector'
  <2> SUFFICES ASSUME pcs[c + 1] = "handler"
               PROVE  /\ Len(stack') > 9
                      /\ stack'[Len(stack') - 9] = Word("vector", raised'[c])
    BY <1>6, <1>7 DEF RunningHasVector
  <2>1. n - 2 > 10 /\ stack[n - 2 - 10] = Word("vector", raised[c])
    BY <1>8 DEF HasVector
  <2>2. c # 0
    BY <1>7 DEF VectorInv
  <2>3. raised'[c] = raised[c]
    BY <1>6, <1>7, <2>2
  <2>4. Len(stack') - 9 = n - 2 - 10 /\ n - 2 - 10 \in 1 .. (n - 3) /\ Len(stack') > 9
    BY <1>1, <1>4, <2>1
  <2> QED
    BY <1>4, <2>1, <2>3, <2>4
<1>10. ASSUME NEW p \in 1 .. Len(stack'), IsFlags(p)' PROVE HasVector(p)'
  <2>1. p \in 1 .. n /\ p < n - 2 /\ stack'[p] = stack[p]
    BY <1>1, <1>4
  <2>2. IsFlags(p) /\ HasVector(p)
    BY <1>10, <2>1 DEF IsFlags, VectorInv, InterruptedHaveVector
  <2>3. stack[p].of < c
    BY <1>1, <1>3, <1>8, <2>1, <2>2 DEF VectorInv, FlagsInOrder
  <2>4. stack[p].of \in 0 .. (Running' - 1)
    BY <1>1, <1>7, <2>2, <2>3 DEF HasVector
  <2> DEFINE d == stack[p].of
  <2>5. ASSUME pcs'[d + 1] = "handler"
        PROVE  p > 10 /\ stack'[p - 10] = Word("vector", raised'[d])
    <3>1. d \in Nat /\ d < c
      BY <1>7, <2>3, <2>4
    <3>2. pcs[d + 1] = "handler" /\ pcs[1] # "handler"
      BY <1>6, <1>7, <2>5, <3>1 DEF VectorInv
    <3>3. p > 10 /\ stack[p - 10] = Word("vector", raised[d])
      BY <2>2, <3>2 DEF HasVector
    <3> HIDE DEF d
    <3>4. d \in 1 .. c
      BY <1>7, <3>1, <3>2
    <3>5. raised'[d] = raised[d]
      BY <1>6, <3>4
    <3>6. p - 10 \in 1 .. (n - 3)
      BY <1>1, <2>1, <3>3
    <3>7. stack'[p - 10] = stack[p - 10]
      BY <1>4, <3>6
    <3> QED
      BY <3>3, <3>5, <3>7
  <2> QED
    BY <2>1, <2>4, <2>5 DEF HasVector
<1>11. FlagsInOrder'
  <2> SUFFICES ASSUME NEW p \in 1 .. Len(stack'), NEW q \in 1 .. Len(stack'),
                      p < q, IsFlags(p)', IsFlags(q)'
               PROVE  stack'[p].of < stack'[q].of
    BY DEF FlagsInOrder
  <2>1. /\ p \in 1 .. n /\ stack'[p] = stack[p]
        /\ q \in 1 .. n /\ stack'[q] = stack[q]
    BY <1>1, <1>4
  <2>2. IsFlags(p) /\ IsFlags(q)
    BY <2>1 DEF IsFlags
  <2> QED
    BY <2>1, <2>2 DEF VectorInv, FlagsInOrder
<1>12. pcs'[1] # "handler"
  BY <1>6, <1>7 DEF VectorInv
<1> QED
  BY <1>2, <1>9, <1>10, <1>11, <1>12 DEF VectorInv, InterruptedHaveVector

LEMMA StepVectorInv ==
    ASSUME VectorInv, [Next]_vars
    PROVE  VectorInv'
<1>1. TypeInv'
  BY StepTypeInv DEF VectorInv
<1>2. ASSUME NEW pc \in Places, pc # "handler", GoTo(pc), UNCHANGED raised,
             UNCHANGED stack
      PROVE  VectorInv'
  <2>1. Len(stack) \in Nat
    BY RunningIsLast DEF VectorInv
  <2> QED
    BY <1>1, <1>2, <2>1, RunningMovesOn
<1>3. CASE CallKprintf
  BY <1>2, <1>3 DEF CallKprintf, Places
<1>4. CASE SeeUnlocked
  BY <1>2, <1>4 DEF SeeUnlocked, Places
<1>5. CASE mutex_lock
  BY <1>2, <1>5 DEF mutex_lock, Places, Printing
<1>6. CASE PrintHalf
  BY <1>2, <1>6 DEF PrintHalf, Places, Printing
<1>7. CASE mutex_unlock
  BY <1>2, <1>7 DEF mutex_unlock, Places
<1>8. CASE LeaveHandler
  <2>1. /\ Len(stack) \in Nat /\ stack \in Seq(Words)
        /\ Len(stack) - PoppedByCommonStub \in Int
        /\ Len(stack) - PoppedByCommonStub <= Len(stack)
        /\ stack' = SubSeq(stack, 1, Len(stack) - PoppedByCommonStub)
    BY <1>8, RunningIsLast DEF VectorInv, LeaveHandler, PoppedByCommonStub
  <2>2. /\ Len(stack') <= Len(stack)
        /\ \A k \in 1 .. Len(stack') : stack'[k] = stack[k]
    BY <2>1, FirstWords
  <2>3. "iret" \in Places /\ GoTo("iret") /\ UNCHANGED raised
    BY <1>8 DEF LeaveHandler, Places
  <2> QED
    BY <1>1, <2>2, <2>3, RunningMovesOn
<1>9. CASE \E v : Enter(v)
  BY <1>9, EnterVectorInv
<1>10. CASE UNCHANGED vars
  <2>1. UNCHANGED <<Running, Pc>>
    BY <1>10 DEF vars, Running, Pc
  <2> QED
    BY <1>1, <1>10, <2>1 DEF vars, VectorInv, RunningHasVector, HasVector,
                            InterruptedHaveVector, FlagsInOrder, IsFlags
<1> QED
  BY <1>3, <1>4, <1>5, <1>6, <1>7, <1>8, <1>9, <1>10, ReturnVectorInv
     DEF Next, Interrupt, IretFault

\* isr_handler() reads the number of its own interrupt, although the stub
\* leaves error codes behind and iret may fault at every depth
\* (idt.c:64-74, 208-211, idt.s:68-94).
THEOREM HandlersSeeTheirVector == Spec => []HandlerSeesVector
<1>1. VectorInv => HandlerSeesVector
  <2> SUFFICES ASSUME VectorInv, Pc = "handler"
               PROVE  stack[Len(stack) - 9] = Word("vector", raised[Len(raised)])
    BY DEF HandlerSeesVector, int_no, RegsWord
  <2> QED
    BY DEF VectorInv, RunningHasVector
<1>2. VectorInv /\ [Next]_vars => VectorInv'
  BY StepVectorInv
<1> QED
  BY <1>1, <1>2, InitVectorInv, PTL DEF Spec

-------------------------------------------------------------------------------
(***************************************************************************)
(* kernel_main() and its handlers: theorems of KernelSpec.                 *)
(***************************************************************************)

\* What kernel_main() and its handlers do to the stack, the lock and the
\* screen is what Interrupts lets them do.
LEMMA KernelStepIsInterruptStep == [KernelNext]_kernelVars => [Next]_vars
<1> SUFFICES ASSUME [KernelNext]_kernelVars PROVE [Next]_vars
  OBVIOUS
<1>1. CASE SetUpTables \/ display_register \/ CheckMagic \/ MayPanic \/ SkipPrint
  BY <1>1 DEF SetUpTables, display_register, CheckMagic, MayPanic, SkipPrint
<1>2. CASE KernelPrint
  BY <1>2 DEF KernelPrint, Next
<1>3. CASE InKprintf
  BY <1>3 DEF InKprintf, Next
<1>4. CASE GoBack
  BY <1>4 DEF GoBack, Next
<1>5. CASE FaultAtIret
  BY <1>5 DEF FaultAtIret, Next
<1>6. CASE Exception
  BY <1>6 DEF Exception, Next
<1>7. CASE UNCHANGED kernelVars
  BY <1>7 DEF kernelVars
<1> QED
  BY <1>1, <1>2, <1>3, <1>4, <1>5, <1>6, <1>7 DEF KernelNext, Runs

LEMMA KernelLockInv == KernelSpec => []LockInv
<1>1. KernelInit => LockInv
  BY InitLockInv DEF KernelInit
<1>2. LockInv /\ [KernelNext]_kernelVars => LockInv'
  BY KernelStepIsInterruptStep, StepLockInv
<1> QED
  BY <1>1, <1>2, PTL DEF KernelSpec

\* The composition only restricts what the interrupts and the lock do.
THEOREM KernelImplementsInterrupts == KernelSpec => Spec
<1>1. KernelInit => Init
  BY DEF KernelInit
<1> QED
  BY <1>1, KernelStepIsInterruptStep, PTL DEF KernelSpec, Spec

\* No line of kernel_main() is ever printed into a handler's or the other way
\* round (mutex.c:3-16, display.c:46-140, main.c:39-62).
THEOREM KernelLinesStayWhole == KernelSpec => []LinesNotMixed
BY KernelImplementsInterrupts, LinesStayWhole, PTL

\* The lock of kprintf() is taken only while a context is between taking it
\* and giving it back, at every depth of nested handlers (display.c:52, 139).
THEOREM LockIsHeld == KernelSpec => []LockHasHolder
<1>1. LockInv => LockHasHolder
  <2> SUFFICES ASSUME LockInv, locked = 1
               PROVE  \E k \in DOMAIN pcs : pcs[k] \in Printing
    BY DEF LockHasHolder
  <2>1. PICK k \in 1 .. Len(pcs) : OnlyPrinter(k)
    BY DEF LockInv, TakenMeansPrinting
  <2> QED
    BY <2>1 DEF OnlyPrinter, LockInv, PcsType
<1> QED
  BY <1>1, KernelLockInv, PTL

\* From the first gate to the last panic, a handler prints the number of its
\* own interrupt (idt.c:208-211, main.c:39-62).
THEOREM KernelHandlersSeeTheirVector == KernelSpec => []HandlerSeesVector
BY KernelImplementsInterrupts, HandlersSeeTheirVector, PTL

-------------------------------------------------------------------------------
(***************************************************************************)
(* The descriptor tables.                                                  *)
(***************************************************************************)

SegmentEntry(s) ==
    IF s = 0 THEN gdt_entry_t(Zero, Zero, 0, 0)
    ELSE gdt_entry_t(Zero, Ones, SegmentAccess[s],
                     GDT_FLAG_IS_32_BITS + GDT_FLAG_4KB_GRANULARITY)

StubEntry(v) == idt_entry_t(isr[v], KERNEL_CODE_SEGMENT_INDEX, 142)

\* The processor reads the kernel's two segments as flat ones.
LEMMA SegmentsReadFlat ==
    /\ SegmentOf(SegmentEntry(1)) = FlatSegment(TRUE)
    /\ SegmentOf(SegmentEntry(2)) = FlatSegment(FALSE)
<1>1. SegmentEntry(1) = << 255, 255, 0, 0, 0, 154, 207, 0 >>
  BY DEF SegmentEntry, gdt_entry_t, Zero, Ones, SegmentAccess,
         GDT_FLAG_IS_32_BITS, GDT_FLAG_4KB_GRANULARITY,
         ACCESS_FLAG_IS_EXECUTABLE, ACCESS_FLAG_CODE_SEGMENT_READABLE,
         ACCESS_FLAG_IS_CODE_OR_DATA, ACCESS_FLAG_IS_PRESENT
<1>2. SegmentEntry(2) = << 255, 255, 0, 0, 0, 146, 207, 0 >>
  BY DEF SegmentEntry, gdt_entry_t, Zero, Ones, SegmentAccess,
         GDT_FLAG_IS_32_BITS, GDT_FLAG_4KB_GRANULARITY,
         ACCESS_FLAG_DATA_SEGMENT_WRITABLE,
         ACCESS_FLAG_IS_CODE_OR_DATA, ACCESS_FLAG_IS_PRESENT
<1>3. SegmentOf(SegmentEntry(1)) = FlatSegment(TRUE)
  <2> DEFINE d == << 255, 255, 0, 0, 0, 154, 207, 0 >>
  <2>1. << d[3], d[4], d[5], d[8] >> = << 0, 0, 0, 0 >>
    OBVIOUS
  <2>2. (d[7] \div 128) % 2 = 1
    OBVIOUS
  <2>3. << 255, 15 + 16 * (d[1] % 16), (d[1] \div 16) + 16 * (d[2] % 16),
           (d[2] \div 16) + 16 * (d[7] % 16) >> = << 255, 255, 255, 255 >>
    OBVIOUS
  <2>4. /\ (d[7] \div 64) % 2 = 1
        /\ d[6] \div 128 = 1 /\ (d[6] \div 32) % 4 = 0
        /\ (d[6] \div 16) % 2 = 1 /\ (d[6] \div 2) % 2 = 1
    OBVIOUS
  <2>5. ((d[6] \div 8) % 2 = 1) = TRUE
    OBVIOUS
  <2> HIDE DEF d
  <2>6. SegmentOf(d) = FlatSegment(TRUE)
    BY <2>1, <2>2, <2>3, <2>4, <2>5, Zenon DEF SegmentOf, FlatSegment, Zero, Ones
  <2> QED
    BY <1>1, <2>6 DEF d
<1>4. SegmentOf(SegmentEntry(2)) = FlatSegment(FALSE)
  <2> DEFINE d == << 255, 255, 0, 0, 0, 146, 207, 0 >>
  <2>1. << d[3], d[4], d[5], d[8] >> = << 0, 0, 0, 0 >>
    OBVIOUS
  <2>2. (d[7] \div 128) % 2 = 1
    OBVIOUS
  <2>3. << 255, 15 + 16 * (d[1] % 16), (d[1] \div 16) + 16 * (d[2] % 16),
           (d[2] \div 16) + 16 * (d[7] % 16) >> = << 255, 255, 255, 255 >>
    OBVIOUS
  <2>4. /\ (d[7] \div 64) % 2 = 1
        /\ d[6] \div 128 = 1 /\ (d[6] \div 32) % 4 = 0
        /\ (d[6] \div 16) % 2 = 1 /\ (d[6] \div 2) % 2 = 1
    OBVIOUS
  <2>5. ((d[6] \div 8) % 2 = 1) = FALSE
    OBVIOUS
  <2> HIDE DEF d
  <2>6. SegmentOf(d) = FlatSegment(FALSE)
    BY <2>1, <2>2, <2>3, <2>4, <2>5, Zenon DEF SegmentOf, FlatSegment, Zero, Ones
  <2> QED
    BY <1>2, <2>6 DEF d
<1> QED
  BY <1>3, <1>4

\* The processor reads a gate as leading to the stub it was made for.
LEMMA GatesReadStubs ==
    ASSUME NEW v \in 0 .. LastStub
    PROVE  GateOf(StubEntry(v)) = StubGate(v)
<1>1. isr[v] \in [1 .. 4 -> Byte]
  BY DescriptorsAssumption DEF U32
<1>2. isr[v] = << isr[v][1], isr[v][2], isr[v][3], isr[v][4] >>
  BY <1>1
<1> DEFINE g == StubEntry(v)
<1>3. /\ g[1] = isr[v][1] /\ g[2] = isr[v][2]
      /\ g[7] = isr[v][3] /\ g[8] = isr[v][4]
      /\ g[3] = 8 /\ g[4] = 0 /\ g[6] = 142
  BY DEF StubEntry, idt_entry_t, KERNEL_CODE_SEGMENT_INDEX
<1> HIDE DEF g
<1>4. /\ << g[1], g[2], g[7], g[8] >> = isr[v]
      /\ g[3] + 256 * g[4] = KERNEL_CODE_SEGMENT_INDEX
      /\ g[6] \div 128 = 1 /\ (g[6] \div 32) % 4 = 0 /\ g[6] % 32 = 14
  BY <1>2, <1>3 DEF KERNEL_CODE_SEGMENT_INDEX
<1>5. GateOf(g) = StubGate(v)
  BY <1>4, Zenon DEF GateOf, StubGate
<1> QED
  BY <1>5 DEF g

-------------------------------------------------------------------------------
(***************************************************************************)
(* Where the steps of kernel_main() are.                                   *)
(***************************************************************************)

Ops == {"gdt_set_gate", "lgdt", "load_data", "far_jump", "display_register",
        "check_magic", "print", "memset", "idt_set_gate", "lidt", "may_panic",
        "may_print", "end", "for_ever"}

Steps == [op : Ops, arg : Nat]

LidtAt == 15 + LastStub

\* A step that uses the tables has its one place, or its place by its number,
\* no step that prints or panics comes between them, and one step is the last.
Placed(step, k) ==
    /\ step.op = "gdt_set_gate" => k \in 1 .. 5 /\ step.arg = k - 1
    /\ step.op = "lgdt" => k = 6
    /\ step.op = "load_data" => k = 7
    /\ step.op = "far_jump" => k = 8
    /\ step.op = "memset" => k = 13
    /\ step.op = "idt_set_gate" => k \in 14 .. (14 + LastStub) /\ step.arg = k - 14
    /\ step.op = "lidt" => k = LidtAt
    /\ step.op = "check_magic" => k = 10
    /\ step.op = "may_panic" => k > LidtAt
    /\ step.op = "display_register" => k = 9
    /\ step.op \in {"print", "may_print"} => k \in {11, 12} \/ k > LidtAt
    /\ step.op # "for_ever" => k < LidtAt + 22

\* The sequence has the places behind n up to e.
From(n, e, s) ==
    /\ n \in Nat /\ e \in Nat
    /\ s \in Seq(Steps)
    /\ Len(s) = e - n
    /\ \A k \in 1 .. Len(s) : Placed(s[k], n + k)

LEMMA OneStep ==
    ASSUME NEW n \in Nat, NEW e, e = n + 1, NEW op \in Ops,
           Placed([op |-> op, arg |-> 0], e)
    PROVE  From(n, e, Step(op))
<1>1. Step(op) = << [op |-> op, arg |-> 0] >>
  BY DEF Step
<1>2. [op |-> op, arg |-> 0] \in Steps
  BY DEF Steps
<1> QED
  BY <1>1, <1>2 DEF From

LEMMA ManySteps ==
    ASSUME NEW n \in Nat, NEW m \in Nat, NEW e, e = n + m, NEW op \in Ops,
           \A k \in 1 .. m : Placed([op |-> op, arg |-> k - 1], n + k)
    PROVE  From(n, e, Times(m, op))
<1>1. \A k \in 1 .. m : [op |-> op, arg |-> k - 1] \in Steps
  BY DEF Steps
<1>2. Times(m, op) = [k \in 1 .. m |-> [op |-> op, arg |-> k - 1]]
  BY DEF Times
<1>3. Times(m, op) \in Seq(Steps) /\ Len(Times(m, op)) = m
  BY <1>1, <1>2
<1>4. \A k \in 1 .. m : Times(m, op)[k] = [op |-> op, arg |-> k - 1]
  BY <1>2
<1>5. \A k \in 1 .. m : Placed(Times(m, op)[k], n + k)
  BY <1>4
<1> QED
  BY <1>3, <1>5 DEF From

LEMMA OneBehindOther ==
    ASSUME NEW n, NEW m, NEW e, NEW s, NEW t, From(n, m, s), From(m, e, t)
    PROVE  From(n, e, s \o t)
<1>1. s \in Seq(Steps) /\ t \in Seq(Steps) /\ n \in Nat /\ m \in Nat /\ e \in Nat
  BY DEF From
<1>2. Len(s) = m - n /\ Len(t) = e - m /\ Len(s) \in Nat /\ Len(t) \in Nat
  BY <1>1 DEF From
<1>3. s \o t \in Seq(Steps) /\ Len(s \o t) = e - n
  BY <1>1, <1>2
<1>4. ASSUME NEW k \in 1 .. Len(s \o t) PROVE Placed((s \o t)[k], n + k)
  <2>1. CASE k <= Len(s)
    <3>1. (s \o t)[k] = s[k] /\ k \in 1 .. Len(s)
      BY <1>1, <1>2, <2>1
    <3> QED
      BY <3>1 DEF From
  <2>2. CASE k > Len(s)
    <3>1. (s \o t)[k] = t[k - Len(s)] /\ k - Len(s) \in 1 .. Len(t)
      BY <1>1, <1>2, <1>3, <2>2
    <3>2. Placed(t[k - Len(s)], m + (k - Len(s)))
      BY <3>1 DEF From
    <3>3. m + (k - Len(s)) = n + k
      BY <1>1, <1>2
    <3> QED
      BY <3>1, <3>2, <3>3
  <2> QED
    BY <1>2, <1>3, <2>1, <2>2
<1> QED
  BY <1>1, <1>3, <1>4 DEF From

LEMMA GdtInitPlaced == From(0, 8, gdt_init)
<1>1. From(0, 5, Times(5, "gdt_set_gate"))
  <2>1. \A k \in 1 .. 5 : Placed([op |-> "gdt_set_gate", arg |-> k - 1], 0 + k)
    BY DescriptorsAssumption DEF Placed, LidtAt
  <2>2. "gdt_set_gate" \in Ops /\ 5 = 0 + 5
    BY DEF Ops
  <2> QED
    BY <2>1, <2>2, ManySteps
<1>2. From(5, 6, Step("lgdt"))
  BY DescriptorsAssumption, OneStep DEF Ops, Placed, LidtAt
<1>3. From(6, 7, Step("load_data"))
  BY DescriptorsAssumption, OneStep DEF Ops, Placed, LidtAt
<1>4. From(7, 8, Step("far_jump"))
  BY DescriptorsAssumption, OneStep DEF Ops, Placed, LidtAt
<1> QED
  BY <1>1, <1>2, <1>3, <1>4, OneBehindOther DEF gdt_init

\* A call of kprintf() where there may be one.
LEMMA PrintPlaced ==
    ASSUME NEW n \in Nat, NEW e, e = n + 1,
           e \in {11, 12} \/ e > LidtAt, e < LidtAt + 22
    PROVE  From(n, e, Step("print"))
BY DescriptorsAssumption, OneStep DEF Ops, Placed, LidtAt

LEMMA IdtInitPlaced == From(11, LidtAt + 1, idt_init)
<1>1. LastStub \in Nat
  BY DescriptorsAssumption
<1>2. From(11, 12, Step("print")) /\ From(LidtAt, LidtAt + 1, Step("print"))
  BY <1>1, PrintPlaced DEF LidtAt
<1>3. From(12, 13, Step("memset"))
  BY DescriptorsAssumption, OneStep DEF Ops, Placed, LidtAt
<1>4. From(13, 14 + LastStub, Times(LastStub + 1, "idt_set_gate"))
  <2>1. \A k \in 1 .. (LastStub + 1) :
           Placed([op |-> "idt_set_gate", arg |-> k - 1], 13 + k)
    BY <1>1 DEF Placed, LidtAt
  <2> QED
    BY <1>1, <2>1, ManySteps DEF Ops
<1>5. From(14 + LastStub, LidtAt, Step("lidt"))
  BY <1>1, OneStep DEF Ops, Placed, LidtAt
<1> QED
  BY <1>2, <1>3, <1>4, <1>5, OneBehindOther DEF idt_init

\* Behind the gates, any number of calls of kprintf() may follow each other.
LEMMA PrintsPlaced ==
    ASSUME NEW n \in Nat, n >= LidtAt, NEW m \in Nat, NEW e, e = n + m,
           e < LidtAt + 22,
           NEW op \in {"print", "may_print"}
    PROVE  From(n, e, Times(m, op))
<1>1. \A k \in 1 .. m : Placed([op |-> op, arg |-> k - 1], n + k)
  BY DescriptorsAssumption DEF Placed, LidtAt
<1>2. op \in Ops
  BY DEF Ops
<1> QED
  BY <1>1, <1>2, ManySteps

LEMMA LastPartsPlaced ==
    /\ From(LidtAt + 1, LidtAt + 3, irq_init)
    /\ From(LidtAt + 3, LidtAt + 5, mem_print_info)
    /\ From(LidtAt + 5, LidtAt + 7, mem_initialize)
    /\ From(LidtAt + 7, LidtAt + 13, ata_init)
    /\ From(LidtAt + 13, LidtAt + 17, ata_print_info)
    /\ From(LidtAt + 19, LidtAt + 22, panic)
<1>1. LidtAt \in Nat /\ LidtAt > 9
  BY DescriptorsAssumption DEF LidtAt
<1>2. From(LidtAt + 1, LidtAt + 3, irq_init)
  BY <1>1, PrintsPlaced DEF irq_init
<1>3. From(LidtAt + 3, LidtAt + 5, mem_print_info)
  BY <1>1, PrintsPlaced DEF mem_print_info
<1>4. From(LidtAt + 6, LidtAt + 7, Step("may_panic"))
      /\ From(LidtAt + 8, LidtAt + 9, Step("may_panic"))
  BY <1>1, OneStep DEF Ops, Placed
<1>5. From(LidtAt + 5, LidtAt + 7, mem_initialize)
  <2>1. From(LidtAt + 5, LidtAt + 6, Step("print"))
    BY <1>1, PrintPlaced
  <2> QED
    BY <1>4, <2>1, OneBehindOther DEF mem_initialize
<1>6. From(LidtAt + 7, LidtAt + 13, ata_init)
  <2>1. From(LidtAt + 7, LidtAt + 8, Step("print"))
    BY <1>1, PrintPlaced
  <2>2. From(LidtAt + 9, LidtAt + 13, Times(4, "may_print"))
    BY <1>1, PrintsPlaced
  <2> QED
    BY <1>4, <2>1, <2>2, OneBehindOther DEF ata_init
<1>7. From(LidtAt + 13, LidtAt + 17, ata_print_info)
  BY <1>1, PrintsPlaced DEF ata_print_info
<1>8. From(LidtAt + 19, LidtAt + 22, panic)
  <2>1. From(LidtAt + 19, LidtAt + 21, Times(2, "print"))
    BY <1>1, PrintsPlaced
  <2>2. From(LidtAt + 21, LidtAt + 22, Step("for_ever"))
    BY <1>1, OneStep DEF Ops, Placed
  <2> QED
    BY <2>1, <2>2, OneBehindOther DEF panic
<1> QED
  BY <1>2, <1>3, <1>5, <1>6, <1>7, <1>8

\* Every step of kernel_main() is where it is expected to be.
LEMMA ProgramPlaced ==
    /\ From(0, LidtAt + 22, Program)
    /\ PanicAt = LidtAt + 20
<1>1. From(8, 9, Step("display_register"))
  BY DescriptorsAssumption, OneStep DEF Ops, Placed, LidtAt
<1>2. From(9, 10, Step("check_magic"))
  BY DescriptorsAssumption, OneStep DEF Ops, Placed, LidtAt
<1>3. From(10, 11, Step("print"))
  BY DescriptorsAssumption, PrintPlaced DEF LidtAt
<1>4. LidtAt \in Nat
  BY DescriptorsAssumption DEF LidtAt
<1>5. From(LidtAt + 17, LidtAt + 18, Step("print"))
  BY <1>4, PrintPlaced
<1>6. From(LidtAt + 18, LidtAt + 19, Step("end"))
  BY <1>4, OneStep DEF Ops, Placed
<1>7. From(0, LidtAt + 19, kernel_main)
  BY <1>1, <1>2, <1>3, <1>5, <1>6, GdtInitPlaced, IdtInitPlaced,
     LastPartsPlaced, OneBehindOther DEF kernel_main
<1>8. From(0, LidtAt + 22, Program)
  BY <1>7, LastPartsPlaced, OneBehindOther DEF Program
<1>9. PanicAt = LidtAt + 20
  BY <1>4, <1>7 DEF From, PanicAt
<1> QED
  BY <1>8, <1>9

\* What the step kernel_main() is about to take says about where it is.
LEMMA WhereItIs ==
    ASSUME at \in 1 .. (LidtAt + 22)
    PROVE  Placed(Program[at], at)
<1>1. LidtAt \in Nat
  BY DescriptorsAssumption DEF LidtAt
<1>2. Len(Program) = LidtAt + 22
  BY <1>1, ProgramPlaced DEF From
<1>3. Placed(Program[at], 0 + at)
  BY <1>2, ProgramPlaced DEF From
<1> QED
  BY <1>1, <1>3

-------------------------------------------------------------------------------
(***************************************************************************)
(* The tables are filled in the order of the steps, and loaded when full.  *)
(***************************************************************************)

SegmentsUpTo(n) ==
    [s \in 0 .. 4 |-> IF s < n THEN SegmentEntry(s) ELSE EmptyEntry]

GatesUpTo(n) ==
    [v \in 0 .. (IDT_ENTRIES - 1) |-> IF v < n THEN StubEntry(v) ELSE EmptyEntry]

\* kernel_main() is at a step; segments and gates are there as far as the
\* steps in front of it have made them (a panic may have skipped the gates).
SetUpSoFar ==
    /\ at \in 1 .. (LidtAt + 22)
    /\ g_gdt_entries = SegmentsUpTo(at - 1)
    /\ gdtr = IF at > 6 THEN 39 ELSE NoTable
    /\ at \in 14 .. LidtAt => g_idt = GatesUpTo(at - 14)

\* A gate table is in use only when it is full, and nothing is handled, and
\* nothing reset by an exception for want of it, otherwise.
GatesInUse ==
    /\ idtr = NoTable => Len(pcs) = 1 /\ pcs[1] \notin {"leave", "iret"}
    /\ idtr # NoTable => /\ at > LidtAt
                         /\ idtr = 8 * IDT_ENTRIES - 1
                         /\ g_idt = GatesUpTo(LastStub + 1)
    /\ reset => idtr = NoTable

KernelInv ==
    /\ SetUpSoFar
    /\ GatesInUse
    /\ SegmentsFlat
    /\ at <= 10 => pcs[Len(pcs)] = "working"

LEMMA KernelInitInv == KernelInit => KernelInv
<1> SUFFICES ASSUME KernelInit PROVE KernelInv
  OBVIOUS
<1>1. LidtAt \in Nat /\ LidtAt > 10
  BY DescriptorsAssumption DEF LidtAt
<1>2. g_gdt_entries = SegmentsUpTo(0)
  BY DEF KernelInit, TablesInit, SegmentsUpTo
<1>3. SetUpSoFar
  BY <1>1, <1>2 DEF KernelInit, TablesInit, SetUpSoFar
<1>4. GatesInUse
  BY DEF KernelInit, TablesInit, Init, GatesInUse
<1>5. SegmentsFlat
  BY DEF KernelInit, TablesInit, SegmentsFlat
<1> QED
  BY <1>3, <1>4, <1>5 DEF KernelInit, Init, KernelInv

\* While no exception is handled, kernel_main() alone moves on.
LEMMA NoHandlerYet ==
    ASSUME LockInv, KernelInv, idtr = NoTable, NEW pc, GoTo(pc),
           pc \notin {"leave", "iret"}
    PROVE  Len(pcs') = 1 /\ pcs'[1] \notin {"leave", "iret"} /\ pcs'[1] = pc
<1>1. Len(pcs) = 1 /\ pcs \in Seq(Pcs)
  BY DEF KernelInv, GatesInUse, LockInv, PcsType
<1>2. pcs' = [pcs EXCEPT ![1] = pc]
  BY <1>1 DEF GoTo
<1> QED
  BY <1>1, <1>2

\* Loaded segments are flat ones, from gdt_flush() on.
LEMMA LoadedSegments ==
    ASSUME SetUpSoFar, at > 5
    PROVE  SegmentAt(8) = FlatSegment(TRUE) /\ SegmentAt(16) = FlatSegment(FALSE)
<1>1. at \in Nat
  BY DescriptorsAssumption DEF SetUpSoFar, LidtAt
<1>2. g_gdt_entries[1] = SegmentEntry(1) /\ g_gdt_entries[2] = SegmentEntry(2)
  BY <1>1 DEF SetUpSoFar, SegmentsUpTo
<1>3. 8 \div 8 = 1 /\ 16 \div 8 = 2
  OBVIOUS
<1> QED
  BY <1>2, <1>3, SegmentsReadFlat DEF SegmentAt

\* Every exception that has a stub is delivered to it.
LEMMA GatesDeliver ==
    ASSUME SetUpSoFar, GatesInUse, idtr # NoTable, NEW v \in 0 .. LastStub
    PROVE  /\ Deliverable(v)
           /\ GateOf(g_idt[v]) = StubGate(v)
<1>1. v \in 0 .. (IDT_ENTRIES - 1) /\ v < LastStub + 1 /\ v \in Nat
  BY DescriptorsAssumption
<1>2. GateOf(g_idt[v]) = StubGate(v)
  BY <1>1, GatesReadStubs DEF GatesInUse, GatesUpTo
<1>3. at > 5 /\ at > 6
  BY DescriptorsAssumption DEF GatesInUse, SetUpSoFar, LidtAt
<1>4. 8 * v + 7 <= idtr
  BY <1>1, DescriptorsAssumption DEF GatesInUse
<1>5. gdtr = 39
  BY <1>3 DEF SetUpSoFar
<1>6. GateOf(g_idt[v]).selector = 8 /\ GateOf(g_idt[v]).present
  BY <1>2 DEF StubGate, KERNEL_CODE_SEGMENT_INDEX
<1>7. SegmentAt(8) = FlatSegment(TRUE)
  BY <1>3, LoadedSegments
<1>8. SegmentAt(8).present /\ SegmentAt(8).code
  BY <1>7 DEF FlatSegment
<1>9. Selectable(8)
  BY <1>5 DEF Selectable
<1> QED
  BY <1>2, <1>4, <1>6, <1>8, <1>9 DEF Deliverable

\* A step of kernel_main() that leaves the tables alone is no step between
\* the first gate and the lidt, and ends behind it or at the first gate.
LEMMA NextStepInv ==
    ASSUME KernelInv, UNCHANGED <<tables, reset>>,
           at > 8, at' \in {at + 1, LidtAt + 20}, at' < LidtAt + 23,
           at < 13 \/ at > LidtAt, at = 12 => at' # 14,
           at' <= 10 => UNCHANGED pcs,
           idtr = NoTable => Len(pcs') = 1 /\ pcs'[1] \notin {"leave", "iret"}
    PROVE  KernelInv'
<1>1. LidtAt \in Nat /\ LidtAt > 13 /\ at \in Nat
  BY DescriptorsAssumption DEF LidtAt, KernelInv, SetUpSoFar
<1>2. g_gdt_entries = SegmentsUpTo(at' - 1)
  BY <1>1 DEF KernelInv, SetUpSoFar, SegmentsUpTo
<1>3. SetUpSoFar'
  BY <1>1, <1>2 DEF KernelInv, SetUpSoFar, tables, SegmentsUpTo
<1>4. GatesInUse'
  BY <1>1 DEF KernelInv, GatesInUse, tables, GatesUpTo
<1>5. SegmentsFlat' /\ (at' <= 10 => pcs'[Len(pcs')] = "working")
  BY <1>1 DEF KernelInv, SegmentsFlat, tables
<1> QED
  BY <1>3, <1>4, <1>5 DEF KernelInv

LEMMA SetUpTablesInv ==
    ASSUME KernelInv, SetUpTables
    PROVE  KernelInv'
<1>1. /\ LidtAt \in Nat /\ LidtAt > 13 /\ at \in Nat
      /\ LastStub \in Nat /\ LidtAt = 15 + LastStub
  BY DescriptorsAssumption DEF LidtAt, KernelInv, SetUpSoFar
<1>2. Placed(Program[at], at) /\ at' = at + 1 /\ UNCHANGED vars
  BY WhereItIs DEF KernelInv, SetUpSoFar, SetUpTables
<1>3. reset' = FALSE /\ reset = FALSE /\ UNCHANGED pcs
      /\ Pc = "working"
  BY <1>2 DEF SetUpTables, Takes, vars
<1>4. ASSUME at < 11 PROVE idtr = NoTable /\ (at + 1 <= 10 => pcs'[Len(pcs')] = "working")
  BY <1>1, <1>3, <1>4 DEF KernelInv, GatesInUse, Pc
<1>5. CASE Takes("gdt_set_gate") /\ gdt_set_gate(Program[at].arg)
  <2>1. at \in 1 .. 5 /\ Program[at].arg = at - 1
    BY <1>2, <1>5 DEF Placed, Takes
  <2>2. g_gdt_entries' = [g_gdt_entries EXCEPT ![at - 1] = SegmentEntry(at - 1)]
    BY <1>5, <2>1 DEF gdt_set_gate, SegmentEntry
  <2>3. g_gdt_entries' = SegmentsUpTo(at)
    <3>1. g_gdt_entries = SegmentsUpTo(at - 1)
      BY DEF KernelInv, SetUpSoFar
    <3>2. \A s \in 0 .. 4 : s < at <=> s < at - 1 \/ s = at - 1
      BY <1>1
    <3>3. \A s \in 0 .. 4 :
             g_gdt_entries'[s] = IF s < at THEN SegmentEntry(s) ELSE EmptyEntry
      BY <2>1, <2>2, <3>1, <3>2 DEF SegmentsUpTo
    <3>4. g_gdt_entries' = [s \in 0 .. 4 |-> g_gdt_entries'[s]]
      BY <2>2, <3>1 DEF SegmentsUpTo
    <3> QED
      BY <3>3, <3>4, Zenon DEF SegmentsUpTo
  <2>4. SetUpSoFar'
    <3>1. at' - 1 = at /\ at' \in 2 .. 6 /\ UNCHANGED <<gdtr, g_idt>>
      BY <1>2, <1>5, <2>1 DEF gdt_set_gate
    <3>2. gdtr = NoTable
      BY <2>1 DEF KernelInv, SetUpSoFar
    <3>3. g_gdt_entries' = SegmentsUpTo(at' - 1)
      BY <2>3, <3>1
    <3> QED
      BY <1>1, <3>1, <3>2, <3>3 DEF SetUpSoFar
  <2> QED
    BY <1>1, <1>2, <1>3, <1>4, <1>5, <2>1, <2>4
       DEF KernelInv, GatesInUse, SegmentsFlat, gdt_set_gate
<1>6. CASE Takes("lgdt") /\ lgdt
  <2>1. at = 6
    BY <1>2, <1>6 DEF Placed, Takes
  <2>2. SetUpSoFar'
    BY <1>1, <1>2, <1>6, <2>1 DEF KernelInv, SetUpSoFar, lgdt, SegmentsUpTo
  <2> QED
    BY <1>1, <1>2, <1>3, <1>4, <1>6, <2>1, <2>2
       DEF KernelInv, GatesInUse, SegmentsFlat, lgdt
<1>7. CASE Takes("load_data") /\ LoadDataSegments
  <2>1. at = 7
    BY <1>2, <1>7 DEF Placed, Takes
  <2>2. SetUpSoFar'
    BY <1>1, <1>2, <1>7, <2>1 DEF KernelInv, SetUpSoFar, LoadDataSegments, SegmentsUpTo
  <2>3. SegmentsFlat'
    <3>1. SetUpSoFar /\ at > 5
      BY <2>1 DEF KernelInv
    <3>2. SegmentAt(16) = FlatSegment(FALSE)
      BY <3>1, LoadedSegments
    <3> QED
      BY <1>7, <3>2 DEF KernelInv, SegmentsFlat, LoadDataSegments
  <2> QED
    BY <1>1, <1>2, <1>3, <1>4, <1>7, <2>1, <2>2, <2>3
       DEF KernelInv, GatesInUse, LoadDataSegments
<1>8. CASE Takes("far_jump") /\ FarJump
  <2>1. at = 8
    BY <1>2, <1>8 DEF Placed, Takes
  <2>2. SetUpSoFar'
    BY <1>1, <1>2, <1>8, <2>1 DEF KernelInv, SetUpSoFar, FarJump, SegmentsUpTo
  <2>3. SegmentsFlat'
    <3>1. SetUpSoFar /\ at > 5
      BY <2>1 DEF KernelInv
    <3>2. SegmentAt(8) = FlatSegment(TRUE)
      BY <3>1, LoadedSegments
    <3> QED
      BY <1>8, <3>2 DEF KernelInv, SegmentsFlat, FarJump
  <2> QED
    BY <1>1, <1>2, <1>3, <1>4, <1>8, <2>1, <2>2, <2>3
       DEF KernelInv, GatesInUse, FarJump
<1>9. CASE Takes("memset") /\ ClearIdt
  <2>1. at = 13
    BY <1>2, <1>9 DEF Placed, Takes
  <2>2. g_idt' = GatesUpTo(0)
    BY <1>9, DescriptorsAssumption DEF ClearIdt, GatesUpTo
  <2>3. SetUpSoFar'
    BY <1>1, <1>2, <1>9, <2>1, <2>2 DEF KernelInv, SetUpSoFar, ClearIdt, SegmentsUpTo
  <2>4. idtr = NoTable
    BY <1>1, <2>1 DEF KernelInv, GatesInUse
  <2> QED
    BY <1>1, <1>2, <1>3, <1>9, <2>1, <2>3, <2>4
       DEF KernelInv, GatesInUse, SegmentsFlat, ClearIdt
<1>10. CASE Takes("idt_set_gate") /\ idt_set_gate(Program[at].arg)
  <2>1. at \in 14 .. (14 + LastStub) /\ Program[at].arg = at - 14
    BY <1>2, <1>10 DEF Placed, Takes
  <2>2. g_idt' = [g_idt EXCEPT ![at - 14] = StubEntry(at - 14)]
    BY <1>10, <2>1 DEF idt_set_gate, StubEntry
  <2>3. g_idt' = GatesUpTo(at - 13)
    <3> DEFINE V == 0 .. (IDT_ENTRIES - 1)
    <3>1. g_idt = GatesUpTo(at - 14)
      BY <1>1, <2>1 DEF KernelInv, SetUpSoFar
    <3>2. \A v \in V : v < at - 13 <=> v < at - 14 \/ v = at - 14
      BY <1>1, DescriptorsAssumption
    <3>3. at - 14 \in V
      BY <1>1, <2>1, DescriptorsAssumption
    <3>4. \A v \in V : g_idt'[v] = IF v < at - 13 THEN StubEntry(v) ELSE EmptyEntry
      BY <2>2, <3>1, <3>2 DEF GatesUpTo
    <3>5. g_idt' = [v \in V |-> g_idt'[v]]
      BY <2>2, <3>1 DEF GatesUpTo
    <3> QED
      BY <3>4, <3>5, Zenon DEF GatesUpTo
  <2>4. SetUpSoFar'
    <3>1. /\ at' - 14 = at - 13 /\ at' \in 15 .. LidtAt /\ at' > 6 /\ at > 6
          /\ UNCHANGED <<g_gdt_entries, gdtr>>
      BY <1>1, <1>2, <1>10, <2>1 DEF idt_set_gate
    <3>2. SegmentsUpTo(at' - 1) = SegmentsUpTo(at - 1)
      BY <1>1, <1>2, <2>1 DEF SegmentsUpTo
    <3>3. g_idt' = GatesUpTo(at' - 14)
      BY <2>3, <3>1
    <3> QED
      BY <1>1, <3>1, <3>2, <3>3 DEF KernelInv, SetUpSoFar
  <2>5. idtr = NoTable
    BY <1>1, <2>1 DEF KernelInv, GatesInUse
  <2> QED
    BY <1>1, <1>2, <1>3, <1>10, <2>1, <2>4, <2>5
       DEF KernelInv, GatesInUse, SegmentsFlat, idt_set_gate
<1>11. CASE Takes("lidt") /\ idt_update_lidt
  <2>1. at = LidtAt
    BY <1>2, <1>11 DEF Placed, Takes
  <2>2. g_idt = GatesUpTo(LastStub + 1)
    BY <1>1, <2>1 DEF KernelInv, SetUpSoFar
  <2>3. SetUpSoFar'
    BY <1>1, <1>2, <1>11, <2>1 DEF KernelInv, SetUpSoFar, idt_update_lidt, SegmentsUpTo
  <2>4. 8 * IDT_ENTRIES - 1 # NoTable
    BY DescriptorsAssumption DEF NoTable
  <2>5. GatesInUse'
    BY <1>1, <1>2, <1>3, <1>11, <2>1, <2>2, <2>4
       DEF GatesInUse, idt_update_lidt, GatesUpTo
  <2> QED
    BY <1>1, <1>2, <1>11, <2>1, <2>3, <2>5 DEF KernelInv, SegmentsFlat, idt_update_lidt
<1> QED
  BY <1>5, <1>6, <1>7, <1>8, <1>9, <1>10, <1>11 DEF SetUpTables

\* A step that loads the kernel's segments again, once the gates are in use.
LEMMA ReloadInv ==
    ASSUME KernelInv, idtr # NoTable, ~reset',
           UNCHANGED <<at, g_gdt_entries, gdtr, g_idt, idtr>>,
           cs' \in {cs, SegmentAt(8)}, ds' \in {ds, SegmentAt(16)}
    PROVE  KernelInv'
<1>1. /\ LidtAt \in Nat /\ LidtAt > 13 /\ at \in Nat
      /\ SetUpSoFar /\ GatesInUse /\ SegmentsFlat
  BY DescriptorsAssumption DEF LidtAt, KernelInv, SetUpSoFar
<1>2. at > LidtAt /\ at > 5
  BY <1>1 DEF GatesInUse
<1>3. SegmentAt(8) = FlatSegment(TRUE) /\ SegmentAt(16) = FlatSegment(FALSE)
  BY <1>1, <1>2, LoadedSegments
<1>4. SegmentsFlat'
  BY <1>1, <1>3 DEF SegmentsFlat
<1>5. SetUpSoFar'
  BY <1>1 DEF SetUpSoFar, SegmentsUpTo
<1>6. GatesInUse'
  BY <1>1 DEF GatesInUse, GatesUpTo
<1> QED
  BY <1>1, <1>2, <1>4, <1>5, <1>6 DEF KernelInv

\* A step of a context that leaves the tables alone.
LEMMA ContextStepInv ==
    ASSUME KernelInv, UNCHANGED <<at, tables, reset>>,
           at <= 10 => UNCHANGED pcs,
           idtr = NoTable => Len(pcs') = 1 /\ pcs'[1] \notin {"leave", "iret"}
    PROVE  KernelInv'
<1>1. SetUpSoFar'
  BY DEF KernelInv, SetUpSoFar, tables, SegmentsUpTo
<1>2. GatesInUse'
  BY DEF KernelInv, GatesInUse, tables, GatesUpTo
<1> QED
  BY <1>1, <1>2 DEF KernelInv, SegmentsFlat, tables

LEMMA HandlerNeedsGates ==
    ASSUME KernelInv, LockInv, Pc \in {"leave", "iret"}
    PROVE  idtr # NoTable
BY DEF KernelInv, GatesInUse, LockInv, PcsType, Pc

LEMMA MainStepInv ==
    ASSUME KernelInv, LockInv,
           display_register \/ CheckMagic \/ MayPanic \/ SkipPrint \/ KernelPrint
    PROVE  KernelInv'
<1>1. /\ LidtAt \in Nat /\ LidtAt > 13 /\ at \in Nat /\ at < LidtAt + 23
      /\ Placed(Program[at], at)
  BY DescriptorsAssumption, WhereItIs DEF LidtAt, KernelInv, SetUpSoFar
<1>2. UNCHANGED <<tables, reset>>
  BY DEF display_register, CheckMagic, MayPanic, SkipPrint, KernelPrint, Takes
<1>3. at' \in {at + 1, LidtAt + 20}
  BY ProgramPlaced DEF display_register, CheckMagic, MayPanic, SkipPrint, KernelPrint
<1>4. /\ Program[at].op # "for_ever"
      /\ at \in {9, 10, 11, 12} \/ at > LidtAt
  BY <1>1 DEF display_register, CheckMagic, MayPanic, SkipPrint, KernelPrint,
              Takes, Placed
<1>5. at' < LidtAt + 23
  BY <1>1, <1>3, <1>4 DEF Placed
<1>6. at' <= 10 => UNCHANGED pcs
  <2>1. CASE KernelPrint
    <3>1. at > 10
      BY <1>1, <2>1 DEF KernelPrint, Takes, Placed
    <3> QED
      BY <1>1, <1>3, <3>1
  <2> QED
    BY <2>1 DEF display_register, CheckMagic, MayPanic, SkipPrint, vars
<1>7. idtr = NoTable => Len(pcs') = 1 /\ pcs'[1] \notin {"leave", "iret"}
  <2>1. CASE KernelPrint
    BY <2>1, NoHandlerYet DEF KernelPrint, CallKprintf
  <2>2. CASE UNCHANGED vars
    BY <2>2 DEF vars, KernelInv, GatesInUse
  <2> QED
    BY <2>1, <2>2 DEF display_register, CheckMagic, MayPanic, SkipPrint
<1> QED
  BY <1>1, <1>2, <1>3, <1>4, <1>5, <1>6, <1>7, NextStepInv

LEMMA InKprintfInv ==
    ASSUME KernelInv, LockInv, InKprintf
    PROVE  KernelInv'
<1>1. UNCHANGED <<at, tables, reset>>
  BY DEF InKprintf
<1>2. ASSUME idtr = NoTable PROVE Len(pcs') = 1 /\ pcs'[1] \notin {"leave", "iret"}
  <2>1. Running = 0
    BY <1>2 DEF KernelInv, GatesInUse, Running
  <2>2. CASE SeeUnlocked
    BY <1>2, <2>2, NoHandlerYet DEF SeeUnlocked
  <2>3. CASE mutex_lock
    BY <1>2, <2>3, NoHandlerYet DEF mutex_lock
  <2>4. CASE PrintHalf
    <3>1. PICK pc \in {"second half", "unlock"} : GoTo(pc)
      BY <2>4 DEF PrintHalf
    <3> QED
      BY <1>2, <3>1, NoHandlerYet
  <2>5. CASE mutex_unlock
    <3>1. GoTo("working")
      BY <2>1, <2>5 DEF mutex_unlock, GoTo
    <3> QED
      BY <1>2, <3>1, NoHandlerYet
  <2> QED
    BY <2>1, <2>2, <2>3, <2>4, <2>5 DEF InKprintf
<1>3. ASSUME at <= 10 PROVE FALSE
  <2>1. idtr = NoTable
    BY <1>3, DescriptorsAssumption DEF KernelInv, GatesInUse, SetUpSoFar, LidtAt
  <2>2. Running = 0 /\ Pc = "working"
    BY <1>3, <2>1 DEF KernelInv, GatesInUse, Running, Pc
  <2> QED
    BY <2>2 DEF InKprintf, SeeUnlocked, mutex_lock, PrintHalf, mutex_unlock
<1> QED
  BY <1>1, <1>2, <1>3, ContextStepInv

LEMMA GoBackInv ==
    ASSUME KernelInv, LockInv, GoBack
    PROVE  KernelInv'
<1>1. idtr # NoTable
  BY HandlerNeedsGates DEF GoBack, LeaveHandler, Return
<1>2. /\ UNCHANGED <<at, g_gdt_entries, gdtr, g_idt, idtr>> /\ ~reset'
      /\ cs' \in {cs, SegmentAt(8)} /\ ds' \in {ds, SegmentAt(16)}
  BY DEF GoBack, RestoreData, RestoreCode, KERNEL_CODE_SEGMENT_INDEX,
         KERNEL_DATA_SEGMENT_INDEX
<1> QED
  BY <1>1, <1>2, ReloadInv

\* The gate of an exception leads into the kernel's code segment.
LEMMA LoadForHandlerInv ==
    ASSUME KernelInv, idtr # NoTable, NEW v \in 0 .. LastStub,
           LoadForHandler(v), at' = at, ~reset'
    PROVE  KernelInv'
<1>1. GateOf(g_idt[v]) = StubGate(v)
  BY GatesDeliver DEF KernelInv
<1>2. GateOf(g_idt[v]).selector = 8
  BY <1>1 DEF StubGate, KERNEL_CODE_SEGMENT_INDEX
<1> QED
  BY <1>2, ReloadInv DEF LoadForHandler, KERNEL_DATA_SEGMENT_INDEX

LEMMA ExceptionInv ==
    ASSUME KernelInv, Exception
    PROVE  KernelInv'
<1>1. PICK v \in Vectors :
         \/ Deliverable(v) /\ Interrupt(v) /\ LoadForHandler(v) /\ UNCHANGED reset
         \/ ~Deliverable(v) /\ reset' = TRUE /\ UNCHANGED <<vars, tables>>
  BY DEF Exception
<1>2. at' = at /\ ~reset /\ v \in 0 .. LastStub
  BY KernelAssumption DEF Exception
<1>3. CASE Deliverable(v) /\ LoadForHandler(v) /\ UNCHANGED reset
  <2>1. v \in Nat /\ 8 * v + 7 <= idtr
    BY <1>2, <1>3, DescriptorsAssumption DEF Deliverable
  <2>2. idtr # NoTable
    BY <2>1 DEF NoTable
  <2> QED
    BY <1>2, <1>3, <2>2, LoadForHandlerInv
<1>4. CASE ~Deliverable(v) /\ reset' = TRUE /\ UNCHANGED <<vars, tables>>
  <2>1. idtr = NoTable
    BY <1>2, <1>4, GatesDeliver DEF KernelInv
  <2>2. SetUpSoFar'
    BY <1>2, <1>4 DEF KernelInv, SetUpSoFar, tables, SegmentsUpTo
  <2>3. GatesInUse'
    BY <1>4, <2>1 DEF KernelInv, GatesInUse, tables, vars
  <2> QED
    BY <1>2, <1>4, <2>2, <2>3 DEF KernelInv, SegmentsFlat, tables, vars
<1> QED
  BY <1>1, <1>3, <1>4

LEMMA KernelStepInv ==
    ASSUME KernelInv, LockInv, [KernelNext]_kernelVars
    PROVE  KernelInv'
<1>1. CASE FaultAtIret
  <2>1. idtr # NoTable
    BY <1>1, HandlerNeedsGates DEF FaultAtIret, IretFault
  <2>2. GeneralProtection \in 0 .. LastStub
    BY KernelAssumption
  <2> QED
    BY <1>1, <2>1, <2>2, LoadForHandlerInv DEF FaultAtIret
<1>2. CASE UNCHANGED kernelVars
  <2>1. idtr = NoTable => Len(pcs') = 1 /\ pcs'[1] \notin {"leave", "iret"}
    BY <1>2 DEF kernelVars, vars, KernelInv, GatesInUse
  <2> QED
    BY <1>2, <2>1, ContextStepInv DEF kernelVars, vars
<1> QED
  BY <1>1, <1>2, SetUpTablesInv, MainStepInv, InKprintfInv, GoBackInv, ExceptionInv
     DEF KernelNext, Runs

LEMMA KernelInvHolds == KernelSpec => []KernelInv
BY KernelInitInv, KernelStepInv, KernelLockInv, PTL DEF KernelSpec

\* With every number of gates and stubs, and wherever an exception comes,
\* code and data are addressed by flat segments (gdt.c:7-75, idt.s:77-81).
THEOREM SegmentsStayFlat == KernelSpec => []SegmentsFlat
<1>1. KernelInv => SegmentsFlat
  BY DEF KernelInv
<1> QED
  BY <1>1, KernelInvHolds, PTL

\* With every number of gates and stubs, an exception resets the machine only
\* before the lidt, and behind it goes to its own stub (idt.c:110-193).
THEOREM ExceptionsHaveStubs == KernelSpec => []ExceptionsReachStubs
<1>1. KernelInv => ExceptionsReachStubs
  BY GatesDeliver DEF KernelInv, ExceptionsReachStubs, GatesInUse
<1> QED
  BY <1>1, KernelInvHolds, PTL

-------------------------------------------------------------------------------
(***************************************************************************)
(* The display.                                                            *)
(***************************************************************************)

\* The display is the ninth thing that kernel_main() sets up.
DisplayInv == displays = IF at > 9 THEN 1 ELSE 0

LEMMA DisplayStep ==
    ASSUME DisplayInv, KernelInv, [KernelNext]_kernelVars
    PROVE  DisplayInv'
<1>1. at \in Nat /\ Placed(Program[at], at)
  BY WhereItIs, DescriptorsAssumption DEF KernelInv, SetUpSoFar, LidtAt
<1>2. CASE display_register
  BY <1>1, <1>2 DEF display_register, Takes, Placed, DisplayInv
<1>3. CASE SetUpTables
  <2>1. Program[at].op \in {"gdt_set_gate", "lgdt", "load_data", "far_jump",
                            "memset", "idt_set_gate", "lidt"}
    BY <1>3 DEF SetUpTables, Takes
  <2>2. at # 9
    BY <1>1, <2>1, DescriptorsAssumption DEF Placed, LidtAt
  <2>3. at' = at + 1 /\ UNCHANGED displays
    BY <1>3 DEF SetUpTables
  <2> QED
    BY <1>1, <2>2, <2>3 DEF DisplayInv
<1>4. CASE CheckMagic \/ MayPanic \/ SkipPrint \/ KernelPrint
  <2>1. at > 9
    BY <1>1, <1>4, DescriptorsAssumption
       DEF CheckMagic, MayPanic, SkipPrint, KernelPrint, Takes, Placed, LidtAt
  <2>2. at' > 9 /\ UNCHANGED displays
    <3>1. PanicAt > 9
      BY ProgramPlaced, DescriptorsAssumption DEF LidtAt
    <3> QED
      BY <1>1, <1>4, <2>1, <3>1 DEF CheckMagic, MayPanic, SkipPrint, KernelPrint
  <2> QED
    BY <2>1, <2>2 DEF DisplayInv
<1>5. CASE UNCHANGED <<at, displays>>
  BY <1>5 DEF DisplayInv
<1>6. CASE InKprintf \/ GoBack \/ FaultAtIret \/ Exception
  BY <1>5, <1>6 DEF InKprintf, GoBack, FaultAtIret, Exception
<1>7. CASE UNCHANGED kernelVars
  BY <1>5, <1>7 DEF kernelVars
<1> QED
  BY <1>2, <1>3, <1>4, <1>6, <1>7 DEF KernelNext, Runs

\* Wherever an exception comes and however the start fails, what is printed
\* finds a display (main.c:43-50, display.c:26-44).
THEOREM NothingIsPrintedUnseen == KernelSpec => []NothingPrintedUnseen
<1>1. KernelInit => DisplayInv
  BY DEF KernelInit, DisplayInv
<1>2. DisplayInv /\ KernelInv /\ [KernelNext]_kernelVars => DisplayInv'
  BY DisplayStep
<1>3. DisplayInv /\ KernelInv => NothingPrintedUnseen
  <2> SUFFICES ASSUME DisplayInv, KernelInv, Pc \in Printing
               PROVE  displays > 0
    BY DEF NothingPrintedUnseen
  <2>1. ~(at <= 10)
    BY Zenon DEF KernelInv, Pc, Printing
  <2>2. at \in Nat
    BY DescriptorsAssumption DEF KernelInv, SetUpSoFar, LidtAt
  <2> QED
    BY <2>1, <2>2 DEF DisplayInv
<1> QED
  BY <1>1, <1>2, <1>3, KernelInvHolds, PTL DEF KernelSpec

-------------------------------------------------------------------------------
(***************************************************************************)
(* The types.                                                              *)
(***************************************************************************)

LEMMA SegmentEntriesAreEntries == \A s \in 0 .. 4 : SegmentEntry(s) \in Entries
<1>1. SegmentEntry(0) \in Entries
  BY DEF SegmentEntry, gdt_entry_t, Zero, Entries, Byte
<1>2. ASSUME NEW access \in Byte
      PROVE  gdt_entry_t(Zero, Ones, access, 12) \in Entries
  <2>1. gdt_entry_t(Zero, Ones, access, 12) = << 255, 255, 0, 0, 0, access, 207, 0 >>
    BY DEF gdt_entry_t, Zero, Ones
  <2> QED
    BY <2>1 DEF Entries, Byte
<1>3. \A s \in 1 .. 4 : SegmentAccess[s] \in Byte
  BY DEF SegmentAccess, ACCESS_FLAG_IS_EXECUTABLE,
         ACCESS_FLAG_CODE_SEGMENT_READABLE, ACCESS_FLAG_DATA_SEGMENT_WRITABLE,
         ACCESS_FLAG_IS_CODE_OR_DATA, ACCESS_FLAG_IS_PRESENT,
         ACCESS_FLAG_RING_3, Byte
<1>4. ASSUME NEW s \in 1 .. 4 PROVE SegmentEntry(s) \in Entries
  <2>1. GDT_FLAG_IS_32_BITS + GDT_FLAG_4KB_GRANULARITY = 12 /\ s # 0
    BY DEF GDT_FLAG_IS_32_BITS, GDT_FLAG_4KB_GRANULARITY
  <2> QED
    BY <1>2, <1>3, <2>1 DEF SegmentEntry
<1> QED
  BY <1>1, <1>4

LEMMA GateEntriesAreEntries ==
    /\ EmptyEntry \in Entries
    /\ \A v \in 0 .. LastStub : StubEntry(v) \in Entries
<1>1. EmptyEntry \in Entries
  BY DEF EmptyEntry, Entries, Byte
<1>2. ASSUME NEW v \in 0 .. LastStub PROVE StubEntry(v) \in Entries
  <2>1. isr[v] \in [1 .. 4 -> Byte]
    BY DescriptorsAssumption DEF U32
  <2>2. StubEntry(v) = << isr[v][1], isr[v][2], 8, 0, 0, 142, isr[v][3], isr[v][4] >>
    BY DEF StubEntry, idt_entry_t, KERNEL_CODE_SEGMENT_INDEX
  <2>3. /\ isr[v][1] \in Byte /\ isr[v][2] \in Byte
        /\ isr[v][3] \in Byte /\ isr[v][4] \in Byte
    BY <2>1
  <2>4. 8 \in Byte /\ 0 \in Byte /\ 142 \in Byte
    BY DEF Byte
  <2>5. ASSUME NEW a \in Byte, NEW b \in Byte, NEW c \in Byte, NEW d \in Byte,
               NEW e \in Byte, NEW f \in Byte, NEW g \in Byte, NEW h \in Byte
        PROVE  << a, b, c, d, e, f, g, h >> \in [1 .. 8 -> Byte]
    OBVIOUS
  <2>6. << isr[v][1], isr[v][2], 8, 0, 0, 142, isr[v][3], isr[v][4] >> \in Entries
    BY <2>3, <2>4, <2>5, Zenon DEF Entries
  <2> QED
    BY <2>2, <2>6, Zenon
<1> QED
  BY <1>1, <1>2

\* What the types need beside KernelInv, which knows nothing of the gates
\* while they are not in use.
GatesInv ==
    /\ g_idt \in [0 .. (IDT_ENTRIES - 1) -> Entries]
    /\ magic \in BOOLEAN /\ reset \in BOOLEAN

LEMMA GatesStep ==
    ASSUME GatesInv, KernelInv, [KernelNext]_kernelVars
    PROVE  GatesInv'
<1>1. CASE SetUpTables
  <2>1. magic' = magic /\ reset' = reset
    BY <1>1 DEF SetUpTables, Takes
  <2>2. g_idt' \in [0 .. (IDT_ENTRIES - 1) -> Entries]
    <3>1. CASE Takes("idt_set_gate") /\ idt_set_gate(Program[at].arg)
      <4>1. Program[at].arg \in 0 .. LastStub
        BY <3>1, WhereItIs, DescriptorsAssumption
           DEF Placed, Takes, KernelInv, SetUpSoFar, LidtAt
      <4>2. g_idt' = [g_idt EXCEPT ![Program[at].arg] = StubEntry(Program[at].arg)]
        BY <3>1 DEF idt_set_gate, StubEntry
      <4> QED
        BY <4>1, <4>2, GateEntriesAreEntries DEF GatesInv
    <3>2. CASE ClearIdt
      BY <3>2, GateEntriesAreEntries DEF ClearIdt
    <3>3. CASE UNCHANGED g_idt
      BY <3>3 DEF GatesInv
    <3> QED
      BY <1>1, <3>1, <3>2, <3>3
         DEF SetUpTables, gdt_set_gate, lgdt, LoadDataSegments, FarJump,
             idt_update_lidt
  <2> QED
    BY <2>1, <2>2 DEF GatesInv
<1>2. ASSUME UNCHANGED <<g_idt, magic>>, reset' \in {reset, TRUE} PROVE GatesInv'
  BY <1>2 DEF GatesInv
<1>3. CASE display_register \/ CheckMagic \/ MayPanic \/ SkipPrint \/ KernelPrint
  BY <1>2, <1>3 DEF display_register, CheckMagic, MayPanic, SkipPrint,
                    KernelPrint, Takes, tables
<1>4. CASE InKprintf \/ GoBack \/ FaultAtIret
  BY <1>2, <1>4 DEF InKprintf, GoBack, FaultAtIret, RestoreData, RestoreCode,
                    LoadForHandler, tables
<1>5. CASE Exception
  BY <1>2, <1>5 DEF Exception, LoadForHandler, tables
<1>6. CASE UNCHANGED kernelVars
  BY <1>2, <1>6 DEF kernelVars, tables
<1> QED
  BY <1>1, <1>3, <1>4, <1>5, <1>6 DEF KernelNext, Runs

\* The tables hold descriptors of bytes, kernel_main() is at one of its
\* steps, and the display is registered once (gdt.c, idt.c, main.c:39-62).
THEOREM KernelTypes == KernelSpec => []KernelTypeOK
<1>1. KernelInit => DisplayInv /\ GatesInv
  <2> SUFFICES ASSUME KernelInit PROVE DisplayInv /\ GatesInv
    OBVIOUS
  <2>1. DisplayInv
    BY DEF KernelInit, DisplayInv
  <2>2. g_idt \in [0 .. (IDT_ENTRIES - 1) -> Entries]
    BY GateEntriesAreEntries DEF KernelInit, TablesInit
  <2> QED
    BY <2>1, <2>2 DEF KernelInit, GatesInv
<1>2. DisplayInv /\ GatesInv /\ KernelInv /\ [KernelNext]_kernelVars
         => DisplayInv' /\ GatesInv'
  BY DisplayStep, GatesStep
<1>3. TypeOK /\ DisplayInv /\ GatesInv /\ KernelInv => KernelTypeOK
  <2> SUFFICES ASSUME TypeOK, DisplayInv, GatesInv, KernelInv PROVE KernelTypeOK
    OBVIOUS
  <2>1. at \in DOMAIN Program
    BY ProgramPlaced, DescriptorsAssumption DEF From, KernelInv, SetUpSoFar, LidtAt
  <2>2. g_gdt_entries \in [0 .. 4 -> Entries]
    BY SegmentEntriesAreEntries, GateEntriesAreEntries
       DEF KernelInv, SetUpSoFar, SegmentsUpTo
  <2>3. gdtr \in {NoTable, 39} /\ idtr \in {NoTable, 8 * IDT_ENTRIES - 1}
    BY DEF KernelInv, SetUpSoFar, GatesInUse
  <2>4. displays \in {0, 1}
    BY DEF DisplayInv
  <2> QED
    BY <2>1, <2>2, <2>3, <2>4 DEF KernelTypeOK, TablesTypeOK, GatesInv
<1>4. KernelSpec => []TypeOK
  BY KernelImplementsInterrupts, InterruptsTypes, PTL
<1> QED
  BY <1>1, <1>2, <1>3, <1>4, KernelInvHolds, PTL DEF KernelSpec
===============================================================================
