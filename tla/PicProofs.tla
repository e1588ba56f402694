------------------------------- MODULE PicProofs -------------------------------
(***************************************************************************)
(* What holds of Pic for any lines in use and any masks of the firmware.   *)
(***************************************************************************)
EXTENDS Pic, TLAPS

-------------------------------------------------------------------------------
(***************************************************************************)
(* The writes of pic_remap().                                              *)
(***************************************************************************)
LEMMA WritesOfRemap ==
    /\ DOMAIN RemapWrites = 1 .. 10
    /\ Len(RemapWrites) = 10
    /\ RemapWrites[1] = Command("master") /\ RemapWrites[2] = Command("slave")
    /\ RemapWrites[3] = DataPort("master", PIC_IRQ_OFFSET1)
    /\ RemapWrites[4] = DataPort("slave", PIC_IRQ_OFFSET2)
    /\ RemapWrites[5] = DataPort("master", {Cascade})
    /\ RemapWrites[6] = DataPort("slave", Cascade)
    /\ RemapWrites[7] = DataPort("master", "8086")
    /\ RemapWrites[8] = DataPort("slave", "8086")
    /\ RemapWrites[9] = DataPort("master", a1) /\ RemapWrites[10] = DataPort("slave", a2)
BY DEF RemapWrites

LEMMA PortsOfWrites ==
    ASSUME NEW c, NEW value
    PROVE  /\ Command(c).port = "command" /\ Command(c).chip = c
           /\ DataPort(c, value).port = "data" /\ DataPort(c, value).chip = c
           /\ DataPort(c, value).value = value
BY DEF Command, DataPort

-------------------------------------------------------------------------------
(***************************************************************************)
(* Lines.                                                                  *)
(***************************************************************************)
LEMMA LinesOfChips ==
    /\ Lines \subseteq 0 .. 15
    /\ \A c \in Chips : LinesOf(c) \subseteq Lines
    /\ \A n \in LinesOf("master") : n \in 0 .. 7
    /\ \A n \in LinesOf("slave") : n \in 8 .. 15
BY PicAssumption DEF LinesOf, Chips

LEMMA HighestIsOneOfThem ==
    ASSUME NEW S \in SUBSET (0 .. 15), S # {}
    PROVE  Highest(S) \in S
<1>1. \E n \in S : \A m \in S : n <= m
  <2> SUFFICES ASSUME \A n \in S : \E m \in S : ~(n <= m) PROVE FALSE
    OBVIOUS
  <2>1. 0 \notin S /\ 1 \notin S /\ 2 \notin S /\ 3 \notin S
    OBVIOUS
  <2>2. 4 \notin S /\ 5 \notin S /\ 6 \notin S /\ 7 \notin S
    BY <2>1
  <2>3. 8 \notin S /\ 9 \notin S /\ 10 \notin S /\ 11 \notin S
    BY <2>1, <2>2
  <2>4. 12 \notin S /\ 13 \notin S /\ 14 \notin S /\ 15 \notin S
    BY <2>1, <2>2, <2>3
  <2>5. PICK x \in S : x \in 0 .. 15
    OBVIOUS
  <2> QED
    BY <2>1, <2>2, <2>3, <2>4, <2>5
<1> QED
  BY <1>1 DEF Highest

LEMMA HighestOfOne ==
    ASSUME NEW n \in Int
    PROVE  Highest({n}) = n
BY DEF Highest

-------------------------------------------------------------------------------
(***************************************************************************)
(* The invariant.                                                          *)
(***************************************************************************)
MasterWaits == CASE next \in {2, 3} -> 2
                 [] next \in {4, 5} -> 3
                 [] next \in {6, 7} -> 4
                 [] OTHER -> 0

SlaveWaits == CASE next \in {3, 4} -> 2
                [] next \in {5, 6} -> 3
                [] next \in {7, 8} -> 4
                [] OTHER -> 0

Types ==
    /\ next \in 0 .. 11
    /\ icw \in [Chips -> {0, 2, 3, 4}]
    /\ imr \in [Chips -> SUBSET Lines] /\ \A c \in Chips : imr[c] \subseteq LinesOf(c)
    /\ irr \in [Chips -> SUBSET Lines] /\ \A c \in Chips : irr[c] \subseteq LinesOf(c)
    /\ inservice \in [Chips -> SUBSET (0 .. 15)]
    /\ \A c \in Chips : inservice[c] \subseteq LinesOf(c) \cup {Cascade}
    /\ offset \in [Chips -> {8, 112, PIC_IRQ_OFFSET1, PIC_IRQ_OFFSET2}]
    /\ slaves \subseteq 0 .. 7 /\ identity \in 0 .. 7
    /\ a1 \subseteq LinesOf("master") /\ a2 \subseteq LinesOf("slave")
    /\ firmware \in [Chips -> SUBSET Lines]
    /\ \A c \in Chips : firmware[c] \subseteq LinesOf(c)

\* What the chips and the saved masks hold at each step of pic_remap().
Sequence ==
    /\ icw["master"] = MasterWaits
    /\ icw["slave"] = SlaveWaits
    /\ next \in {0, 1} => imr = firmware
    /\ next >= 1 => a1 = firmware["master"] /\ a2 = firmware["slave"]
    /\ next >= 4 => offset["master"] = PIC_IRQ_OFFSET1
    /\ next >= 5 => offset["slave"] = PIC_IRQ_OFFSET2
    /\ next >= 6 => slaves = {Cascade}
    /\ next >= 7 => identity = Cascade
    /\ next >= 10 => imr["master"] = firmware["master"]
    /\ next >= 11 => imr["slave"] = firmware["slave"]

\* One line at most is in service on each chip, and the handler has still to
\* end it there.
AtMost(c) == inservice[c] = {} \/ \E n \in 0 .. 15 : inservice[c] = {n}

Service ==
    /\ vector = None => eois = <<>>
    /\ vector # None => next = 11 /\ line \in 0 .. 15 /\ vector = 32 + line
    /\ vector = None => line = None
    /\ \/ /\ eois = <<>>
          /\ inservice["master"] = {} /\ inservice["slave"] = {}
       \/ /\ eois = <<"master">>
          /\ AtMost("master") /\ inservice["slave"] = {}
       \/ /\ eois = <<"slave", "master">>
          /\ AtMost("master") /\ AtMost("slave")

PicInv == Types /\ Sequence /\ Service

LEMMA InitPicInv == Init => PicInv
BY LinesOfChips DEF Init, Cascade, PicInv, Types, Sequence, Service, MasterWaits, SlaveWaits, Chips, None

LEMMA SaveMasksPicInv ==
    ASSUME PicInv, SaveMasks
    PROVE  PicInv'
BY LinesOfChips
   DEF PicInv, Types, Sequence, Service, SaveMasks, MasterWaits, SlaveWaits, Chips, chips,
       AtMost, LinesOf

\* While the chips are set up nothing is in service.
LEMMA RemapService ==
    ASSUME PicInv, pic_remap
    PROVE  /\ next \in 1 .. 10 /\ next' = next + 1 /\ UNCHANGED <<a1, a2, vector, line, eois, firmware>>
           /\ eois = <<>> /\ vector = None /\ inservice["master"] = {} /\ inservice["slave"] = {}
<1>1. next \in 1 .. 10 /\ next' = next + 1 /\ UNCHANGED <<a1, a2, vector, line, eois, firmware>>
  BY WritesOfRemap DEF pic_remap
<1>2. vector = None
  BY <1>1 DEF PicInv, Service
<1> QED
  BY <1>1, <1>2 DEF PicInv, Service

\* The write done at each step.
LEMMA RemapDoes ==
    ASSUME PicInv, pic_remap
    PROVE  /\ next = 1 => CommandInit("master")
           /\ next = 2 => CommandInit("slave")
           /\ next = 3 => Data("master", PIC_IRQ_OFFSET1)
           /\ next = 4 => Data("slave", PIC_IRQ_OFFSET2)
           /\ next = 5 => Data("master", {Cascade})
           /\ next = 6 => Data("slave", Cascade)
           /\ next = 7 => Data("master", "8086")
           /\ next = 8 => Data("slave", "8086")
           /\ next = 9 => Data("master", a1)
           /\ next = 10 => Data("slave", a2)
<1> DEFINE w == RemapWrites[next]
<1>1. IF w.port = "command" THEN CommandInit(w.chip) ELSE Data(w.chip, w.value)
  BY DEF pic_remap
<1> QED
  BY <1>1, WritesOfRemap, PortsOfWrites

LEMMA RemapPicInv ==
    ASSUME PicInv, pic_remap
    PROVE  PicInv'
<1>1. /\ next \in 1 .. 10 /\ next' = next + 1
      /\ UNCHANGED <<a1, a2, vector, line, eois, firmware>>
      /\ eois = <<>> /\ vector = None
      /\ inservice["master"] = {} /\ inservice["slave"] = {}
  BY RemapService
<1>2. Types /\ Sequence
  BY DEF PicInv
<1> USE DEF Types, Sequence, MasterWaits, SlaveWaits, Chips
<1>3. CASE next \in {1, 2}
  BY <1>1, <1>2, <1>3, RemapDoes DEF CommandInit, PicInv, Service
<1>4. CASE next \in {3, 4}
  BY <1>1, <1>2, <1>4, RemapDoes DEF Data, PicInv, Service
<1>5. CASE next \in {5, 6}
  BY <1>1, <1>2, <1>5, RemapDoes DEF Data, CascadeWord, Cascade, PicInv, Service
<1>6. CASE next \in {7, 8}
  <2> DEFINE c == IF next = 7 THEN "master" ELSE "slave"
  <2>1. Data(c, "8086") /\ icw[c] = 4 /\ c \in Chips
    BY <1>2, <1>6, RemapDoes
  <2>2. /\ icw' = [icw EXCEPT ![c] = 0]
        /\ UNCHANGED <<offset, slaves, identity, imr, irr, inservice>>
    BY <1>2, <2>1 DEF Data
  <2>3. Types' /\ Sequence'
    BY <1>1, <1>2, <1>6, <2>2
  <2> QED
    BY <1>1, <2>2, <2>3 DEF PicInv, Service
<1>7. CASE next \in {9, 10}
  <2> DEFINE c == IF next = 9 THEN "master" ELSE "slave"
             mask == IF next = 9 THEN a1 ELSE a2
  <2>1. Data(c, mask) /\ icw[c] = 0 /\ c \in Chips
    BY <1>2, <1>7, RemapDoes
  <2>2. /\ icw' = [icw EXCEPT ![c] = 0] /\ imr' = [imr EXCEPT ![c] = mask]
        /\ UNCHANGED <<offset, slaves, identity, irr, inservice>>
    BY <1>2, <2>1 DEF Data
  <2>3. mask \subseteq LinesOf(c) /\ mask = firmware[c] /\ mask \subseteq Lines
    BY <1>2, <1>7, LinesOfChips
  <2>4. Types' /\ Sequence'
    BY <1>1, <1>2, <1>7, <2>2, <2>3 DEF LinesOf
  <2> QED
    BY <1>1, <2>2, <2>4 DEF PicInv, Service
<1> QED
  BY <1>1, <1>3, <1>4, <1>5, <1>6, <1>7

LEMMA RaisePicInv ==
    ASSUME PicInv, NEW n \in Lines, Raise(n)
    PROVE  PicInv'
<1>1. PICK c \in Chips :
         /\ n \in LinesOf(c)
         /\ irr' = [irr EXCEPT ![c] = @ \cup {n}]
         /\ UNCHANGED <<next, a1, a2, icw, imr, inservice, offset, slaves,
                        identity, vector, line, eois, firmware>>
  BY DEF Raise
<1>2. irr \in [Chips -> SUBSET Lines] /\ \A d \in Chips : irr[d] \subseteq LinesOf(d)
  BY DEF PicInv, Types
<1>3. irr' \in [Chips -> SUBSET Lines] /\ \A d \in Chips : irr'[d] \subseteq LinesOf(d)
  BY <1>1, <1>2
<1>4. Types'
  BY <1>1, <1>3 DEF PicInv, Types, LinesOf
<1>5. Sequence'
  BY <1>1 DEF PicInv, Sequence, MasterWaits, SlaveWaits
<1>6. Service'
  BY <1>1 DEF PicInv, Service, AtMost
<1> QED
  BY <1>4, <1>5, <1>6 DEF PicInv

\* An end of interrupt on a chip with at most one line in service.
LEMMA EoiEnds ==
    ASSUME PicInv, NEW c \in Chips, AtMost(c), CommandEoi(c)
    PROVE  /\ inservice' = [inservice EXCEPT ![c] = {}]
           /\ UNCHANGED <<icw, imr, irr, offset, slaves, identity>>
<1>1. inservice \in [Chips -> SUBSET (0 .. 15)]
  BY DEF PicInv, Types
<1>2. (IF inservice[c] = {} THEN {} ELSE inservice[c] \ {Highest(inservice[c])}) = {}
  <2>1. CASE inservice[c] = {}
    BY <2>1
  <2>2. ASSUME NEW n \in 0 .. 15, inservice[c] = {n}
        PROVE  inservice[c] \ {Highest(inservice[c])} = {}
    BY <2>2, HighestOfOne
  <2> QED
    BY <2>1, <2>2 DEF AtMost
<1> QED
  BY <1>1, <1>2 DEF CommandEoi

LEMMA SendEoiPicInv ==
    ASSUME PicInv, SendEoi
    PROVE  PicInv'
<1>1. /\ eois # <<>> /\ CommandEoi(Head(eois)) /\ eois' = Tail(eois)
      /\ UNCHANGED <<next, a1, a2, vector, line, firmware>>
  BY DEF SendEoi
<1>2. /\ inservice \in [Chips -> SUBSET (0 .. 15)]
      /\ "master" \in Chips /\ "slave" \in Chips
  BY DEF PicInv, Types, Chips
<1>3. vector # None
  BY <1>1 DEF PicInv, Service
<1>4. /\ \/ eois' = <<>> /\ inservice'["master"] = {} /\ inservice'["slave"] = {}
         \/ eois' = <<"master">> /\ AtMost("master")' /\ inservice'["slave"] = {}
      /\ inservice' \in [Chips -> SUBSET (0 .. 15)]
      /\ \A c \in Chips : inservice'[c] \subseteq inservice[c]
      /\ UNCHANGED <<icw, imr, irr, offset, slaves, identity>>
  <2>1. CASE eois = <<"master">> /\ AtMost("master") /\ inservice["slave"] = {}
    <3>1. Head(eois) = "master" /\ Tail(eois) = <<>>
      BY <2>1
    <3>2. /\ inservice' = [inservice EXCEPT !["master"] = {}]
          /\ UNCHANGED <<icw, imr, irr, offset, slaves, identity>>
      BY <1>1, <1>2, <2>1, <3>1, EoiEnds
    <3> QED
      BY <1>1, <1>2, <2>1, <3>1, <3>2
  <2>2. CASE eois = <<"slave", "master">> /\ AtMost("master") /\ AtMost("slave")
    <3>1. Head(eois) = "slave" /\ Tail(eois) = <<"master">>
      BY <2>2
    <3>2. /\ inservice' = [inservice EXCEPT !["slave"] = {}]
          /\ UNCHANGED <<icw, imr, irr, offset, slaves, identity>>
      BY <1>1, <1>2, <2>2, <3>1, EoiEnds
    <3>3. inservice'["master"] = inservice["master"] /\ inservice'["slave"] = {}
      BY <1>2, <3>2
    <3> QED
      BY <1>1, <1>2, <2>2, <3>1, <3>2, <3>3 DEF AtMost
  <2> QED
    BY <1>1, <2>1, <2>2 DEF PicInv, Service
<1>5. Types' /\ Sequence'
  BY <1>1, <1>4 DEF PicInv, Types, Sequence, MasterWaits, SlaveWaits, LinesOf
<1>6. Service'
  BY <1>1, <1>3, <1>4 DEF PicInv, Service
<1> QED
  BY <1>5, <1>6 DEF PicInv

LEMMA HandlerReturnsPicInv ==
    ASSUME PicInv, HandlerReturns
    PROVE  PicInv'
BY DEF PicInv, Types, Sequence, Service, HandlerReturns, chips, MasterWaits, SlaveWaits,
       LinesOf

\* What taking an interrupt changes besides the chips.
LEMMA TakePicInv ==
    ASSUME PicInv, Ready, NEW v, NEW n \in 0 .. 15, v = 32 + n, Take(v, n),
           inservice' \in [Chips -> SUBSET (0 .. 15)],
           \A c \in Chips : inservice'[c] \subseteq LinesOf(c) \cup {Cascade},
           irr' \in [Chips -> SUBSET Lines], \A c \in Chips : irr'[c] \subseteq irr[c],
           \/ /\ n < 8 /\ AtMost("master")' /\ inservice'["slave"] = {}
           \/ /\ n >= 8 /\ AtMost("master")' /\ AtMost("slave")'
    PROVE  PicInv'
<1>1. next = 11 /\ vector = None
  BY WritesOfRemap DEF Ready, Remapped, PicInv, Types
<1>2. Types' /\ Sequence'
  <2>1. UNCHANGED <<next, a1, a2, icw, imr, offset, slaves, identity, firmware>>
    BY DEF Take
  <2> QED
    BY <2>1 DEF PicInv, Types, Sequence, MasterWaits, SlaveWaits, LinesOf
<1>3. vector' = 32 + n /\ line' = n /\ next' = 11
  BY <1>1 DEF Take
<1>4. eois' = IF n >= 8 THEN <<"slave", "master">> ELSE <<"master">>
  <2>1. v \in 32 .. 47 /\ v - 32 = n
    OBVIOUS
  <2> QED
    BY <2>1 DEF Take, IrqHandler, pic_send_eoi
<1>5. Service'
  BY <1>3, <1>4 DEF Service, None
<1> QED
  BY <1>2, <1>5 DEF PicInv

LEMMA ReadyMeansQuiet ==
    ASSUME PicInv, Ready
    PROVE  /\ inservice["master"] = {} /\ inservice["slave"] = {}
           /\ inservice \in [Chips -> SUBSET (0 .. 15)] /\ irr \in [Chips -> SUBSET Lines]
           /\ irr["master"] \subseteq LinesOf("master")
           /\ irr["slave"] \subseteq LinesOf("slave")
           /\ offset["master"] = 32 /\ offset["slave"] = 40
           /\ slaves = {Cascade} /\ identity = Cascade
           /\ "master" \in Chips /\ "slave" \in Chips
<1>1. next = 11
  BY WritesOfRemap DEF Ready, Remapped, PicInv, Types
<1> QED
  BY <1>1 DEF Ready, PicInv, Types, Sequence, Service, Chips, PIC_IRQ_OFFSET1, PIC_IRQ_OFFSET2

\* The two chips have been told of each other: the slave answers for the
\* cascade line and no other.
LEMMA VectorsWhenReady ==
    ASSUME PicInv, Ready
    PROVE  /\ SlaveAnswers(Cascade)
           /\ \A m \in 0 .. 7, n \in 0 .. 15 : m # Cascade => VectorFor(m, n) = 32 + m
           /\ \A n \in 0 .. 15 : VectorFor(Cascade, n) = 32 + n
<1>1. /\ offset["master"] = 32 /\ offset["slave"] = 40
      /\ slaves = {Cascade} /\ identity = Cascade
  BY ReadyMeansQuiet
<1>2. \A n \in 0 .. 15 : 40 + (n - 8) = 32 + n
  OBVIOUS
<1> QED
  BY <1>1, <1>2 DEF SlaveAnswers, VectorFor

LEMMA AcceptMasterPicInv ==
    ASSUME PicInv, Serves("master", MasterRequests) # {}, NEW n \in Lines,
           AcceptMaster(n)
    PROVE  PicInv'
<1>1. /\ Ready /\ n = Highest(Serves("master", MasterRequests)) /\ n # Cascade
      /\ irr' = [irr EXCEPT !["master"] = @ \ {n}]
      /\ inservice' = [inservice EXCEPT !["master"] = @ \cup {n}]
      /\ Take(VectorFor(n, 15), n)
  BY DEF AcceptMaster
<1>2. /\ inservice["master"] = {} /\ inservice["slave"] = {}
      /\ inservice \in [Chips -> SUBSET (0 .. 15)] /\ irr \in [Chips -> SUBSET Lines]
      /\ irr["master"] \subseteq LinesOf("master")
      /\ "master" \in Chips /\ "slave" \in Chips
  BY <1>1, ReadyMeansQuiet
<1>3. n \in 0 .. 7 /\ n \in LinesOf("master") \cup {Cascade}
  <2>1. Serves("master", MasterRequests) \subseteq LinesOf("master") \cup {Cascade}
    BY <1>2 DEF Serves, MasterRequests
  <2>2. LinesOf("master") \cup {Cascade} \subseteq 0 .. 7
    BY LinesOfChips DEF Cascade
  <2>3. Serves("master", MasterRequests) \subseteq 0 .. 15
    BY <2>1, <2>2
  <2> QED
    BY <1>1, <2>1, <2>2, <2>3, HighestIsOneOfThem
<1>4. /\ inservice' \in [Chips -> SUBSET (0 .. 15)]
      /\ inservice'["master"] = {n} /\ inservice'["slave"] = {}
      /\ \A c \in Chips : inservice'[c] \subseteq LinesOf(c) \cup {Cascade}
      /\ irr' \in [Chips -> SUBSET Lines] /\ \A c \in Chips : irr'[c] \subseteq irr[c]
  BY <1>1, <1>2, <1>3 DEF Chips
<1>5. n \in 0 .. 15 /\ n < 8 /\ VectorFor(n, 15) = 32 + n
  BY <1>1, <1>3, VectorsWhenReady
<1>6. AtMost("master")'
  BY <1>4, <1>5 DEF AtMost
<1> QED
  BY <1>1, <1>4, <1>5, <1>6, TakePicInv

LEMMA AcceptSlavePicInv ==
    ASSUME PicInv, NEW n \in Lines, AcceptSlave(n),
           Serves("master", MasterRequests) # {}
    PROVE  PicInv'
<1>1. /\ Ready /\ Highest(Serves("master", MasterRequests)) = Cascade
      /\ n = Highest(Serves("slave", irr["slave"]))
      /\ irr' = [irr EXCEPT !["slave"] = @ \ {n}]
      /\ inservice' = [inservice EXCEPT !["master"] = @ \cup {Cascade},
                                        !["slave"] = @ \cup {n}]
      /\ Take(VectorFor(Cascade, n), n)
  <2>1. Ready
    BY DEF AcceptSlave
  <2> QED
    BY <2>1, VectorsWhenReady DEF AcceptSlave
<1>2. /\ inservice["master"] = {} /\ inservice["slave"] = {}
      /\ inservice \in [Chips -> SUBSET (0 .. 15)] /\ irr \in [Chips -> SUBSET Lines]
      /\ irr["master"] \subseteq LinesOf("master")
      /\ irr["slave"] \subseteq LinesOf("slave")
      /\ "master" \in Chips /\ "slave" \in Chips
  BY <1>1, ReadyMeansQuiet
<1>3. Serves("slave", irr["slave"]) # {}
  <2>1. Serves("master", MasterRequests) \subseteq MasterRequests
    BY DEF Serves
  <2>2. LinesOf("master") \cup {Cascade} \subseteq 0 .. 15 /\ Cascade \notin LinesOf("master")
    <3>1. LinesOf("master") \cup {Cascade} \subseteq 0 .. 15
      BY LinesOfChips DEF Cascade
    <3>2. Cascade \notin LinesOf("master")
      BY PicAssumption DEF LinesOf
    <3> QED
      BY <3>1, <3>2
  <2>3. MasterRequests \subseteq LinesOf("master") \cup {Cascade}
    BY <1>2 DEF MasterRequests
  <2>4. Cascade \in MasterRequests
    BY <1>1, <2>1, <2>2, <2>3, HighestIsOneOfThem
  <2> QED
    BY <1>2, <2>2, <2>4 DEF MasterRequests
<1>4. n \in 8 .. 15 /\ n \in LinesOf("slave")
  <2>1. /\ Serves("slave", irr["slave"]) \subseteq LinesOf("slave")
        /\ Serves("slave", irr["slave"]) \subseteq 8 .. 15
    BY <1>2, LinesOfChips DEF Serves
  <2>2. Serves("slave", irr["slave"]) \subseteq 0 .. 15
    BY <2>1
  <2> QED
    BY <1>1, <1>3, <2>1, <2>2, HighestIsOneOfThem
<1>5. /\ inservice' \in [Chips -> SUBSET (0 .. 15)]
      /\ inservice'["master"] = {Cascade} /\ inservice'["slave"] = {n}
      /\ \A c \in Chips : inservice'[c] \subseteq LinesOf(c) \cup {Cascade}
      /\ irr' \in [Chips -> SUBSET Lines] /\ \A c \in Chips : irr'[c] \subseteq irr[c]
  BY <1>1, <1>2, <1>4 DEF Cascade, Chips
<1>6. n \in 0 .. 15 /\ n >= 8 /\ VectorFor(Cascade, n) = 32 + n
  BY <1>1, <1>4, VectorsWhenReady
<1>7. AtMost("master")' /\ AtMost("slave")'
  BY <1>5, <1>6 DEF AtMost, Cascade
<1> QED
  BY <1>1, <1>5, <1>6, <1>7, TakePicInv

LEMMA SpuriousPicInv ==
    ASSUME PicInv, Spurious
    PROVE  PicInv'
<1>1. Ready /\ irr' = irr
  BY DEF Spurious
<1>2. /\ inservice["master"] = {} /\ inservice["slave"] = {}
      /\ inservice \in [Chips -> SUBSET (0 .. 15)] /\ irr \in [Chips -> SUBSET Lines]
      /\ "master" \in Chips /\ "slave" \in Chips
      /\ VectorFor(7, 15) = 39 /\ VectorFor(Cascade, 15) = 47
  BY <1>1, ReadyMeansQuiet, VectorsWhenReady DEF Cascade
<1>3. CASE inservice' = inservice /\ Take(VectorFor(7, 15), 7)
  <2>1. Take(39, 7) /\ 39 = 32 + 7 /\ 7 \in 0 .. 15 /\ 7 < 8
    BY <1>2, <1>3
  <2>2. /\ AtMost("master")' /\ inservice'["slave"] = {}
        /\ \A c \in Chips : inservice'[c] \subseteq LinesOf(c) \cup {Cascade}
    BY <1>2, <1>3 DEF AtMost, Chips
  <2> QED
    BY <1>1, <1>2, <1>3, <2>1, <2>2, TakePicInv
<1>4. CASE /\ inservice' = [inservice EXCEPT !["master"] = @ \cup {Cascade}]
           /\ Take(VectorFor(Cascade, 15), 15)
  <2>1. Take(47, 15) /\ 47 = 32 + 15 /\ 15 \in 0 .. 15 /\ 15 >= 8
    BY <1>2, <1>4
  <2>2. /\ inservice' \in [Chips -> SUBSET (0 .. 15)]
        /\ inservice'["master"] = {Cascade} /\ inservice'["slave"] = {}
        /\ \A c \in Chips : inservice'[c] \subseteq LinesOf(c) \cup {Cascade}
    BY <1>2, <1>4 DEF Cascade, Chips
  <2>3. AtMost("master")' /\ AtMost("slave")'
    BY <2>2 DEF AtMost, Cascade
  <2> QED
    BY <1>1, <1>2, <2>1, <2>2, <2>3, TakePicInv
<1> QED
  BY <1>3, <1>4 DEF Spurious

LEMMA NextPicInv == PicInv /\ [Next]_vars => PicInv'
<1> SUFFICES ASSUME PicInv, [Next]_vars PROVE PicInv'
  OBVIOUS
<1>1. CASE UNCHANGED vars
  <2>1. Types'
    BY <1>1 DEF vars, PicInv, Types, LinesOf
  <2>2. Sequence'
    BY <1>1 DEF vars, PicInv, Sequence, MasterWaits, SlaveWaits
  <2>3. Service'
    BY <1>1 DEF vars, PicInv, Service, AtMost
  <2> QED
    BY <2>1, <2>2, <2>3 DEF PicInv
<1>2. CASE Accept
  BY <1>2, AcceptMasterPicInv, AcceptSlavePicInv DEF Accept
<1> QED
  BY <1>1, <1>2, SaveMasksPicInv, RemapPicInv, SendEoiPicInv, HandlerReturnsPicInv,
     RaisePicInv, SpuriousPicInv DEF Next

LEMMA PicInvHolds == Spec => []PicInv
BY InitPicInv, NextPicInv, PTL DEF Spec

-------------------------------------------------------------------------------
(***************************************************************************)
(* The theorems.                                                           *)
(***************************************************************************)

\* The chips, the saved masks and the interrupt being handled keep their
\* types, for any lines in use (irq.c).
THEOREM PicTypes == Spec => []TypeOK
<1>1. PicInv => TypeOK
  <2> SUFFICES ASSUME PicInv PROVE TypeOK
    OBVIOUS
  <2>1. /\ next \in 0 .. (Len(RemapWrites) + 1)
        /\ a1 \subseteq Lines /\ a2 \subseteq Lines
        /\ icw \in [Chips -> {0, 2, 3, 4}]
        /\ offset \in [Chips -> {8, 112, PIC_IRQ_OFFSET1, PIC_IRQ_OFFSET2}]
        /\ slaves \subseteq 0 .. 7 /\ identity \in 0 .. 7
    BY WritesOfRemap, LinesOfChips DEF PicInv, Types, Chips
  <2>2. vector \in {None} \cup 0 .. 255 /\ line \in {None} \cup 0 .. 15
    <3>1. CASE vector = None
      BY <3>1 DEF PicInv, Service
    <3>2. CASE vector # None
      <4>1. line \in 0 .. 15 /\ vector = 32 + line
        BY <3>2 DEF PicInv, Service
      <4>2. vector \in 0 .. 255
        BY <4>1
      <4> QED
        BY <4>1, <4>2
    <3> QED
      BY <3>1, <3>2
  <2>3. eois \in Seq(Chips)
    <3>1. eois \in {<<>>, <<"master">>, <<"slave", "master">>}
      BY DEF PicInv, Service
    <3>2. "master" \in Chips /\ "slave" \in Chips
      BY DEF Chips
    <3>3. <<>> \in Seq(Chips) /\ <<"master">> \in Seq(Chips)
      BY <3>2
    <3>4. <<"slave", "master">> \in Seq(Chips)
      BY <3>2
    <3> QED
      BY <3>1, <3>3, <3>4
  <2>4. \A c \in Chips : inservice[c] \subseteq LinesOf(c) \cup {Cascade}
    BY DEF PicInv, Types
  <2> QED
    BY <2>1, <2>2, <2>3, <2>4 DEF TypeOK, PicInv, Types
<1> QED
  BY <1>1, PicInvHolds, PTL

\* irq_init() leaves the masks as the firmware had them, whatever they were
\* (irq.c:29-62).
THEOREM MasksStay == Spec => []MasksKept
<1>1. PicInv => MasksKept
  BY WritesOfRemap
     DEF PicInv, Types, Sequence, MasksKept, Remapped, MasterWaits, SlaveWaits, Chips
<1> QED
  BY <1>1, PicInvHolds, PTL

\* Every line, spurious ones included, arrives at its own vector from 32 on
\* (irq.c:35-62, 64-87, idt.c:205-212).
THEOREM NumbersArrive == Spec => []LineNumbersArrive
<1>1. PicInv => LineNumbersArrive
  BY DEF PicInv, Service, LineNumbersArrive
<1> QED
  BY <1>1, PicInvHolds, PTL

\* When no handler runs no line is in service on either chip: after every
\* interrupt, a spurious one included, pic_send_eoi() has ended it on both
\* chips (irq.c:64-71).
THEOREM ServiceEnds == Spec => []NothingLeftInService
<1>1. PicInv => NothingLeftInService
  BY ReadyMeansQuiet DEF NothingLeftInService, Chips
<1> QED
  BY <1>1, PicInvHolds, PTL
===============================================================================
