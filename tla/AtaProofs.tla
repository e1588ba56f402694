------------------------------- MODULE AtaProofs -------------------------------
(***************************************************************************)
(* The disk driver, for sectors and address registers of every size, every *)
(* combination of drives and all the times they may take.                  *)
(***************************************************************************)
EXTENDS Ata, SequenceTheorems, TLAPS

(***************************************************************************)
(* The inductive invariant.                                                *)
(***************************************************************************)

Commands == {"none", "IDENTIFY", "READ_PIO"}
Identifying == {"present", "id busy", "id wait", "id read"}
Reading == {"read delay", "read busy", "read wait", "read"}

Registers == [lba0 : Int, lba1 : Int, lba2 : Int, high : Int]

AtaTypes ==
    /\ TypeOK
    /\ pc \in {"select", "identify", "done", "read command", "read end", "panic"}
                \cup Identifying \cup Reading
    /\ command \in [Places -> Commands]
    /\ regs \in [Buses -> Registers]
    /\ model = [p \in Places |-> model[p]]

\* The drive that answers is the one the driver works on.
Addressed == pc # "select" => selected[Bus] = place[2]

\* Which byte of its answer a drive sends as the n-th.
Nth(cmd, n) == IF cmd # "IDENTIFY" THEN n ELSE IF n % 2 = 1 THEN n + 1 ELSE n - 1

\* The first k words of an answer, byte by byte as they are sent.
Sent(p, cmd, at, k) == [n \in 1 .. (2 * k) |-> Byte(p, cmd, at, Nth(cmd, n))]

\* The driver has read the words that the drive has handed out.
BufferIsSent(cmd, at) ==
    buffer = Sent(place, cmd, at, IF phase[place] = "data" THEN Words - left[place] ELSE 0)

\* Where the drive at hand can be while the driver identifies it.  A packet
\* device ends in an error and a disk does not.
IdentifyPhases ==
    /\ pc \in Identifying /\ kind[place] # "none" =>
          /\ command[place] = "IDENTIFY"
          /\ phase[place] \in {"busy", IF kind[place] = "ata" THEN "data" ELSE "error"}
                                 \cup (IF pc = "present" THEN NotYetBusy ELSE {})
          /\ BufferIsSent("IDENTIFY", 0)
    /\ pc \in Identifying /\ kind[place] = "none" => pc = "present"
    /\ pc = "id wait" => phase[place] # "busy"
    /\ pc = "id read" => phase[place] = "data"

\* Where it can be while the driver reads a sector.
ReadPhases ==
    /\ pc \in {"read command", "read end"} \cup Reading =>
          kind[place] = "ata" /\ sector \in Sectors
    /\ pc = "read command" =>
          buffer = <<>> /\ regs[Bus].high = AddressRegs(sector).high
    /\ pc \in Reading =>
          /\ command[place] = "READ_PIO"
          /\ regs[Bus] = AddressRegs(sector)
          /\ phase[place] \in {"busy", "data", "error"}
                                 \cup (IF pc = "read delay" THEN NotYetBusy ELSE {})
          /\ BufferIsSent("READ_PIO", sector)
    /\ pc = "read wait" => phase[place] # "busy"
    /\ pc = "read" => phase[place] = "data"
    /\ pc = "read end" => buffer = Sent(place, "READ_PIO", sector, Words)

\* The drives the driver does not work on.  Only a disk has data.
DrivesAtRest ==
    /\ \A p \in Places : kind[p] = "none" => phase[p] = "idle"
    /\ \A p \in Places : phase[p] = "data" => kind[p] = "ata" /\ left[p] \in 1 .. Words
    /\ \A p \in Places :
          /\ kind[p] = "ata"
          /\ p = place => pc \in {"select", "identify", "done", "read command", "read end"}
          => phase[p] \in {"idle", "error"}

Rank(p) == 2 * p[1] + p[2]

ProbeDone == {p \in Places : Probed \/ Rank(p) < Rank(place)}

\* What is known of the drives the probe has got past, and of the others.
FoundSoFar ==
    /\ \A p \in ProbeDone :
          /\ available[p] = 1 <=> kind[p] = "ata"
          /\ kind[p] = "ata" => model[p] = Answer(p, "IDENTIFY", 0)
    /\ \A p \in Places \ ProbeDone : available[p] = 1 => p = place /\ pc = "id read"

AtaInv ==
    /\ AtaTypes
    /\ Addressed
    /\ IdentifyPhases
    /\ ReadPhases
    /\ DrivesAtRest
    /\ FoundSoFar

-------------------------------------------------------------------------------
(***************************************************************************)
(* Words and bytes.                                                        *)
(***************************************************************************)

BytesOf(p, cmd, at) == {Byte(p, cmd, at, n) : n \in Int}

LEMMA SentIsSequence ==
    ASSUME NEW p, NEW cmd, NEW at, NEW k \in Nat
    PROVE  /\ Sent(p, cmd, at, k) \in Seq(BytesOf(p, cmd, at))
           /\ Len(Sent(p, cmd, at, k)) = 2 * k
<1>1. \A n \in 1 .. (2 * k) : Nth(cmd, n) \in Int
  BY DEF Nth
<1>2. \A n \in 1 .. (2 * k) : Byte(p, cmd, at, Nth(cmd, n)) \in BytesOf(p, cmd, at)
  BY <1>1 DEF BytesOf
<1> QED
  BY <1>2 DEF Sent

LEMMA NothingSent ==
    ASSUME NEW p, NEW cmd, NEW at
    PROVE  Sent(p, cmd, at, 0) = <<>>
BY SentIsSequence, EmptySeq

\* One more word: its two bytes go behind those that were sent.
LEMMA WordSent ==
    ASSUME NEW p, NEW cmd, NEW at, NEW k \in Nat, NEW word,
           word = IF cmd = "IDENTIFY"
                  THEN << Byte(p, cmd, at, 2 * (k + 1)), Byte(p, cmd, at, 2 * (k + 1) - 1) >>
                  ELSE << Byte(p, cmd, at, 2 * (k + 1) - 1), Byte(p, cmd, at, 2 * (k + 1)) >>
    PROVE  Sent(p, cmd, at, k) \o word = Sent(p, cmd, at, k + 1)
<1> DEFINE S == BytesOf(p, cmd, at)
           s == Sent(p, cmd, at, k)
           t == Sent(p, cmd, at, k + 1)
<1>1. \A n \in Int : Byte(p, cmd, at, n) \in S
  BY DEF BytesOf
<1>2. 2 * (k + 1) = 2 * k + 2 /\ 2 * k \in Nat /\ k + 1 \in Nat
  OBVIOUS
<1>3. /\ word \in Seq(S) /\ Len(word) = 2
      /\ word[1] = Byte(p, cmd, at, Nth(cmd, 2 * k + 1))
      /\ word[2] = Byte(p, cmd, at, Nth(cmd, 2 * k + 2))
  <2>1. (2 * k + 1) % 2 = 1 /\ (2 * k + 2) % 2 = 0
    BY <1>2
  <2>2. CASE cmd = "IDENTIFY"
    <3>1. /\ Nth(cmd, 2 * k + 1) = 2 * (k + 1)
          /\ Nth(cmd, 2 * k + 2) = 2 * (k + 1) - 1
      BY <1>2, <2>1, <2>2 DEF Nth
    <3>2. word = << Byte(p, cmd, at, 2 * (k + 1)), Byte(p, cmd, at, 2 * (k + 1) - 1) >>
      BY <2>2
    <3>3. 2 * (k + 1) \in Int /\ 2 * (k + 1) - 1 \in Int
      BY <1>2
    <3> HIDE DEF S
    <3> QED
      BY <1>1, <3>1, <3>2, <3>3
  <2>3. CASE cmd # "IDENTIFY"
    <3>1. /\ Nth(cmd, 2 * k + 1) = 2 * (k + 1) - 1
          /\ Nth(cmd, 2 * k + 2) = 2 * (k + 1)
      BY <1>2, <2>3 DEF Nth
    <3>2. word = << Byte(p, cmd, at, 2 * (k + 1) - 1), Byte(p, cmd, at, 2 * (k + 1)) >>
      BY <2>3
    <3>3. 2 * (k + 1) \in Int /\ 2 * (k + 1) - 1 \in Int
      BY <1>2
    <3> HIDE DEF S
    <3> QED
      BY <1>1, <3>1, <3>2, <3>3
  <2> QED
    BY <2>2, <2>3
<1>4. s \in Seq(S) /\ Len(s) = 2 * k /\ t \in Seq(S) /\ Len(t) = 2 * k + 2
  BY <1>2, SentIsSequence
<1>5. /\ \A n \in 1 .. (2 * k) : s[n] = Byte(p, cmd, at, Nth(cmd, n))
      /\ \A n \in 1 .. (2 * k + 2) : t[n] = Byte(p, cmd, at, Nth(cmd, n))
  BY <1>2 DEF Sent
<1> HIDE DEF S, s, t
<1>6. /\ s \o word \in Seq(S) /\ Len(s \o word) = 2 * k + 2
      /\ \A n \in 1 .. (2 * k + 2) :
            (s \o word)[n] = IF n <= 2 * k THEN s[n] ELSE word[n - 2 * k]
  BY <1>3, <1>4, ConcatProperties
<1>7. \A n \in 1 .. (2 * k + 2) : (s \o word)[n] = t[n]
  <2> SUFFICES ASSUME NEW n \in 1 .. (2 * k + 2)
               PROVE  (s \o word)[n] = t[n]
    OBVIOUS
  <2>1. CASE n <= 2 * k
    BY <1>2, <1>5, <1>6, <2>1
  <2>2. CASE n = 2 * k + 1
    <3>1. n - 2 * k = 1 /\ ~(n <= 2 * k)
      BY <1>2, <2>2
    <3> QED
      BY <1>3, <1>5, <1>6, <2>2, <3>1
  <2>3. CASE n = 2 * k + 2
    <3>1. n - 2 * k = 2 /\ ~(n <= 2 * k)
      BY <1>2, <2>3
    <3> QED
      BY <1>3, <1>5, <1>6, <2>3, <3>1
  <2>4. n <= 2 * k \/ n = 2 * k + 1 \/ n = 2 * k + 2
    BY <1>2
  <2> QED
    BY <2>1, <2>2, <2>3, <2>4
<1>8. s \o word = t
  BY <1>4, <1>6, <1>7, SeqEqual
<1> QED
  BY <1>8 DEF s, t

\* All words of a sector are the sector; those of a name are its bytes with
\* the two of each word exchanged (ata.c:212-217).
LEMMA SentSector ==
    ASSUME NEW p, NEW at
    PROVE  Sent(p, "READ_PIO", at, Words) = Answer(p, "READ_PIO", at)
BY DEF Sent, Answer, Nth

LEMMA SwappedName ==
    ASSUME NEW p, NEW at
    PROVE  Swapped(Sent(p, "IDENTIFY", at, Words)) = Answer(p, "IDENTIFY", at)
<1> DEFINE s == Sent(p, "IDENTIFY", at, Words)
           m == 2 * Words
<1>1. m \in Nat /\ m % 2 = 0 /\ DOMAIN s = 1 .. m
  BY AtaAssumption DEF Sent
<1>2. \A n \in 1 .. m : s[n] = Byte(p, "IDENTIFY", at, IF n % 2 = 1 THEN n + 1 ELSE n - 1)
  BY DEF Sent, Nth
<1> HIDE DEF s, m
<1>3. \A n \in 1 .. m :
          (IF n % 2 = 1 THEN s[n + 1] ELSE s[n - 1]) = Byte(p, "IDENTIFY", at, n)
  <2> SUFFICES ASSUME NEW n \in 1 .. m
               PROVE  (IF n % 2 = 1 THEN s[n + 1] ELSE s[n - 1])
                         = Byte(p, "IDENTIFY", at, n)
    OBVIOUS
  <2>1. CASE n % 2 = 1
    <3>1. n + 1 \in 1 .. m /\ (n + 1) % 2 = 0 /\ (n + 1) - 1 = n
      BY <1>1, <2>1
    <3> QED
      BY <1>2, <2>1, <3>1
  <2>2. CASE n % 2 = 0
    <3>1. n - 1 \in 1 .. m /\ (n - 1) % 2 = 1 /\ (n - 1) + 1 = n
      BY <1>1, <2>2
    <3> QED
      BY <1>2, <2>2, <3>1
  <2> QED
    BY <1>1, <2>1, <2>2
<1> QED
  BY <1>1, <1>3 DEF Swapped, Answer, s, m

-------------------------------------------------------------------------------
(***************************************************************************)
(* Addresses.                                                              *)
(***************************************************************************)

LEMMA Division ==
    ASSUME NEW a \in Nat, NEW m \in Nat \ {0}
    PROVE  /\ a \div m \in Nat /\ a % m \in 0 .. (m - 1)
           /\ a = m * (a \div m) + (a % m)
<1> DEFINE d == a \div m
           r == a % m
<1>1. d \in Nat /\ r \in 0 .. (m - 1) /\ a = m * d + r
  OBVIOUS
<1> QED
  BY <1>1

LEMMA DivisionIsUnique ==
    ASSUME NEW m \in Nat \ {0}, NEW q1 \in Nat, NEW q2 \in Nat,
           NEW r1 \in 0 .. (m - 1), NEW r2 \in 0 .. (m - 1),
           m * q1 + r1 = m * q2 + r2
    PROVE  q1 = q2 /\ r1 = r2
<1>1. ASSUME NEW x \in Nat, NEW y \in Nat, x < y
      PROVE  m * x + m <= m * y
  <2>1. m * (x + 1) <= m * y
    BY <1>1
  <2>2. m * (x + 1) = m * x + m
    OBVIOUS
  <2> QED
    BY <2>1, <2>2
<1>2. m * q1 \in Nat /\ m * q2 \in Nat
  OBVIOUS
<1>3. ~(q1 < q2)
  BY <1>1, <1>2
<1>4. ~(q2 < q1)
  BY <1>1, <1>2
<1> QED
  BY <1>2, <1>3, <1>4

\* Dividing by a product is dividing twice.
LEMMA DivideTwice ==
    ASSUME NEW a \in Nat, NEW b \in Nat \ {0}, NEW c \in Nat \ {0}
    PROVE  a \div (b * c) = (a \div b) \div c
<1> DEFINE q == a \div b
           r == a % b
           u == q \div c
           v == q % c
           x == a \div (b * c)
           y == a % (b * c)
<1>1. /\ q \in Nat /\ r \in 0 .. (b - 1) /\ a = b * q + r
      /\ u \in Nat /\ v \in 0 .. (c - 1) /\ q = c * u + v
  BY Division
<1>2. b * c \in Nat \ {0}
  OBVIOUS
<1>3. x \in Nat /\ y \in 0 .. (b * c - 1) /\ a = (b * c) * x + y
  BY <1>2, Division
<1> HIDE DEF q, r, u, v, x, y
<1>4. b * q = (b * c) * u + b * v
  BY <1>1
<1>5. b * v \in Nat /\ b * v + b <= b * c
  <2>1. b * (v + 1) <= b * c
    BY <1>1
  <2>2. b * (v + 1) = b * v + b
    BY <1>1
  <2>3. b * v \in Nat /\ b * c \in Nat
    BY <1>1
  <2> QED
    BY <2>1, <2>2, <2>3
<1> DEFINE w == b * v + r
<1>6. w \in 0 .. (b * c - 1)
  BY <1>1, <1>2, <1>5
<1>7. a = (b * c) * u + w
  <2>1. (b * c) * u \in Nat
    BY <1>1, <1>2
  <2> QED
    BY <1>1, <1>4, <1>5, <2>1
<1> HIDE DEF w
<1>8. x = u
  BY <1>1, <1>2, <1>3, <1>6, <1>7, DivisionIsUnique
<1> QED
  BY <1>8 DEF x, u, q

\* The shifts and casts lose nothing of an address the registers can hold
\* (ata.c:273-277, 296-299).
LEMMA RegistersHoldAddress ==
    ASSUME NEW lba \in 0 .. (ByteSize * ByteSize * ByteSize * HighSize - 1)
    PROVE  /\ Address(AddressRegs(lba)) = lba
           /\ AddressRegs(lba) \in Registers
<1> DEFINE B == ByteSize
           q1 == lba \div B
           q2 == q1 \div B
           q3 == q2 \div B
<1>1. B \in Nat \ {0} /\ HighSize \in Nat \ {0}
  BY AtaAssumption
<1>2. B * B \in Nat \ {0} /\ B * B * B \in Nat \ {0} /\ (B * B) * B = B * B * B
  <2> HIDE DEF B
  <2> QED
    BY <1>1
<1>3. B * B * B * HighSize \in Nat
  <2> DEFINE d == B * B * B
  <2>1. d \in Nat
    BY <1>2
  <2> HIDE DEF d
  <2>2. d * HighSize \in Nat
    BY <1>1, <2>1
  <2> QED
    BY <2>2 DEF d
<1>4. lba \in Nat
  BY <1>3
<1>5. q1 \in Nat /\ q2 \in Nat /\ q3 \in Nat
  <2>1. q1 \in Nat
    BY <1>1, <1>4, Division
  <2>2. q2 \in Nat
    BY <1>1, <2>1, Division
  <2> QED
    BY <1>1, <2>1, <2>2, Division
<1>6. lba = B * q1 + (lba % B) /\ q1 = B * q2 + (q1 % B) /\ q2 = B * q3 + (q2 % B)
  BY <1>1, <1>4, <1>5, Division
<1>7. lba \div (B * B) = q2
  BY <1>1, <1>4, DivideTwice
<1>8. lba \div (B * B * B) = q3
  <2>1. lba \div ((B * B) * B) = (lba \div (B * B)) \div B
    BY <1>1, <1>2, <1>4, DivideTwice
  <2> QED
    BY <1>7, <2>1
<1>9. q3 < HighSize
  <2> DEFINE d == B * B * B
             e == lba % d
  <2>1. /\ d \in Nat \ {0} /\ e \in 0 .. (d - 1)
        /\ lba = d * q3 + e
    BY <1>2, <1>4, <1>8, Division
  <2>2. lba < d * HighSize
    BY <1>3
  <2> HIDE DEF d, e, q3
  <2>3. ASSUME q3 >= HighSize
        PROVE  FALSE
    <3>1. d * q3 >= d * HighSize
      BY <1>1, <1>5, <2>1, <2>3
    <3>2. d * q3 \in Nat /\ d * HighSize \in Nat
      BY <1>1, <1>5, <2>1
    <3> QED
      BY <2>1, <2>2, <3>1, <3>2
  <2> QED
    BY <1>1, <1>5, <2>3
<1>10. q3 % HighSize = q3
  <2> HIDE DEF q3
  <2>1. /\ q3 = HighSize * (q3 \div HighSize) + (q3 % HighSize)
        /\ q3 \div HighSize \in Nat /\ q3 % HighSize \in 0 .. (HighSize - 1)
    BY <1>1, <1>5, Division
  <2>2. q3 = HighSize * 0 + q3 /\ q3 \in 0 .. (HighSize - 1)
    BY <1>1, <1>5, <1>9
  <2> QED
    BY <1>1, <2>1, <2>2, DivisionIsUnique
<1> DEFINE r0 == lba % B
           r1 == q1 % B
           r2 == q2 % B
<1>11. AddressRegs(lba) = [lba0 |-> r0, lba1 |-> r1, lba2 |-> r2, high |-> q3]
  BY <1>7, <1>8, <1>10 DEF AddressRegs
<1>12. r0 \in Int /\ r1 \in Int /\ r2 \in Int
  BY <1>1, <1>4, <1>5, Division
<1>13. ((q3 * B + r2) * B + r1) * B + r0 = lba
  <2>1. lba = B * q1 + r0 /\ q1 = B * q2 + r1 /\ q2 = B * q3 + r2
    BY <1>6
  <2> HIDE DEF q1, q2, q3, r0, r1, r2, B
  <2>2. q3 * B = B * q3 /\ q2 * B = B * q2 /\ q1 * B = B * q1
    BY <1>1, <1>5
  <2>3. q3 * B + r2 = q2 /\ q2 * B + r1 = q1 /\ q1 * B + r0 = lba
    BY <2>1, <2>2
  <2> QED
    BY <2>3
<1> QED
  BY <1>5, <1>11, <1>12, <1>13 DEF Address, Registers

-------------------------------------------------------------------------------
(***************************************************************************)
(* The order of the probe.                                                 *)
(***************************************************************************)

LEMMA PlacesAre ==
    /\ Places = { <<0, 0>>, <<0, 1>>, <<1, 0>>, <<1, 1>> }
    /\ \A p \in Places : p[1] \in Buses /\ p[2] \in Drives /\ p = <<p[1], p[2]>>
    /\ \A p \in Places : Rank(p) \in 0 .. 3
    /\ \A p, q \in Places : Rank(p) = Rank(q) => p = q
<1>1. Places = { <<0, 0>>, <<0, 1>>, <<1, 0>>, <<1, 1>> }
  BY DEF Places, Buses, Drives
<1>2. \A p \in Places : p[1] \in Buses /\ p[2] \in Drives /\ p = <<p[1], p[2]>>
  BY DEF Places
<1>3. \A p \in Places : Rank(p) \in 0 .. 3
  BY <1>2 DEF Buses, Drives, Rank
<1>4. \A p, q \in Places : Rank(p) = Rank(q) => p = q
  <2> SUFFICES ASSUME NEW p \in Places, NEW q \in Places, Rank(p) = Rank(q)
               PROVE  p = q
    OBVIOUS
  <2>1. p[1] = q[1] /\ p[2] = q[2]
    BY <1>2 DEF Buses, Drives, Rank
  <2> QED
    BY <1>2, <2>1
<1> QED
  BY <1>1, <1>2, <1>3, <1>4

\* ata_probe() takes the places in the order of their ranks.
LEMMA ProbeGoesOn ==
    ASSUME place \in Places, NextPlace
    PROVE  \/ /\ Rank(place) = 3
              /\ pc' = "done" /\ place' = place
           \/ /\ pc' = "select" /\ place' \in Places
              /\ Rank(place') = Rank(place) + 1
<1>1. /\ Len(ProbeOrder) = 4
      /\ ProbeOrder[1] = <<0, 0>> /\ ProbeOrder[2] = <<0, 1>>
      /\ ProbeOrder[3] = <<1, 0>> /\ ProbeOrder[4] = <<1, 1>>
  BY DEF ProbeOrder
<1>2. \A i \in 1 .. 4 : ProbeOrder[i] \in Places /\ Rank(ProbeOrder[i]) = i - 1
  BY <1>1, PlacesAre DEF Rank
<1>3. \E i \in 1 .. 4 : ProbeOrder[i] = place
  BY <1>1, PlacesAre
<1>4. Position \in 1 .. 4 /\ ProbeOrder[Position] = place
  BY <1>1, <1>3 DEF Position
<1>5. Rank(place) = Position - 1
  BY <1>2, <1>4
<1>6. CASE Position = 4
  BY <1>1, <1>5, <1>6 DEF NextPlace
<1>7. CASE Position \in 1 .. 3
  <2>1. pc' = "select" /\ place' = ProbeOrder[Position + 1]
    BY <1>1, <1>7 DEF NextPlace
  <2>2. Rank(ProbeOrder[Position + 1]) = Position /\ ProbeOrder[Position + 1] \in Places
    BY <1>2, <1>7
  <2> QED
    BY <1>5, <1>7, <2>1, <2>2
<1> QED
  BY <1>4, <1>6, <1>7

-------------------------------------------------------------------------------
(***************************************************************************)
(* Facts about one state.                                                  *)
(***************************************************************************)

Phases == {"idle", "busy", "data", "error"} \cup NotYetBusy

LEMMA TypesAre ==
    ASSUME AtaTypes
    PROVE  /\ kind \in [Places -> Kinds] /\ phase \in [Places -> Phases]
           /\ left \in [Places -> 0 .. Words] /\ selected \in [Buses -> Drives]
           /\ place \in Places /\ Bus \in Buses /\ place[2] \in Drives
           /\ place = <<Bus, place[2]>>
           /\ available \in [Places -> {0, 1}] /\ sector \in Sectors \cup {0}
           /\ kind[place] \in {"none", "ata", "atapi"}
<1>1. place \in Places /\ kind \in [Places -> Kinds]
  BY DEF AtaTypes, TypeOK
<1>2. kind[place] \in {"none", "ata", "atapi"}
  BY <1>1, AtaAssumption
<1>3. Bus \in Buses /\ place[2] \in Drives /\ place = <<Bus, place[2]>>
  BY <1>1, PlacesAre DEF Bus
<1> QED
  BY <1>1, <1>2, <1>3 DEF AtaTypes, TypeOK, Phases

\* The driver talks to the drive it works on, and reads that drive's status.
LEMMA DriveAtHand ==
    ASSUME AtaInv, pc # "select"
    PROVE  /\ Selected(Bus) = place
           /\ phase[place] \in {"idle", "accepted"} => Status(Bus) = IdleStatus(kind[place])
           /\ phase[place] = "busy" => Status(Bus) = {"BSY"}
           /\ phase[place] = "data" => Status(Bus) = {"DRDY", "DRQ"}
           /\ phase[place] \in {"error", "accepted, old error"} =>
                 Status(Bus) = {"DRDY", "ERR"}
           /\ "DRQ" \in Status(Bus) => phase[place] = "data"
           /\ "ERR" \in Status(Bus) => phase[place] \in {"error", "accepted, old error"}
<1>1. Selected(Bus) = place
  BY TypesAre DEF Selected, AtaInv, Addressed
<1>2. CASE phase[place] \in {"idle", "accepted"}
  BY <1>1, <1>2 DEF Status, IdleStatus
<1>3. CASE phase[place] = "busy"
  BY <1>1, <1>3 DEF Status
<1>4. CASE phase[place] = "data"
  BY <1>1, <1>4 DEF Status
<1>5. CASE phase[place] \in {"error", "accepted, old error"}
  BY <1>1, <1>5 DEF Status
<1>6. phase[place] \in Phases
  BY TypesAre DEF AtaInv
<1> QED
  BY <1>1, <1>2, <1>3, <1>4, <1>5, <1>6 DEF Phases, NotYetBusy

\* What a status read does to the drive at hand, and what it leaves alone.
LEMMA StatusRead ==
    ASSUME AtaInv, pc \notin {"select", "id read"}, Accepted(Bus),
           UNCHANGED <<kind, command, left, selected, regs, place, buffer, available,
                       model, sector>>,
           pc' \in {"done", "read end", "panic"} \cup Identifying \cup Reading,
           Probed' <=> Probed
    PROVE  /\ phase'[place] = IF phase[place] \in NotYetBusy THEN "busy" ELSE phase[place]
           /\ \A p \in Places : p # place => phase'[p] = phase[p]
           /\ AtaTypes' /\ Addressed' /\ FoundSoFar'
<1>1. phase' = [phase EXCEPT ![place] = IF @ \in NotYetBusy THEN "busy" ELSE @]
  BY DriveAtHand DEF Accepted
<1>2. phase \in [Places -> Phases] /\ place \in Places
  BY TypesAre DEF AtaInv
<1>3. /\ phase'[place] = IF phase[place] \in NotYetBusy THEN "busy" ELSE phase[place]
      /\ \A p \in Places : p # place => phase'[p] = phase[p]
      /\ phase' \in [Places -> Phases]
  BY <1>1, <1>2 DEF Phases, NotYetBusy
<1>4. TypeOK'
  BY <1>3 DEF AtaInv, AtaTypes, TypeOK, Phases
<1>5. AtaTypes'
  BY <1>4 DEF AtaInv, AtaTypes
<1>6. Addressed'
  BY DEF AtaInv, Addressed, Bus
<1>7. ProbeDone' = ProbeDone
  BY DEF ProbeDone
<1>8. FoundSoFar'
  BY <1>7 DEF AtaInv, FoundSoFar
<1> QED
  BY <1>3, <1>5, <1>6, <1>8

\* While the drive's data does not change, what is in the buffer stays what
\* it has sent.
LEMMA BufferKept ==
    ASSUME NEW cmd, NEW at, BufferIsSent(cmd, at),
           UNCHANGED <<place, buffer, left>>,
           phase'[place] = "data" <=> phase[place] = "data"
    PROVE  BufferIsSent(cmd, at)'
BY DEF BufferIsSent

LEMMA BufferStarts ==
    ASSUME NEW cmd, NEW at, buffer' = <<>>, phase'[place'] # "data"
    PROVE  BufferIsSent(cmd, at)'
BY NothingSent DEF BufferIsSent

-------------------------------------------------------------------------------
(***************************************************************************)
(* The status reads.                                                       *)
(***************************************************************************)

LEMMA IdentifyPolls ==
    ASSUME AtaInv, Present \/ ata_poll_status_busy \/ IdentifyWait
    PROVE  AtaInv'
<1>1. /\ pc \in {"present", "id busy", "id wait"} /\ Accepted(Bus)
      /\ UNCHANGED <<kind, command, left, selected, regs, place, buffer, available,
                     model, sector>>
      /\ pc' \in Identifying
      /\ pc' = "present" => FALSE
      /\ pc' = "id wait" => phase[place] # "busy" \/ pc = "id wait"
      /\ pc = "id wait" => "ERR" \notin Status(Bus)
      /\ pc' = "id read" => "DRQ" \in Status(Bus)
      /\ pc = "present" => Status(Bus) # {}
  <2>1. CASE Present
    BY <2>1 DEF Present, Poll, Identifying
  <2>2. CASE ata_poll_status_busy
    BY <2>2, DriveAtHand DEF ata_poll_status_busy, Poll, Identifying
  <2>3. CASE IdentifyWait
    BY <2>3 DEF IdentifyWait, Poll, Identifying
  <2> QED
    BY <2>1, <2>2, <2>3
<1>2. Probed' <=> Probed
  BY <1>1 DEF Probed, Identifying
<1>3. /\ phase'[place] = IF phase[place] \in NotYetBusy THEN "busy" ELSE phase[place]
      /\ \A p \in Places : p # place => phase'[p] = phase[p]
      /\ AtaTypes' /\ Addressed' /\ FoundSoFar'
  BY <1>1, <1>2, StatusRead
<1>4. kind[place] # "none"
  <2>1. ASSUME kind[place] = "none" PROVE FALSE
    <3>1. pc = "present" /\ phase[place] = "idle"
      BY <1>1, <2>1, TypesAre DEF AtaInv, IdentifyPhases, DrivesAtRest, Identifying
    <3> QED
      BY <1>1, <2>1, <3>1, DriveAtHand DEF IdleStatus
  <2> QED
    BY <2>1
<1>5. IdentifyPhases'
  <2>1. /\ command[place] = "IDENTIFY" /\ BufferIsSent("IDENTIFY", 0)
        /\ phase[place] \in {"busy", IF kind[place] = "ata" THEN "data" ELSE "error"}
                               \cup (IF pc = "present" THEN NotYetBusy ELSE {})
        /\ pc = "id wait" => phase[place] # "busy"
    BY <1>1, <1>4 DEF AtaInv, IdentifyPhases, Identifying
  <2>2. BufferIsSent("IDENTIFY", 0)'
    BY <1>1, <1>3, <2>1, BufferKept DEF NotYetBusy
  <2>3. phase'[place] \in {"busy", IF kind[place] = "ata" THEN "data" ELSE "error"}
    BY <1>1, <1>3, <2>1
  <2>4. pc' = "id wait" => phase'[place] # "busy"
    <3>1. CASE pc = "id wait"
      BY <1>1, <1>3, <2>1, <3>1 DEF NotYetBusy
    <3>2. CASE pc = "id busy"
      BY <1>1, <1>3, <2>1, <3>2 DEF NotYetBusy
    <3>3. CASE pc = "present"
      BY <3>3, <1>1 DEF Present, Poll, ata_poll_status_busy, IdentifyWait
    <3> QED
      BY <1>1, <3>1, <3>2, <3>3
  <2>5. pc' = "id read" => phase'[place] = "data"
    <3> SUFFICES ASSUME pc' = "id read" PROVE phase'[place] = "data"
      OBVIOUS
    <3>1. pc = "id wait" /\ "DRQ" \in Status(Bus)
      BY <1>1 DEF Present, Poll, ata_poll_status_busy, IdentifyWait
    <3>2. phase[place] = "data"
      BY <3>1, DriveAtHand
    <3> QED
      BY <1>3, <3>2 DEF NotYetBusy
  <2> QED
    BY <1>1, <1>4, <2>1, <2>2, <2>3, <2>4, <2>5 DEF IdentifyPhases
<1>6. ReadPhases'
  BY <1>1 DEF ReadPhases, Identifying, Reading
<1>7. DrivesAtRest'
  BY <1>1, <1>3 DEF AtaInv, DrivesAtRest, Identifying, NotYetBusy
<1> QED
  BY <1>3, <1>5, <1>6, <1>7 DEF AtaInv

LEMMA ReadPolls ==
    ASSUME AtaInv,
           \/ ReadDelay \/ ReadBusy \/ ReadFailed
           \/ ReadWait \/ ReadEnd
    PROVE  AtaInv'
<1>1. /\ pc \in {"read delay", "read busy", "read wait", "read end"} /\ Accepted(Bus)
      /\ UNCHANGED <<kind, command, left, selected, regs, place, buffer, available,
                     model, sector>>
      /\ \/ pc = "read delay" /\ pc' = "read busy"
         \/ pc = "read busy" /\ pc' = "read busy"
         \/ pc = "read busy" /\ pc' = "read wait" /\ "BSY" \notin Status(Bus)
         \/ pc = "read wait" /\ pc' = "read wait"
         \/ pc = "read wait" /\ pc' = "panic"
         \/ pc = "read wait" /\ pc' = "read" /\ "DRQ" \in Status(Bus)
         \/ pc = "read end" /\ pc' = "done"
  <2>1. CASE ReadDelay
    BY <2>1 DEF ReadDelay, Poll
  <2>2. CASE ReadBusy
    BY <2>2 DEF ReadBusy, Poll
  <2>3. CASE ReadFailed
    BY <2>3 DEF ReadFailed, Poll
  <2>4. CASE ReadWait
    BY <2>4 DEF ReadWait, Poll
  <2>5. CASE ReadEnd
    BY <2>5 DEF ReadEnd, Poll
  <2> QED
    BY <2>1, <2>2, <2>3, <2>4, <2>5
<1>2. Probed' <=> Probed
  BY <1>1 DEF Probed
<1>3. /\ phase'[place] = IF phase[place] \in NotYetBusy THEN "busy" ELSE phase[place]
      /\ \A p \in Places : p # place => phase'[p] = phase[p]
      /\ AtaTypes' /\ Addressed' /\ FoundSoFar'
  BY <1>1, <1>2, StatusRead DEF Reading
<1>4. kind[place] = "ata" /\ sector \in Sectors
  BY <1>1 DEF AtaInv, ReadPhases, Reading
<1>5. IdentifyPhases'
  BY <1>1 DEF IdentifyPhases, Identifying
<1>6. ReadPhases'
  <2>1. CASE pc' \in {"done", "panic"}
    BY <2>1 DEF ReadPhases, Reading
  <2>2. CASE pc' \in {"read busy", "read wait", "read"}
    <3>1. pc \in Reading /\ pc' \in Reading
      BY <1>1, <2>2 DEF Reading
    <3>2. /\ command[place] = "READ_PIO" /\ BufferIsSent("READ_PIO", sector)
          /\ regs[Bus] = AddressRegs(sector)
          /\ phase[place] \in {"busy", "data", "error"}
                                 \cup (IF pc = "read delay" THEN NotYetBusy ELSE {})
          /\ pc = "read wait" => phase[place] # "busy"
      BY <3>1 DEF AtaInv, ReadPhases
    <3>3. BufferIsSent("READ_PIO", sector)'
      <4>1. PICK at : at = sector
        OBVIOUS
      <4>2. BufferIsSent("READ_PIO", at)
        BY <3>2, <4>1
      <4>3. BufferIsSent("READ_PIO", at)'
        BY <1>1, <1>3, <4>2, BufferKept DEF NotYetBusy
      <4> QED
        BY <1>1, <4>1, <4>3 DEF BufferIsSent
    <3>4. phase'[place] \in {"busy", "data", "error"}
      BY <1>3, <3>2 DEF NotYetBusy
    <3>5. pc' = "read wait" => phase'[place] # "busy"
      BY <1>1, <1>3, <3>2, DriveAtHand DEF NotYetBusy
    <3>6. ASSUME pc' = "read" PROVE phase'[place] = "data"
      <4>1. pc = "read wait" /\ "DRQ" \in Status(Bus)
        BY <1>1, <3>6
      <4>2. phase[place] = "data"
        BY <4>1, DriveAtHand
      <4> QED
        BY <1>3, <4>2 DEF NotYetBusy
    <3>7. regs'[Bus'] = AddressRegs(sector')
      BY <1>1, <3>2 DEF Bus
    <3> QED
      BY <1>1, <1>4, <2>2, <3>1, <3>2, <3>3, <3>4, <3>5, <3>6, <3>7 DEF ReadPhases
  <2> QED
    BY <1>1, <2>1, <2>2
<1>7. DrivesAtRest'
  BY <1>1, <1>3 DEF AtaInv, DrivesAtRest, Reading, NotYetBusy
<1> QED
  BY <1>3, <1>5, <1>6, <1>7 DEF AtaInv

-------------------------------------------------------------------------------
(***************************************************************************)
(* Selecting a drive and sending commands.                                 *)
(***************************************************************************)

LEMMA SelectStep ==
    ASSUME AtaInv, ata_select_drive
    PROVE  AtaInv'
<1>1. /\ pc = "select" /\ pc' = "identify"
      /\ selected' = [selected EXCEPT ![Bus] = place[2]]
      /\ regs' = [regs EXCEPT ![Bus].high = 0]
      /\ UNCHANGED <<kind, phase, command, left, place, buffer, available, model, sector>>
  BY DEF ata_select_drive, drives
<1>2. selected' \in [Buses -> Drives] /\ selected'[Bus] = place[2]
  BY <1>1, TypesAre DEF AtaInv
<1>3. AtaTypes'
  <2>1. regs' \in [Buses -> Registers]
    <3>1. regs \in [Buses -> Registers] /\ regs[Bus] \in Registers
      BY TypesAre DEF AtaInv, AtaTypes
    <3>2. [regs[Bus] EXCEPT !.high = 0] \in Registers
      BY <3>1 DEF Registers
    <3>3. regs' = [regs EXCEPT ![Bus] = [regs[Bus] EXCEPT !.high = 0]]
      BY <1>1
    <3> QED
      BY <3>1, <3>2, <3>3
  <2> QED
    BY <1>1, <1>2, <2>1 DEF AtaInv, AtaTypes, TypeOK
<1>4. Addressed'
  BY <1>1, <1>2 DEF Addressed, Bus
<1>5. IdentifyPhases' /\ ReadPhases'
  BY <1>1 DEF IdentifyPhases, ReadPhases, Identifying, Reading
<1>6. DrivesAtRest'
  BY <1>1 DEF AtaInv, DrivesAtRest
<1>7. ProbeDone' = ProbeDone
  BY <1>1 DEF ProbeDone, Probed
<1>8. FoundSoFar'
  BY <1>1, <1>7 DEF AtaInv, FoundSoFar
<1> QED
  BY <1>3, <1>4, <1>5, <1>6, <1>8 DEF AtaInv

\* What a command does to the drive at hand.
LEMMA CommandWritten ==
    ASSUME AtaInv, pc # "select", NEW cmd \in Commands, WriteCommand(Bus, cmd),
           UNCHANGED <<kind, place>>
    PROVE  /\ phase' \in [Places -> Phases] /\ left' \in [Places -> 0 .. Words]
           /\ command' \in [Places -> Commands]
           /\ \A p \in Places : p # place => phase'[p] = phase[p] /\ left'[p] = left[p]
           /\ kind[place] # "none" => phase'[place] \in NotYetBusy /\ command'[place] = cmd
           /\ kind[place] = "none" => phase'[place] = "idle"
<1>1. /\ place \in Places /\ phase \in [Places -> Phases] /\ left \in [Places -> 0 .. Words]
      /\ command \in [Places -> Commands] /\ Words \in Nat
  BY TypesAre, AtaAssumption DEF AtaInv, AtaTypes
<1>2. Selected(Bus) = place
  BY DriveAtHand
<1>3. CASE kind[place] = "none"
  <2>1. UNCHANGED <<phase, command, left>>
    BY <1>2, <1>3 DEF WriteCommand
  <2>2. phase[place] = "idle"
    BY <1>1, <1>3 DEF AtaInv, DrivesAtRest
  <2> QED
    BY <1>1, <1>3, <2>1, <2>2
<1>4. CASE kind[place] # "none"
  <2>1. /\ phase' = [phase EXCEPT ![place] =
                         IF @ = "error" THEN "accepted, old error" ELSE "accepted"]
        /\ command' = [command EXCEPT ![place] = cmd]
        /\ left' = [left EXCEPT ![place] = 0]
    BY <1>2, <1>4 DEF WriteCommand
  <2>2. /\ phase' \in [Places -> Phases] /\ phase'[place] \in NotYetBusy
        /\ \A p \in Places : p # place => phase'[p] = phase[p]
    BY <1>1, <2>1 DEF Phases, NotYetBusy
  <2>3. command' \in [Places -> Commands] /\ command'[place] = cmd
    BY <1>1, <2>1
  <2>4. /\ left' \in [Places -> 0 .. Words]
        /\ \A p \in Places : p # place => left'[p] = left[p]
    <3>1. 0 \in 0 .. Words
      BY <1>1
    <3> QED
      BY <1>1, <2>1, <3>1
  <2> QED
    BY <1>4, <2>2, <2>3, <2>4
<1> QED
  BY <1>3, <1>4

LEMMA SendIdentifyStep ==
    ASSUME AtaInv, SendIdentify
    PROVE  AtaInv'
<1>1. /\ pc = "identify" /\ pc' = "present" /\ WriteCommand(Bus, "IDENTIFY")
      /\ regs' = [regs EXCEPT ![Bus] = [NoRegs EXCEPT !.high = regs[Bus].high]]
      /\ buffer' = <<>>
      /\ UNCHANGED <<kind, selected, place, available, model, sector>>
  BY DEF SendIdentify
<1>2. /\ phase' \in [Places -> Phases] /\ left' \in [Places -> 0 .. Words]
      /\ command' \in [Places -> Commands]
      /\ \A p \in Places : p # place => phase'[p] = phase[p] /\ left'[p] = left[p]
      /\ kind[place] # "none" =>
            phase'[place] \in NotYetBusy /\ command'[place] = "IDENTIFY"
      /\ kind[place] = "none" => phase'[place] = "idle"
  <2>1. "IDENTIFY" \in Commands
    BY DEF Commands
  <2> QED
    BY <1>1, <2>1, CommandWritten
<1>3. AtaTypes'
  <2>1. Len(buffer') <= 2 * Words
    <3>1. Len(buffer') = 0
      BY <1>1
    <3> QED
      BY <3>1, AtaAssumption
  <2>2. TypeOK'
    BY <1>1, <1>2, <2>1 DEF AtaInv, AtaTypes, TypeOK, Phases
  <2>3. regs' \in [Buses -> Registers]
    <3>1. regs \in [Buses -> Registers] /\ regs[Bus] \in Registers
      BY TypesAre DEF AtaInv, AtaTypes
    <3>2. [NoRegs EXCEPT !.high = regs[Bus].high] \in Registers
      BY <3>1 DEF NoRegs, Registers
    <3> QED
      BY <1>1, <3>1, <3>2
  <2> QED
    BY <1>1, <1>2, <2>2, <2>3 DEF AtaInv, AtaTypes, Identifying
<1>4. Addressed'
  BY <1>1 DEF AtaInv, Addressed, Bus
<1>5. phase'[place] # "data" /\ phase'[place] # "busy"
  BY <1>2, TypesAre DEF AtaInv, NotYetBusy
<1>6. BufferIsSent("IDENTIFY", 0)'
  BY <1>1, <1>5, BufferStarts
<1>7. IdentifyPhases'
  BY <1>1, <1>2, <1>5, <1>6 DEF IdentifyPhases, Identifying
<1>8. ReadPhases'
  BY <1>1 DEF ReadPhases, Reading
<1>9. DrivesAtRest'
  BY <1>1, <1>2, <1>5 DEF AtaInv, DrivesAtRest
<1>10. ProbeDone' = ProbeDone
  BY <1>1 DEF ProbeDone, Probed
<1>11. FoundSoFar'
  BY <1>1, <1>10 DEF AtaInv, FoundSoFar
<1> QED
  BY <1>3, <1>4, <1>7, <1>8, <1>9, <1>11 DEF AtaInv

LEMMA SendReadStep ==
    ASSUME AtaInv, SendRead
    PROVE  AtaInv'
<1>1. /\ pc = "read command" /\ pc' = "read delay" /\ WriteCommand(Bus, "READ_PIO")
      /\ regs' = [regs EXCEPT ![Bus] = [AddressRegs(sector) EXCEPT !.high = regs[Bus].high]]
      /\ UNCHANGED <<kind, selected, place, buffer, available, model, sector>>
  BY DEF SendRead
<1>2. /\ phase' \in [Places -> Phases] /\ left' \in [Places -> 0 .. Words]
      /\ command' \in [Places -> Commands]
      /\ \A p \in Places : p # place => phase'[p] = phase[p] /\ left'[p] = left[p]
      /\ kind[place] # "none" =>
            phase'[place] \in NotYetBusy /\ command'[place] = "READ_PIO"
  <2>1. "READ_PIO" \in Commands
    BY DEF Commands
  <2> QED
    BY <1>1, <2>1, CommandWritten
<1>3. /\ kind[place] = "ata" /\ sector \in Sectors /\ buffer = <<>>
      /\ regs[Bus].high = AddressRegs(sector).high
  BY <1>1 DEF AtaInv, ReadPhases
<1>4. /\ regs' \in [Buses -> Registers]
      /\ regs'[Bus] = AddressRegs(sector)
  <2>1. /\ regs \in [Buses -> Registers]
        /\ Bus \in Buses
    BY TypesAre DEF AtaInv, AtaTypes
  <2>2. AddressRegs(sector) \in Registers
    BY <1>3, RegistersHoldAddress, AtaAssumption
  <2>3. [AddressRegs(sector) EXCEPT !.high = regs[Bus].high] = AddressRegs(sector)
    BY <1>3, <2>2 DEF Registers
  <2> QED
    BY <1>1, <2>1, <2>2, <2>3
<1>5. AtaTypes'
  <2>1. TypeOK'
    BY <1>1, <1>2 DEF AtaInv, AtaTypes, TypeOK, Phases
  <2> QED
    BY <1>1, <1>2, <1>4, <2>1 DEF AtaInv, AtaTypes, Reading
<1>6. Addressed'
  BY <1>1 DEF AtaInv, Addressed, Bus
<1>7. phase'[place] # "data" /\ phase'[place] # "busy"
  BY <1>2, <1>3 DEF NotYetBusy
<1>8. BufferIsSent("READ_PIO", sector)'
  <2>1. BufferIsSent("READ_PIO", sector)' <=>
            buffer' = Sent(place', "READ_PIO", sector', 0)
    BY <1>1, <1>7 DEF BufferIsSent
  <2> QED
    BY <1>1, <1>3, <2>1, NothingSent
<1>9. ReadPhases'
  BY <1>1, <1>2, <1>3, <1>4, <1>7, <1>8 DEF ReadPhases, Reading, Bus
<1>10. IdentifyPhases'
  BY <1>1 DEF IdentifyPhases, Identifying
<1>11. DrivesAtRest'
  BY <1>1, <1>2, <1>3, <1>7 DEF AtaInv, DrivesAtRest
<1>12. ProbeDone' = ProbeDone
  BY <1>1 DEF ProbeDone, Probed
<1>13. FoundSoFar'
  BY <1>1, <1>12 DEF AtaInv, FoundSoFar
<1> QED
  BY <1>5, <1>6, <1>9, <1>10, <1>11, <1>13 DEF AtaInv

LEMMA CallStep ==
    ASSUME AtaInv, NEW p \in Places, NEW lba \in Sectors, ata_read_sector(p, lba)
    PROVE  AtaInv'
<1>1. /\ pc = "done" /\ pc' = "read command" /\ available[p] = 1
      /\ place' = p /\ buffer' = <<>> /\ sector' = lba
      /\ selected' = [selected EXCEPT ![p[1]] = p[2]]
      /\ regs' = [regs EXCEPT ![p[1]] = [@ EXCEPT !.high = AddressRegs(lba).high]]
      /\ UNCHANGED <<kind, phase, command, left, available, model>>
  BY DEF ata_read_sector, drives
<1>2. p[1] \in Buses /\ p[2] \in Drives
  BY PlacesAre
<1>3. kind[p] = "ata"
  BY <1>1 DEF AtaInv, FoundSoFar, ProbeDone, Probed
<1>4. selected' \in [Buses -> Drives] /\ selected'[p[1]] = p[2]
  BY <1>1, <1>2, TypesAre DEF AtaInv
<1>5. AddressRegs(lba).high \in Int
  <2>1. AddressRegs(lba) \in Registers
    BY RegistersHoldAddress, AtaAssumption
  <2> QED
    BY <2>1 DEF Registers
<1>6. /\ regs' \in [Buses -> Registers]
      /\ regs'[p[1]].high = AddressRegs(lba).high
  <2> DEFINE r == [regs[p[1]] EXCEPT !.high = AddressRegs(lba).high]
  <2>1. regs \in [Buses -> Registers]
    BY DEF AtaInv, AtaTypes
  <2>2. r \in Registers /\ r.high = AddressRegs(lba).high
    <3>1. regs[p[1]] \in Registers
      BY <1>2, <2>1
    <3> HIDE DEF AddressRegs
    <3> QED
      BY <1>5, <3>1 DEF Registers
  <2>3. regs' = [regs EXCEPT ![p[1]] = r]
    BY <1>1
  <2> HIDE DEF r
  <2> QED
    BY <1>2, <2>1, <2>2, <2>3
<1>7. AtaTypes'
  <2>1. Len(buffer') <= 2 * Words
    <3>1. Len(buffer') = 0
      BY <1>1
    <3> QED
      BY <3>1, AtaAssumption
  <2>2. TypeOK'
    BY <1>1, <1>4, <2>1 DEF AtaInv, AtaTypes, TypeOK
  <2> QED
    BY <1>1, <1>6, <2>2 DEF AtaInv, AtaTypes
<1>8. Addressed'
  BY <1>1, <1>4 DEF Addressed, Bus
<1>9. ReadPhases'
  BY <1>1, <1>3, <1>6 DEF ReadPhases, Reading, Bus
<1>10. IdentifyPhases'
  BY <1>1 DEF IdentifyPhases, Identifying
<1>11. DrivesAtRest'
  BY <1>1 DEF AtaInv, DrivesAtRest
<1>12. ProbeDone' = Places /\ ProbeDone = Places
  BY <1>1 DEF ProbeDone, Probed
<1>13. FoundSoFar'
  BY <1>1, <1>12 DEF AtaInv, FoundSoFar
<1> QED
  BY <1>7, <1>8, <1>9, <1>10, <1>11, <1>13 DEF AtaInv

-------------------------------------------------------------------------------
(***************************************************************************)
(* The probe goes on: to the next place, or to its end.                    *)
(***************************************************************************)

LEMMA PlaceIsDone ==
    ASSUME AtaInv, pc \in Identifying, NextPlace
    PROVE  /\ place' \in Places /\ pc' \in {"select", "done"}
           /\ pc' = "done" => place' = place
           /\ place \notin ProbeDone
           /\ ProbeDone' = ProbeDone \cup {place}
<1>1. place \in Places /\ ~Probed
  BY TypesAre DEF AtaInv, Probed, Identifying
<1>2. /\ place \notin ProbeDone
      /\ ProbeDone = {p \in Places : Rank(p) < Rank(place)}
  BY <1>1, PlacesAre DEF ProbeDone
<1>3. CASE Rank(place) = 3 /\ pc' = "done" /\ place' = place
  <2>1. ProbeDone' = Places
    BY <1>3 DEF ProbeDone, Probed
  <2>2. \A p \in Places : Rank(p) < 3 \/ p = place
    <3> SUFFICES ASSUME NEW p \in Places PROVE Rank(p) < 3 \/ p = place
      OBVIOUS
    <3>1. Rank(p) \in 0 .. 3
      BY PlacesAre
    <3>2. Rank(p) = 3 => p = place
      BY <1>1, <1>3, PlacesAre
    <3> QED
      BY <3>1, <3>2
  <2> QED
    BY <1>1, <1>2, <1>3, <2>1, <2>2
<1>4. CASE pc' = "select" /\ place' \in Places /\ Rank(place') = Rank(place) + 1
  <2>1. ProbeDone' = {p \in Places : Rank(p) < Rank(place) + 1}
    BY <1>4 DEF ProbeDone, Probed
  <2>2. \A p \in Places : Rank(p) < Rank(place) + 1 <=> Rank(p) < Rank(place) \/ p = place
    <3> SUFFICES ASSUME NEW p \in Places
                 PROVE  Rank(p) < Rank(place) + 1 <=> Rank(p) < Rank(place) \/ p = place
      OBVIOUS
    <3>1. Rank(p) \in 0 .. 3 /\ Rank(place) \in 0 .. 3
      BY <1>1, PlacesAre
    <3>2. Rank(p) = Rank(place) => p = place
      BY <1>1, PlacesAre
    <3> QED
      BY <3>1, <3>2
  <2> QED
    BY <1>1, <1>2, <1>4, <2>1, <2>2
<1> QED
  BY <1>1, <1>3, <1>4, ProbeGoesOn

\* Nothing is attached, or the device refused: either way it is no disk.
LEMMA GiveUpSteps ==
    ASSUME AtaInv, NotPresent \/ IdentifyFailed
    PROVE  AtaInv'
<1>1. /\ pc \in {"present", "id wait"} /\ NextPlace
      /\ UNCHANGED <<kind, command, left, selected, regs, buffer, available, model,
                     sector>>
  BY DEF NotPresent, IdentifyFailed, Identifying, drives
<1>2. kind[place] # "ata"
  <2> SUFFICES ASSUME kind[place] = "ata" PROVE FALSE
    OBVIOUS
  <2>1. phase[place] \in {"busy", "data"} \cup (IF pc = "present" THEN NotYetBusy ELSE {})
    BY <1>1 DEF AtaInv, IdentifyPhases, Identifying
  <2>2. CASE NotPresent
    <3>1. Status(Bus) = {} /\ pc = "present"
      BY <2>2 DEF NotPresent
    <3>2. "DRDY" \in Status(Bus) \/ "BSY" \in Status(Bus)
      BY <2>1, <3>1, DriveAtHand DEF NotYetBusy, IdleStatus
    <3> QED
      BY <3>1, <3>2
  <2>3. CASE IdentifyFailed
    <3>1. "ERR" \in Status(Bus) /\ pc = "id wait"
      BY <2>3 DEF IdentifyFailed
    <3> QED
      BY <2>1, <3>1, DriveAtHand
  <2> QED
    BY <2>2, <2>3
<1>3. /\ phase' \in [Places -> Phases]
      /\ \A p \in Places : p # place => phase'[p] = phase[p]
      /\ phase'[place] = "data" => phase[place] = "data"
      /\ phase[place] = "idle" => phase'[place] = "idle"
  <2>1. phase \in [Places -> Phases] /\ place \in Places /\ Selected(Bus) = place
    BY <1>1, TypesAre, DriveAtHand DEF AtaInv
  <2>2. CASE NotPresent
    <3>1. phase' = [phase EXCEPT ![place] = IF @ \in NotYetBusy THEN "busy" ELSE @]
      BY <2>1, <2>2 DEF NotPresent, Accepted
    <3> QED
      BY <2>1, <3>1 DEF Phases, NotYetBusy
  <2>3. CASE IdentifyFailed
    BY <2>1, <2>3 DEF IdentifyFailed, drives
  <2> QED
    BY <2>2, <2>3
<1>4. /\ place' \in Places /\ pc' \in {"select", "done"}
      /\ pc' = "done" => place' = place
      /\ place \notin ProbeDone /\ ProbeDone' = ProbeDone \cup {place}
  BY <1>1, PlaceIsDone DEF Identifying
<1>5. AtaTypes'
  <2>1. TypeOK'
    BY <1>1, <1>3, <1>4 DEF AtaInv, AtaTypes, TypeOK, Phases
  <2> QED
    BY <1>1, <1>4, <2>1 DEF AtaInv, AtaTypes
<1>6. Addressed'
  BY <1>1, <1>4 DEF AtaInv, Addressed, Bus
<1>7. IdentifyPhases' /\ ReadPhases'
  BY <1>4 DEF IdentifyPhases, ReadPhases, Identifying, Reading
<1>8. DrivesAtRest'
  BY <1>1, <1>2, <1>3, <1>4 DEF AtaInv, DrivesAtRest
<1>9. FoundSoFar'
  <2>1. place \in Places /\ available[place] # 1
    BY <1>1, <1>4, TypesAre DEF AtaInv, FoundSoFar
  <2>2. \A p \in Places \ ProbeDone : available[p] # 1
    BY <1>1, <2>1 DEF AtaInv, FoundSoFar
  <2>3. \A p \in ProbeDone' :
            /\ available[p] = 1 <=> kind[p] = "ata"
            /\ kind[p] = "ata" => model[p] = Answer(p, "IDENTIFY", 0)
    BY <1>2, <1>4, <2>1 DEF AtaInv, FoundSoFar
  <2> QED
    BY <1>1, <1>4, <2>2, <2>3 DEF FoundSoFar
<1> QED
  BY <1>5, <1>6, <1>7, <1>8, <1>9 DEF AtaInv

-------------------------------------------------------------------------------
(***************************************************************************)
(* Reading words.                                                          *)
(***************************************************************************)

LEMMA OnlineStep ==
    ASSUME AtaInv, IdentifyOnline
    PROVE  AtaInv'
<1>1. /\ pc = "id read" /\ available' = [available EXCEPT ![place] = 1]
      /\ UNCHANGED <<kind, phase, command, left, selected, regs, pc, place, buffer, model,
                     sector>>
  BY DEF IdentifyOnline, drives
<1>2. available' \in [Places -> {0, 1}]
  BY <1>1, TypesAre DEF AtaInv
<1>3. AtaTypes'
  BY <1>1, <1>2 DEF AtaInv, AtaTypes, TypeOK
<1>4. Addressed' /\ DrivesAtRest'
  BY <1>1 DEF AtaInv, Addressed, DrivesAtRest, Bus
<1>5. BufferIsSent("IDENTIFY", 0) => BufferIsSent("IDENTIFY", 0)'
  BY <1>1, BufferKept
<1>6. IdentifyPhases'
  BY <1>1, <1>5 DEF AtaInv, IdentifyPhases
<1>7. ReadPhases'
  BY <1>1 DEF ReadPhases, Reading
<1>8. /\ ProbeDone' = ProbeDone /\ place \notin ProbeDone
      /\ \A p \in Places : p # place => available'[p] = available[p]
  <2>1. ProbeDone' = ProbeDone
    BY <1>1 DEF ProbeDone, Probed
  <2>2. place \in Places /\ Rank(place) \in 0 .. 3
    BY TypesAre, PlacesAre DEF AtaInv
  <2>3. place \notin ProbeDone
    <3>1. ~(Rank(place) < Rank(place))
      BY <2>2
    <3>2. ~Probed
      BY <1>1 DEF Probed
    <3> QED
      BY <3>1, <3>2 DEF ProbeDone
  <2>4. \A p \in Places : p # place => available'[p] = available[p]
    BY <1>1, TypesAre DEF AtaInv
  <2> QED
    BY <2>1, <2>3, <2>4
<1>9. FoundSoFar'
  <2>1. \A p \in ProbeDone : p \in Places /\ p # place
    BY <1>8 DEF ProbeDone
  <2> QED
    BY <1>1, <1>8, <2>1 DEF AtaInv, FoundSoFar
<1> QED
  BY <1>3, <1>4, <1>6, <1>7, <1>9 DEF AtaInv

\* The next word goes behind those that are in the buffer, and the driver
\* takes for the last word the one the drive does.
LEMMA WordRead ==
    ASSUME AtaInv, pc # "select", NEW cmd \in {"IDENTIFY", "READ_PIO"}, NEW at,
           BufferIsSent(cmd, at), command[place] = cmd, ReadWord,
           at = IF cmd = "IDENTIFY" THEN 0 ELSE Address(regs[Bus])
    PROVE  /\ phase[place] = "data" /\ kind[place] = "ata" /\ left[place] \in 1 .. Words
           /\ LastWord <=> left[place] = 1
           /\ buffer' = Sent(place, cmd, at, Words - left[place] + 1)
           /\ Len(buffer') <= 2 * Words
           /\ left' \in [Places -> 0 .. Words] /\ left'[place] = left[place] - 1
           /\ phase' \in [Places -> Phases]
           /\ phase'[place] = IF left[place] = 1 THEN "idle" ELSE "data"
           /\ \A p \in Places : p # place => left'[p] = left[p] /\ phase'[p] = phase[p]
           /\ UNCHANGED <<kind, command, selected, regs, sector>>
<1>1. /\ Selected(Bus) = place /\ place \in Places /\ phase \in [Places -> Phases]
      /\ left \in [Places -> 0 .. Words] /\ Words \in Nat
  BY DriveAtHand, TypesAre, AtaAssumption DEF AtaInv
<1>2. /\ phase[place] = "data"
      /\ buffer' = buffer \o WordOf(place, Words - left[place] + 1)
      /\ left' = [left EXCEPT ![place] = @ - 1]
      /\ phase' = [phase EXCEPT ![place] = IF left[place] = 1 THEN "idle" ELSE @]
      /\ UNCHANGED <<kind, command, selected, regs, sector>>
  BY <1>1 DEF ReadWord
<1>3. kind[place] = "ata" /\ left[place] \in 1 .. Words
  BY <1>1, <1>2 DEF AtaInv, DrivesAtRest
<1> DEFINE k == Words - left[place]
<1>4. k \in Nat /\ k + 1 = Words - left[place] + 1 /\ k + 1 <= Words
  BY <1>1, <1>3
<1>5. buffer = Sent(place, cmd, at, k)
  BY <1>2 DEF BufferIsSent
<1>6. WordOf(place, k + 1) =
         IF cmd = "IDENTIFY"
         THEN << Byte(place, cmd, at, 2 * (k + 1)), Byte(place, cmd, at, 2 * (k + 1) - 1) >>
         ELSE << Byte(place, cmd, at, 2 * (k + 1) - 1), Byte(place, cmd, at, 2 * (k + 1)) >>
  <2> HIDE DEF k
  <2> QED
    BY DEF WordOf, Bus
<1>7. buffer' = Sent(place, cmd, at, k + 1)
  <2> HIDE DEF k
  <2>1. Sent(place, cmd, at, k) \o WordOf(place, k + 1) = Sent(place, cmd, at, k + 1)
    BY <1>4, <1>6, WordSent
  <2> QED
    BY <1>2, <1>4, <1>5, <2>1
<1>8. LastWord <=> left[place] = 1
  <2>1. Len(buffer) = 2 * k
    BY <1>4, <1>5, SentIsSequence
  <2> QED
    BY <1>1, <1>3, <2>1 DEF LastWord
<1>9. Len(buffer') <= 2 * Words
  <2>1. k + 1 \in Nat
    BY <1>4
  <2>2. Len(buffer') = 2 * (k + 1)
    BY <1>7, <2>1, SentIsSequence
  <2> QED
    BY <1>1, <1>4, <2>2
<1>10. /\ left' \in [Places -> 0 .. Words] /\ left'[place] = left[place] - 1
       /\ \A p \in Places : p # place => left'[p] = left[p]
  <2>1. left[place] - 1 \in 0 .. Words
    BY <1>1, <1>3
  <2> QED
    BY <1>1, <1>2, <2>1
<1>11. /\ phase' \in [Places -> Phases]
       /\ phase'[place] = IF left[place] = 1 THEN "idle" ELSE "data"
       /\ \A p \in Places : p # place => phase'[p] = phase[p]
  BY <1>1, <1>2 DEF Phases
<1> QED
  BY <1>2, <1>3, <1>4, <1>7, <1>8, <1>9, <1>10, <1>11

LEMMA IdentifyReadStep ==
    ASSUME AtaInv, IdentifyRead
    PROVE  AtaInv'
<1>1. /\ pc = "id read" /\ ~LastWord /\ ReadWord
      /\ UNCHANGED <<pc, place, available, model>>
  BY DEF IdentifyRead
<1>2. kind[place] # "none" /\ command[place] = "IDENTIFY" /\ BufferIsSent("IDENTIFY", 0)
  BY <1>1 DEF AtaInv, IdentifyPhases, Identifying
<1>3. /\ kind[place] = "ata" /\ left[place] \in 1 .. Words /\ left[place] # 1
      /\ buffer' = Sent(place, "IDENTIFY", 0, Words - left[place] + 1)
      /\ Len(buffer') <= 2 * Words
      /\ left' \in [Places -> 0 .. Words] /\ left'[place] = left[place] - 1
      /\ phase' \in [Places -> Phases] /\ phase'[place] = "data"
      /\ \A p \in Places : p # place => left'[p] = left[p] /\ phase'[p] = phase[p]
      /\ UNCHANGED <<kind, command, selected, regs, sector>>
  BY <1>1, <1>2, WordRead
<1>4. left'[place] \in 1 .. Words /\ Words - left'[place] = Words - left[place] + 1
  BY <1>3, AtaAssumption
<1>5. AtaTypes'
  <2>1. TypeOK'
    BY <1>1, <1>3 DEF AtaInv, AtaTypes, TypeOK, Phases
  <2> QED
    BY <1>1, <1>3, <2>1 DEF AtaInv, AtaTypes
<1>6. Addressed'
  BY <1>1, <1>3 DEF AtaInv, Addressed, Bus
<1>7. BufferIsSent("IDENTIFY", 0)'
  BY <1>1, <1>3, <1>4 DEF BufferIsSent
<1>8. IdentifyPhases'
  BY <1>1, <1>2, <1>3, <1>7 DEF IdentifyPhases
<1>9. ReadPhases'
  BY <1>1 DEF ReadPhases, Reading
<1>10. DrivesAtRest'
  BY <1>1, <1>3, <1>4 DEF AtaInv, DrivesAtRest
<1>11. ProbeDone' = ProbeDone
  BY <1>1 DEF ProbeDone, Probed
<1>12. FoundSoFar'
  BY <1>1, <1>3, <1>11 DEF AtaInv, FoundSoFar
<1> QED
  BY <1>5, <1>6, <1>8, <1>9, <1>10, <1>12 DEF AtaInv

LEMMA IdentifyEndStep ==
    ASSUME AtaInv, IdentifyEnd
    PROVE  AtaInv'
<1>1. /\ pc = "id read" /\ LastWord /\ ReadWord /\ NextPlace /\ available[place] = 1
      /\ model' = [model EXCEPT ![place] = Swapped(buffer')]
      /\ UNCHANGED available
  BY DEF IdentifyEnd
<1>2. kind[place] # "none" /\ command[place] = "IDENTIFY" /\ BufferIsSent("IDENTIFY", 0)
  BY <1>1 DEF AtaInv, IdentifyPhases, Identifying
<1>3. /\ kind[place] = "ata" /\ left[place] = 1
      /\ buffer' = Sent(place, "IDENTIFY", 0, Words - left[place] + 1)
      /\ Len(buffer') <= 2 * Words
      /\ left' \in [Places -> 0 .. Words]
      /\ phase' \in [Places -> Phases] /\ phase'[place] = "idle"
      /\ \A p \in Places : p # place => left'[p] = left[p] /\ phase'[p] = phase[p]
      /\ UNCHANGED <<kind, command, selected, regs, sector>>
  BY <1>1, <1>2, WordRead
<1>4. /\ place' \in Places /\ pc' \in {"select", "done"}
      /\ pc' = "done" => place' = place
      /\ place \notin ProbeDone /\ ProbeDone' = ProbeDone \cup {place}
  BY <1>1, PlaceIsDone DEF Identifying
<1>5. place \in Places
  BY TypesAre DEF AtaInv
<1>6. /\ model' = [p \in Places |-> model'[p]]
      /\ model'[place] = Answer(place, "IDENTIFY", 0)
      /\ \A p \in Places : p # place => model'[p] = model[p]
  <2>1. Words - left[place] + 1 = Words
    BY <1>3, AtaAssumption
  <2>2. Swapped(buffer') = Answer(place, "IDENTIFY", 0)
    BY <1>3, <2>1, SwappedName
  <2>3. model = [p \in Places |-> model[p]]
    BY DEF AtaInv, AtaTypes
  <2>4. model' = [p \in Places |->
                     IF p = place THEN Answer(place, "IDENTIFY", 0) ELSE model[p]]
    BY <1>1, <2>2, <2>3
  <2> HIDE DEF Answer
  <2> QED
    BY <1>5, <2>4
<1>7. AtaTypes'
  <2>1. TypeOK'
    BY <1>1, <1>3, <1>4 DEF AtaInv, AtaTypes, TypeOK, Phases
  <2> QED
    BY <1>3, <1>4, <1>6, <2>1 DEF AtaInv, AtaTypes
<1>8. Addressed'
  BY <1>1, <1>3, <1>4 DEF AtaInv, Addressed, Bus
<1>9. IdentifyPhases' /\ ReadPhases'
  BY <1>4 DEF IdentifyPhases, ReadPhases, Identifying, Reading
<1>10. DrivesAtRest'
  BY <1>1, <1>3, <1>4 DEF AtaInv, DrivesAtRest
<1>11. FoundSoFar'
  <2>1. \A p \in Places \ ProbeDone' : available[p] # 1
    BY <1>4 DEF AtaInv, FoundSoFar
  <2>2. \A p \in ProbeDone' :
            /\ available[p] = 1 <=> kind[p] = "ata"
            /\ kind[p] = "ata" => model'[p] = Answer(p, "IDENTIFY", 0)
    <3> SUFFICES ASSUME NEW p \in ProbeDone'
                 PROVE  /\ available[p] = 1 <=> kind[p] = "ata"
                        /\ kind[p] = "ata" => model'[p] = Answer(p, "IDENTIFY", 0)
      OBVIOUS
    <3>1. CASE p = place
      BY <1>1, <1>3, <1>6, <3>1
    <3>2. CASE p # place
      <4>1. p \in ProbeDone /\ p \in Places
        BY <1>4, <3>2 DEF ProbeDone
      <4> QED
        BY <1>6, <3>2, <4>1 DEF AtaInv, FoundSoFar
    <3> QED
      BY <3>1, <3>2
  <2> QED
    BY <1>1, <1>3, <1>4, <2>1, <2>2 DEF FoundSoFar
<1> QED
  BY <1>7, <1>8, <1>9, <1>10, <1>11 DEF AtaInv

LEMMA ReadDataStep ==
    ASSUME AtaInv, ReadData
    PROVE  AtaInv'
<1>1. /\ pc = "read" /\ ReadWord
      /\ pc' = IF LastWord THEN "read end" ELSE "read"
      /\ UNCHANGED <<place, available, model>>
  BY DEF ReadData
<1>2. /\ kind[place] = "ata" /\ command[place] = "READ_PIO" /\ sector \in Sectors
      /\ regs[Bus] = AddressRegs(sector) /\ BufferIsSent("READ_PIO", sector)
  BY <1>1 DEF AtaInv, ReadPhases, Reading
<1>3. Address(regs[Bus]) = sector
  BY <1>2, RegistersHoldAddress, AtaAssumption
<1>4. /\ left[place] \in 1 .. Words
      /\ LastWord <=> left[place] = 1
      /\ buffer' = Sent(place, "READ_PIO", sector, Words - left[place] + 1)
      /\ Len(buffer') <= 2 * Words
      /\ left' \in [Places -> 0 .. Words] /\ left'[place] = left[place] - 1
      /\ phase' \in [Places -> Phases]
      /\ phase'[place] = IF left[place] = 1 THEN "idle" ELSE "data"
      /\ \A p \in Places : p # place => left'[p] = left[p] /\ phase'[p] = phase[p]
      /\ UNCHANGED <<kind, command, selected, regs, sector>>
  BY <1>1, <1>2, <1>3, WordRead
<1>5. AtaTypes'
  <2>1. TypeOK'
    BY <1>1, <1>4 DEF AtaInv, AtaTypes, TypeOK, Phases
  <2> QED
    BY <1>1, <1>4, <2>1 DEF AtaInv, AtaTypes, Reading
<1>6. Addressed'
  BY <1>1, <1>4 DEF AtaInv, Addressed, Bus
<1>7. IdentifyPhases'
  BY <1>1 DEF IdentifyPhases, Identifying
<1>8. ReadPhases'
  <2>1. CASE left[place] = 1
    <3>1. Words - left[place] + 1 = Words
      BY <2>1, AtaAssumption
    <3>2. buffer' = Sent(place', "READ_PIO", sector', Words)
      BY <1>1, <1>4, <3>1
    <3>3. pc' = "read end"
      BY <1>1, <1>4, <2>1
    <3> QED
      BY <1>1, <1>2, <1>4, <3>2, <3>3 DEF ReadPhases, Reading
  <2>2. CASE left[place] # 1
    <3>1. Words - left'[place] = Words - left[place] + 1
      BY <1>4, AtaAssumption
    <3>2. pc' = "read" /\ phase'[place] = "data"
      BY <1>1, <1>4, <2>2
    <3>3. BufferIsSent("READ_PIO", sector)'
      BY <1>1, <1>4, <3>1, <3>2 DEF BufferIsSent
    <3>4. regs'[Bus'] = AddressRegs(sector')
      BY <1>1, <1>2, <1>4 DEF Bus
    <3> QED
      BY <1>1, <1>2, <1>4, <3>2, <3>3, <3>4 DEF ReadPhases, Reading
  <2> QED
    BY <2>1, <2>2
<1>9. DrivesAtRest'
  <2>1. phase'[place] = "data" => left'[place] \in 1 .. Words
    BY <1>4, AtaAssumption
  <2>2. phase'[place] = "idle" \/ pc' = "read"
    BY <1>1, <1>4
  <2> QED
    BY <1>1, <1>2, <1>4, <2>1, <2>2 DEF AtaInv, DrivesAtRest
<1>10. ProbeDone' = ProbeDone
  BY <1>1 DEF ProbeDone, Probed
<1>11. FoundSoFar'
  BY <1>1, <1>4, <1>10 DEF AtaInv, FoundSoFar
<1> QED
  BY <1>5, <1>6, <1>7, <1>8, <1>9, <1>11 DEF AtaInv

-------------------------------------------------------------------------------
(***************************************************************************)
(* The drives' own steps, and the induction.                               *)
(***************************************************************************)

\* The drive at hand only becomes busy, or finishes, where the driver waits
\* for it; any other that moves is a packet device the probe has given up.
LEMMA DriveStep ==
    ASSUME AtaInv, NEW p \in Places, TurnBusy(p) \/ FinishCommand(p)
    PROVE  AtaInv'
<1>1. /\ phase[p] \in NotYetBusy \cup {"busy"}
      /\ UNCHANGED <<kind, command, selected, regs, pc, place, buffer, available, model,
                     sector>>
  BY DEF TurnBusy, FinishCommand, driver
<1>2. /\ phase \in [Places -> Phases] /\ left \in [Places -> 0 .. Words]
      /\ Words \in Nat \ {0} /\ kind[p] \in Kinds
  BY TypesAre, AtaAssumption DEF AtaInv
<1>3. /\ phase' \in [Places -> Phases] /\ left' \in [Places -> 0 .. Words]
      /\ \A q \in Places : q # p => phase'[q] = phase[q] /\ left'[q] = left[q]
      /\ \/ phase[p] \in NotYetBusy /\ phase'[p] = "busy" /\ left'[p] = left[p]
         \/ /\ phase[p] = "busy" /\ phase'[p] = "data" /\ left'[p] = Words
            /\ kind[p] = "ata"
         \/ /\ phase[p] = "busy" /\ phase'[p] = "error" /\ left'[p] = left[p]
            /\ kind[p] = "atapi" \/ command[p] = "READ_PIO"
  <2>1. CASE TurnBusy(p)
    BY <1>2, <2>1 DEF TurnBusy, Phases
  <2>2. CASE FinishCommand(p)
    <3>1. Words \in 0 .. Words
      BY <1>2
    <3> QED
      BY <1>2, <2>2, <3>1 DEF FinishCommand, Phases
  <2> QED
    BY <2>1, <2>2
<1>4. place \in Places /\ kind[place] \in {"none", "ata", "atapi"}
  BY TypesAre DEF AtaInv
<1>5. kind[p] # "none"
  BY <1>1 DEF AtaInv, DrivesAtRest, NotYetBusy
<1>6. AtaTypes'
  <2>1. TypeOK'
    BY <1>1, <1>3 DEF AtaInv, AtaTypes, TypeOK, Phases
  <2> QED
    BY <1>1, <2>1 DEF AtaInv, AtaTypes
<1>7. Addressed'
  BY <1>1 DEF AtaInv, Addressed, Bus
<1>8. ASSUME NEW cmd, NEW at, BufferIsSent(cmd, at)
      PROVE  BufferIsSent(cmd, at)'
  <2>1. CASE p # place
    BY <1>1, <1>3, <1>4, <1>8, <2>1 DEF BufferIsSent
  <2>2. CASE p = place
    <3>1. buffer = Sent(place, cmd, at, 0)
      BY <1>1, <1>8, <2>2 DEF BufferIsSent, NotYetBusy
    <3>2. Words - Words = 0
      BY <1>2
    <3>3. phase'[place] = "data" => left'[place] = Words
      BY <1>3, <2>2
    <3> QED
      BY <1>1, <3>1, <3>2, <3>3 DEF BufferIsSent
  <2> QED
    BY <2>1, <2>2
<1>9. IdentifyPhases'
  <2>1. CASE pc \in Identifying /\ kind[place] # "none"
    <3>1. /\ command[place] = "IDENTIFY" /\ BufferIsSent("IDENTIFY", 0)
          /\ phase[place] \in {"busy", IF kind[place] = "ata" THEN "data" ELSE "error"}
                                 \cup (IF pc = "present" THEN NotYetBusy ELSE {})
          /\ pc = "id wait" => phase[place] # "busy"
          /\ pc = "id read" => phase[place] = "data"
      BY <2>1 DEF AtaInv, IdentifyPhases
    <3>2. BufferIsSent("IDENTIFY", 0)'
      BY <1>8, <3>1
    <3>3. p = place => pc \notin {"id wait", "id read"}
      BY <1>1, <3>1 DEF NotYetBusy
    <3>4. phase'[place] \in {"busy", IF kind[place] = "ata" THEN "data" ELSE "error"}
                               \cup (IF pc = "present" THEN NotYetBusy ELSE {})
      BY <1>3, <1>4, <2>1, <3>1
    <3> QED
      BY <1>1, <1>3, <1>4, <2>1, <3>1, <3>2, <3>3, <3>4 DEF IdentifyPhases
  <2>2. CASE pc \in Identifying /\ kind[place] = "none"
    BY <1>1, <2>2 DEF AtaInv, IdentifyPhases
  <2>3. CASE pc \notin Identifying
    BY <1>1, <2>3 DEF IdentifyPhases, Identifying
  <2> QED
    BY <2>1, <2>2, <2>3
<1>10. ReadPhases'
  <2>1. CASE pc \in Reading
    <3>1. /\ kind[place] = "ata" /\ sector \in Sectors /\ command[place] = "READ_PIO"
          /\ regs[Bus] = AddressRegs(sector) /\ BufferIsSent("READ_PIO", sector)
          /\ phase[place] \in {"busy", "data", "error"}
                                 \cup (IF pc = "read delay" THEN NotYetBusy ELSE {})
          /\ pc = "read wait" => phase[place] # "busy"
          /\ pc = "read" => phase[place] = "data"
      BY <2>1 DEF AtaInv, ReadPhases
    <3>2. BufferIsSent("READ_PIO", sector)'
      <4>1. PICK at : at = sector
        OBVIOUS
      <4>2. BufferIsSent("READ_PIO", at)
        BY <3>1, <4>1
      <4>3. BufferIsSent("READ_PIO", at)'
        BY <1>8, <4>2
      <4> QED
        BY <1>1, <4>1, <4>3 DEF BufferIsSent
    <3>3. p = place => pc \notin {"read wait", "read"}
      BY <1>1, <3>1 DEF NotYetBusy
    <3>4. phase'[place] \in {"busy", "data", "error"}
                               \cup (IF pc = "read delay" THEN NotYetBusy ELSE {})
      BY <1>3, <1>4, <3>1
    <3>5. regs'[Bus'] = AddressRegs(sector')
      BY <1>1, <3>1 DEF Bus
    <3>6. pc' \in Reading /\ pc' = pc
      BY <1>1, <2>1
    <3>7. /\ pc = "read wait" => phase'[place] # "busy"
          /\ pc = "read" => phase'[place] = "data"
      BY <1>3, <1>4, <3>1, <3>3
    <3> QED
      BY <1>1, <3>1, <3>2, <3>4, <3>5, <3>6, <3>7 DEF ReadPhases, Reading
  <2>2. CASE pc \notin Reading
    <3>1. pc' \notin Reading /\ pc' # "read wait" /\ pc' # "read"
      BY <1>1, <2>2 DEF Reading
    <3> QED
      BY <1>1, <2>2, <3>1 DEF AtaInv, ReadPhases, Bus
  <2> QED
    BY <2>1, <2>2
<1>11. DrivesAtRest'
  <2>1. Words \in 1 .. Words
    BY <1>2
  <2>2. \A q \in Places :
            phase'[q] = "data" => kind[q] = "ata" /\ left'[q] \in 1 .. Words
    BY <1>3, <2>1 DEF AtaInv, DrivesAtRest
  <2>3. ~(/\ kind[p] = "ata"
          /\ p = place => pc \in {"select", "identify", "done", "read command", "read end"})
    BY <1>1 DEF AtaInv, DrivesAtRest, NotYetBusy
  <2> QED
    BY <1>1, <1>3, <1>5, <2>2, <2>3 DEF AtaInv, DrivesAtRest
<1>12. ProbeDone' = ProbeDone
  BY <1>1 DEF ProbeDone, Probed
<1>13. FoundSoFar'
  BY <1>1, <1>12 DEF AtaInv, FoundSoFar
<1> QED
  BY <1>6, <1>7, <1>9, <1>10, <1>11, <1>13 DEF AtaInv

LEMMA AtaInitInv ==
    ASSUME Init
    PROVE  AtaInv
<1>1. place = <<0, 0>> /\ place \in Places /\ pc = "select"
  BY PlacesAre DEF Init, ProbeOrder
<1>2. Words \in Nat \ {0} /\ Len(buffer) = 0
  BY AtaAssumption DEF Init
<1>3. regs \in [Buses -> Registers]
  BY DEF Init, NoRegs, Registers
<1>4. TypeOK
  <2>1. 0 \in 0 .. Words /\ 0 <= 2 * Words
    BY <1>2
  <2>2. phase \in [Places -> {"idle", "busy", "data", "error"} \cup NotYetBusy]
    BY DEF Init
  <2>3. /\ left \in [Places -> 0 .. Words] /\ selected \in [Buses -> Drives]
        /\ available \in [Places -> {0, 1}]
    BY <2>1 DEF Init, Drives
  <2> QED
    BY <1>1, <1>2, <2>1, <2>2, <2>3 DEF Init, TypeOK
<1>5. AtaTypes
  BY <1>1, <1>3, <1>4 DEF Init, AtaTypes, Commands
<1>6. Addressed /\ IdentifyPhases /\ ReadPhases
  BY <1>1 DEF Addressed, IdentifyPhases, ReadPhases, Identifying, Reading
<1>7. DrivesAtRest
  BY DEF Init, DrivesAtRest
<1>8. ProbeDone = {}
  <2>1. Rank(place) = 0
    BY <1>1 DEF Rank
  <2>2. \A p \in Places : ~(Rank(p) < 0)
    BY PlacesAre
  <2> QED
    BY <1>1, <2>1, <2>2 DEF ProbeDone, Probed
<1>9. FoundSoFar
  BY <1>8 DEF Init, FoundSoFar
<1> QED
  BY <1>5, <1>6, <1>7, <1>9 DEF AtaInv

LEMMA AtaStepInv ==
    ASSUME AtaInv, [Next]_vars
    PROVE  AtaInv'
<1>1. CASE Driver
  BY <1>1, SelectStep, SendIdentifyStep, IdentifyPolls, GiveUpSteps, OnlineStep,
     IdentifyReadStep, IdentifyEndStep, SendReadStep, ReadPolls, ReadDataStep
     DEF Driver
<1>2. CASE Caller
  BY <1>2, CallStep DEF Caller
<1>3. CASE Drive
  BY <1>3, DriveStep DEF Drive
<1>4. CASE UNCHANGED vars
  <2>1. UNCHANGED <<kind, phase, command, left, selected, regs, pc, place, buffer,
                    available, model, sector>>
    BY <1>4 DEF vars, drives, driver
  <2>2. AtaTypes' /\ Addressed' /\ DrivesAtRest'
    BY <2>1 DEF AtaInv, AtaTypes, TypeOK, Addressed, DrivesAtRest, Bus
  <2>3. IdentifyPhases' /\ ReadPhases'
    BY <2>1 DEF AtaInv, IdentifyPhases, ReadPhases, BufferIsSent, Bus
  <2>4. FoundSoFar'
    BY <2>1 DEF AtaInv, FoundSoFar, ProbeDone, Probed
  <2> QED
    BY <2>2, <2>3, <2>4 DEF AtaInv
<1> QED
  BY <1>1, <1>2, <1>3, <1>4 DEF Next

\* The invariant behind the theorems below.
LEMMA AtaInductive == Spec => []AtaInv
<1>1. Init => AtaInv
  BY AtaInitInv
<1>2. AtaInv /\ [Next]_vars => AtaInv'
  BY AtaStepInv
<1> QED
  BY <1>1, <1>2, PTL DEF Spec

\* The buffer never holds more than a sector, and no drive hands out a word
\* it has not got (ata.c:190-194, 307-310).
THEOREM DriverTypes == Spec => []TypeOK
<1>1. AtaInv => TypeOK
  BY DEF AtaInv, AtaTypes
<1> QED
  BY <1>1, AtaInductive, PTL

\* The probe finds the disks, all of them, no other device, and each name in
\* its own place, whatever error bits earlier commands left and however the
\* drives' answers and the status reads interleave (ata.c:150-219).
THEOREM ProbeFindsDisks == Spec => []DisksIdentified
<1>1. AtaInv => DisksIdentified
  <2>1. Probed => ProbeDone = Places
    BY DEF ProbeDone
  <2> QED
    BY <2>1 DEF AtaInv, FoundSoFar, DisksIdentified
<1> QED
  BY <1>1, AtaInductive, PTL

\* Every read that returns has read the sector asked for, from the drive asked
\* for, in order: for all sectors that the address registers can name
\* (ata.c:283-313).
THEOREM ReadReturnsSector == Spec => []SectorRead
<1>1. AtaInv => SectorRead
  BY SentSector DEF AtaInv, ReadPhases, SectorRead
<1> QED
  BY <1>1, AtaInductive, PTL

\* No operation leaves a disk in the middle of a command (ata.c:150-219,
\* 283-313).
THEOREM DisksLeftQuiet == Spec => []DrivesQuiet
<1>1. AtaInv => DrivesQuiet
  <2> SUFFICES ASSUME AtaInv, pc \in {"done", "select"}, NEW p \in Places
               PROVE  phase[p] \in {"idle", "error"} \/ kind[p] = "atapi"
    BY DEF DrivesQuiet
  <2>1. kind[p] \in {"none", "ata", "atapi"}
    BY TypesAre, AtaAssumption DEF AtaInv
  <2> QED
    BY <2>1 DEF AtaInv, DrivesAtRest
<1> QED
  BY <1>1, AtaInductive, PTL
===============================================================================
