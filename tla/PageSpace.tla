------------------------------- MODULE PageSpace -------------------------------
(***************************************************************************)
(* What paging.h promises its callers, without page table entries, flags,  *)
(* search order or translation cache: a space of slots, some of them       *)
(* reserved, from which runs of consecutive slots are handed out for runs  *)
(* of consecutive physical frames, and taken back whole.                   *)
(***************************************************************************)
EXTENDS Integers

CONSTANTS Slots, Reserved, NFrames

VARIABLE blocks  \* the runs handed out

BlockSlots(b) == {b.at + k : k \in DOMAIN b.frames}

Taken == Reserved \cup UNION {BlockSlots(b) : b \in blocks}

Init == blocks = {}

\* The slots i to j map the frames from some f on; physical addresses wrap.
Map(i, j) ==
    /\ i <= j
    /\ i .. j \subseteq Slots \ Taken
    /\ \E f \in 0 .. (NFrames - 1) :
          blocks' = blocks \cup
             {[at |-> i, frames |-> [k \in 0 .. (j - i) |-> (f + k) % NFrames]]}

Unmap(b) == blocks' = blocks \ {b}

Next ==
    \/ \E i, j \in Slots : Map(i, j)
    \/ \E b \in blocks : Unmap(b)

Spec == Init /\ [][Next]_blocks
===============================================================================
