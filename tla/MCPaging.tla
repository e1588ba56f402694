------------------------------- MODULE MCPaging -------------------------------
(***************************************************************************)
(* Paging with two page tables of six entries.  The kernel image takes     *)
(* slots 2 and 3 and the text-mode memory slot 5, so the free slots fall   *)
(* into the runs 0-1, 4 and 6-11.  An object of one page fits into each,   *)
(* one of three only into the last, and only once: the search does not     *)
(* take the last slot, so that the tables can be exhausted too.            *)
(***************************************************************************)
EXTENDS Paging

\* The last frame: the second page of an object wraps to frame 0.
MCPhysFrames == {NFrames - 1}

MCOffsets == {PAGE_SIZE - 1}

\* Objects of one page and, with the entry that a multiple of the page size
\* gets on top, of three.
MCSizes == {PAGE_SIZE - 1, 2 * PAGE_SIZE}
===============================================================================
