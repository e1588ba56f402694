------------------------------- MODULE MCKernel -------------------------------
(***************************************************************************)
(* Kernel for TLC: an NMI, a page fault and an alignment check are the     *)
(* three combinations of processor and stub, a vector with neither error   *)
(* code, with both, and with the processor's only.  The last is vector 17  *)
(* alone, which no code of the kernel's privilege level raises: it is here *)
(* so that the stubs are tried with every combination they are written     *)
(* for.                                                                    *)
(***************************************************************************)
EXTENDS Kernel

MCVectors == {2, 14, 17}

MCisr == [v \in 0 .. LastStub |-> << v, 160, 16, 192 >>]
===============================================================================
