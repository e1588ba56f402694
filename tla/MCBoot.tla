-------------------------------- MODULE MCBoot --------------------------------
(***************************************************************************)
(* Boot with tables of six entries and a kernel image of three pages, so   *)
(* that the identity loop takes six iterations and the kernel loop five:   *)
(* of the 32 values %ecx may have some cut the one short, some the other.  *)
(***************************************************************************)
EXTENDS Boot

NoArguments == {}

AnyEcx == 0 .. (RegModulus - 1)
===============================================================================
