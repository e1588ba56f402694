--------------------------------- MODULE MCAta ---------------------------------
(***************************************************************************)
(* The driver for TLC: sectors of two words, address registers of two      *)
(* values, so that 16 sectors have different registers.                    *)
(***************************************************************************)
EXTENDS Ata

MCKinds == {"none", "ata", "atapi"}
MCSectors == {1, 6, 12}
===============================================================================
