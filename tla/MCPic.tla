--------------------------------- MODULE MCPic ---------------------------------
(***************************************************************************)
(* The controllers for TLC: lines before and behind the cascade line on    *)
(* the master, the first and the last of the slave.                        *)
(***************************************************************************)
EXTENDS Pic

MCLines == {0, 7, 8, 15}
===============================================================================
