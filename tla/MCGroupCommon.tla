---------------------------- MODULE MCGroupCommon ----------------------------
(* Five tasks instead of three: the group can be empty between any two       *)
(* enters, and any subset of the blocks can be late.                         *)
EXTENDS GroupCommon
=============================================================================
