---------------------------- MODULE MCVideoScreen ----------------------------
(* Two notifications on their way: one can stand for both turns, and the     *)
(* button can be touched between them.                                       *)
EXTENDS VideoScreen
=============================================================================
