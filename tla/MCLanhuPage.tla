---------------------------- MODULE MCLanhuPage ----------------------------
(* Three callers, of whom one listens to errors; a browser that fires one or *)
(* two load events for a script; a record of an older note, of the latest or *)
(* none; a script that runs twice before its first timer.                    *)
EXTENDS LanhuPage
=============================================================================
