---------------------------- MODULE MCVideoPlayer ----------------------------
(* Two plays (what was destroyed, and what is played after it), two seeks    *)
(* and two timers under way: the least with which one can overtake another.  *)
EXTENDS VideoPlayer
=============================================================================
