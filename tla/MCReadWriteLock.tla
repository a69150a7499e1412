--------------------------- MODULE MCReadWriteLock ---------------------------
(* Bounds: 3 writers and 3 readers, so that a reader can join, lead and      *)
(* close a group; fewer threads than blocks, so that all of them can be      *)
(* blocked in a wait while a block is still in the queue.                    *)
EXTENDS ReadWriteLock
=============================================================================
