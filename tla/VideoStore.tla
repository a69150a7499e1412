----------------------------- MODULE VideoStore -----------------------------
(***************************************************************************)
(* What a cache of videos that are fetched piece by piece promises, with   *)
(* no word on files, paths or requests: at most one video is being         *)
(* fetched, it grows by a piece at a time from where it was left, and it   *)
(* is kept, for good, only when all of it is there.                        *)
(***************************************************************************)
EXTENDS Naturals

CONSTANTS Videos, \* what can be fetched
          Size    \* pieces of each video

VARIABLES held,    \* pieces of each video that need not be fetched again
          kept,    \* the videos that are played from the cache
          fetching \* the video being fetched, if any

vars == <<held, kept, fetching>>

Init ==
    /\ held = [v \in Videos |-> 0]
    /\ kept = {}
    /\ fetching = {}

\* A video that is kept is not fetched.
Open(v) ==
    /\ fetching = {}
    /\ v \notin kept
    /\ fetching' = {v}
    /\ UNCHANGED <<held, kept>>

Fetch(v) ==
    /\ v \in fetching
    /\ held[v] < Size
    /\ held' = [held EXCEPT ![v] = @ + 1]
    /\ UNCHANGED <<kept, fetching>>

Keep(v) ==
    /\ v \in fetching
    /\ held[v] = Size
    /\ kept' = kept \cup {v}
    /\ fetching' = {}
    /\ UNCHANGED held

\* Fetching stops, for whatever reason: what there is stays.
GiveUp ==
    /\ fetching' = {}
    /\ UNCHANGED <<held, kept>>

\* The app gives up the videos that are kept, and no other.
Clear ==
    /\ held' = [v \in Videos |-> IF v \in kept THEN 0 ELSE held[v]]
    /\ kept' = {}
    /\ UNCHANGED fetching

\* The end of the process, when the system may take any of them.
Lose(V) ==
    /\ held' = [v \in Videos |-> IF v \in V THEN 0 ELSE held[v]]
    /\ kept' = kept \ V
    /\ fetching' = {}

Next ==
    \/ \E v \in Videos : Open(v) \/ Fetch(v) \/ Keep(v)
    \/ GiveUp
    \/ Clear
    \/ \E V \in SUBSET Videos : Lose(V)

Spec == Init /\ [][Next]_vars
=============================================================================
