--------------------------- MODULE SharedExclusive ---------------------------
(***************************************************************************)
(* What a readers-writer lock promises, with no word on how: each client   *)
(* waits, is active once and finishes; readers may be active together, a   *)
(* writer is active alone.                                                 *)
(***************************************************************************)
CONSTANTS Readers, Writers

VARIABLE phase

Clients == Readers \cup Writers
Active == {c \in Clients : phase[c] = "active"}

Init == phase = [c \in Clients |-> "waiting"]

\* A reader enters unless a writer is in.
BeginRead(r) ==
    /\ phase[r] = "waiting"
    /\ Active \subseteq Readers
    /\ phase' = [phase EXCEPT ![r] = "active"]

\* A writer enters an empty room.
BeginWrite(w) ==
    /\ phase[w] = "waiting"
    /\ Active = {}
    /\ phase' = [phase EXCEPT ![w] = "active"]

\* Reader or writer: leave, and never come back.
End(c) ==
    /\ phase[c] = "active"
    /\ phase' = [phase EXCEPT ![c] = "finished"]

Next ==
    \/ \E r \in Readers : BeginRead(r)
    \/ \E w \in Writers : BeginWrite(w)
    \/ \E c \in Clients : End(c)

Safe == Init /\ [][Next]_phase
Spec == Safe /\ WF_phase(Next)
=============================================================================
