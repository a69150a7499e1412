----------------------------- MODULE GroupCommon -----------------------------
(***************************************************************************)
(* DispatchGroupVC.common: one tap of the button that shows a dispatch     *)
(* group.  The main thread enters the group and submits a block, once per  *)
(* task, and then registers the notify block.  The blocks run on worker    *)
(* threads while the main thread is still submitting, so the group may be  *)
(* empty several times before it is full.  How long each block sleeps is   *)
(* not modelled: any of them may leave as soon as it is submitted.         *)
(***************************************************************************)
EXTENDS Integers, FiniteSets

CONSTANT N   \* tasks of the group (3 in the code: A, B, C)

ASSUME CountAssumption == N \in Nat

Tasks == 1 .. N

VARIABLES count,   \* the group's: enters minus leaves
          entered, \* tasks the main thread has entered the group for
          block,   \* each task's block
          notify   \* the notify block

vars == <<count, entered, block, notify>>

Init ==
    /\ count = 0
    /\ entered = 0
    /\ block = [i \in Tasks |-> "none"]
    /\ notify = "none"

\* group.enter(), for the next task, once the previous one has been submitted.
Enter ==
    /\ entered < N
    /\ entered > 0 => block[entered] # "none"
    /\ entered' = entered + 1
    /\ count' = count + 1
    /\ UNCHANGED <<block, notify>>

\* queue.async for the task just entered.
Async ==
    /\ entered > 0
    /\ block[entered] = "none"
    /\ block' = [block EXCEPT ![entered] = "submitted"]
    /\ UNCHANGED <<count, entered, notify>>

\* Mutant: the notify block is registered before the last task is entered.
NotifyEarly ==
    /\ notify = "none"
    /\ entered >= N - 1
    /\ entered > 0 => block[entered] # "none"
    /\ notify' = IF count = 0 THEN "submitted" ELSE "registered"
    /\ UNCHANGED <<count, entered, block>>

\* group.notify: submits its block at once if the group is empty.
Notify ==
    /\ notify = "none"
    /\ entered = N
    /\ entered > 0 => block[entered] # "none"
    /\ notify' = IF count = 0 THEN "submitted" ELSE "registered"
    /\ UNCHANGED <<count, entered, block>>

\* Mutant: emptying the group does not look at registered blocks.
LeaveSilently(i) ==
    /\ block[i] = "submitted"
    /\ block' = [block EXCEPT ![i] = "left"]
    /\ count' = count - 1
    /\ UNCHANGED <<entered, notify>>

\* A worker runs the block: its result is in, then group.leave().
Leave(i) ==
    /\ block[i] = "submitted"
    /\ block' = [block EXCEPT ![i] = "left"]
    /\ count' = count - 1
    /\ notify' = IF count' = 0 /\ notify = "registered" THEN "submitted" ELSE notify
    /\ UNCHANGED entered

\* A worker runs the notify block, which merges the results.
Merge ==
    /\ notify = "submitted"
    /\ notify' = "merged"
    /\ UNCHANGED <<count, entered, block>>

Next == Enter \/ Async \/ Notify \/ (\E i \in Tasks : Leave(i)) \/ Merge

Terminating == notify = "merged" /\ UNCHANGED vars

Spec == Init /\ [][Next \/ Terminating]_vars

\* The main thread and the workers keep executing what they have been given.
FairSpec == Spec /\ WF_vars(Next)

-----------------------------------------------------------------------------
TypeOK ==
    /\ count \in Nat
    /\ entered \in 0 .. N
    /\ block \in [Tasks -> {"none", "submitted", "left"}]
    /\ notify \in {"none", "registered", "submitted", "merged"}

\* "A, B, C have all completed, merge" (line 90) is true when it is printed,
\* however often the group was empty before the last enter.
MergeAfterAll == notify \in {"submitted", "merged"} => \A i \in Tasks : block[i] = "left"

\* The results are merged in the end: the last leave finds the notify block.
Merged == <>(notify = "merged")

-----------------------------------------------------------------------------
(* The inductive invariant.                                                *)

\* Tasks the group is waiting for.
Outstanding == {i \in 1 .. entered : block[i] # "left"}

IInv ==
    /\ TypeOK
    /\ count = Cardinality(Outstanding)
    /\ \A i \in Tasks : i < entered => block[i] # "none"
    /\ \A i \in Tasks : i > entered => block[i] = "none"
    /\ notify # "none" => entered = N
    /\ notify \in {"submitted", "merged"} => Outstanding = {}
    /\ notify = "registered" => Outstanding # {}
=============================================================================
