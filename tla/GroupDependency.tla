--------------------------- MODULE GroupDependency ---------------------------
(***************************************************************************)
(* DispatchGroupVC.dependencyRequest: request "three" is to be sent after  *)
(* requests "one" and "two" have ended.  One and two belong to a dispatch  *)
(* group whose notify block signals a semaphore; the block of three waits  *)
(* for that semaphore on a worker thread of the global queue.  Each tap    *)
(* has a group and a semaphore of its own; all share the queue, its        *)
(* Workers threads and the main thread.                                    *)
(*                                                                         *)
(* The tap handler is one step: the blocks it submits can begin before it  *)
(* returns, but they touch nothing of this state except through the main   *)
(* thread, which is busy with the handler.  A main.sync body is two steps, *)
(* because its print comes after its group.leave().                        *)
(***************************************************************************)
EXTENDS Integers, Sequences, FiniteSets

CONSTANTS MaxTaps,     \* bound on the taps of the button
          Workers,     \* threads of the global queue
          MaxFailures  \* bound on the downloads that fail

ASSUME BoundsAssumption == /\ MaxTaps \in Nat
                           /\ Workers \in Nat \ {0}
                           /\ MaxFailures \in Nat

Taps == 1 .. MaxTaps
Pair == {"one", "two"}
Blocks == Pair \cup {"three", "notify"}

VARIABLES taps,     \* taps so far
          queue,    \* the global queue: <<tap, block>> not yet on a worker
          pc,       \* per tap and block: where it is
          count,    \* per tap: its group
          sem,      \* per tap: its semaphore
          main,     \* what the main thread is in the middle of, or Idle
          failures, \* downloads that have failed
          printed   \* per tap: the END lines printed so far

vars == <<taps, queue, pc, count, sem, main, failures, printed>>

Idle == <<0, "idle">>

Init ==
    /\ taps = 0
    /\ queue = <<>>
    /\ pc = [t \in Taps |-> [b \in Blocks |-> "none"]]
    /\ count = [t \in Taps |-> 0]
    /\ sem = [t \in Taps |-> 0]
    /\ main = Idle
    /\ failures = 0
    /\ printed = [t \in Taps |-> <<>>]

Goto(t, b, label) == pc' = [pc EXCEPT ![t][b] = label]
PrintEnd(t, line) == printed' = [printed EXCEPT ![t] = Append(@, line)]

\* Blocks that occupy a worker: downloading, or blocked in a wait or a main.sync.
OnWorker == {tb \in Taps \X Blocks :
                pc[tb[1]][tb[2]] \in {"download", "wait", "sync", "main", "signal"}}

\* The button.  The blocks are submitted in the order one, three, two.
Tap ==
    /\ main = Idle
    /\ taps < MaxTaps
    /\ LET t == taps + 1 IN
          /\ taps' = t
          /\ queue' = queue \o << <<t, "one">>, <<t, "three">>, <<t, "two">> >>
          /\ pc' = [pc EXCEPT ![t] = [b \in Blocks |-> IF b = "notify" THEN "registered"
                                                                      ELSE "queued"]]
          /\ count' = [count EXCEPT ![t] = 2]
    /\ UNCHANGED <<sem, main, failures, printed>>

\* What a block does first when a worker runs it.
First(b) == CASE b \in Pair -> "download"
              [] b = "three" -> "wait"
              [] b = "notify" -> "signal"

\* A free worker takes the oldest block.
Start ==
    /\ queue # <<>>
    /\ Cardinality(OnWorker) < Workers
    /\ LET tb == Head(queue) IN Goto(tb[1], tb[2], First(tb[2]))
    /\ queue' = Tail(queue)
    /\ UNCHANGED <<taps, count, sem, main, failures, printed>>

\* Mutant: three does not wait.
ThreeSkipsWait(t) ==
    /\ pc[t]["three"] = "wait"
    /\ Goto(t, "three", "download")
    /\ UNCHANGED <<taps, queue, count, sem, main, failures, printed>>

\* semaphore.wait() of the block of three.
ThreeWait(t) ==
    /\ pc[t]["three"] = "wait"
    /\ sem[t] > 0
    /\ sem' = [sem EXCEPT ![t] = @ - 1]
    /\ Goto(t, "three", "download")
    /\ UNCHANGED <<taps, queue, count, main, failures, printed>>

\* getDataFromUrl succeeds and calls its completion, which needs the main
\* thread; that of three prints its END before.
DownloadOk(t, b) ==
    /\ pc[t][b] = "download"
    /\ Goto(t, b, "sync")
    /\ IF b = "three" THEN PrintEnd(t, b) ELSE UNCHANGED printed
    /\ UNCHANGED <<taps, queue, count, sem, main, failures>>

\* getDataFromUrl fails: it prints the error and never calls its completion.
DownloadFails(t, b) ==
    /\ pc[t][b] = "download"
    /\ failures < MaxFailures
    /\ failures' = failures + 1
    /\ Goto(t, b, "failed")
    /\ UNCHANGED <<taps, queue, count, sem, main, printed>>

\* The main thread runs the completion of one or two: it shows the image and
\* leaves the group; the last leave submits the notify block.
MainLeave(t, b) ==
    /\ main = Idle
    /\ pc[t][b] = "sync"
    /\ main' = <<t, b>>
    /\ count' = [count EXCEPT ![t] = @ - 1]
    /\ IF count'[t] = 0
       THEN /\ pc' = [pc EXCEPT ![t][b] = "main", ![t]["notify"] = "queued"]
            /\ queue' = Append(queue, <<t, "notify">>)
       ELSE Goto(t, b, "main") /\ UNCHANGED queue
    /\ UNCHANGED <<taps, sem, failures, printed>>

\* ... and prints its END.
MainPrint(t, b) ==
    /\ main = <<t, b>>
    /\ main' = Idle
    /\ PrintEnd(t, b)
    /\ Goto(t, b, "shown")
    /\ UNCHANGED <<taps, queue, count, sem, failures>>

\* Mutant: the notify block signals nobody.
SignalNobody(t) ==
    /\ pc[t]["notify"] = "signal"
    /\ Goto(t, "notify", "done")
    /\ UNCHANGED <<taps, queue, count, sem, main, failures, printed>>

\* The notify block: semaphore.signal().
Signal(t) ==
    /\ pc[t]["notify"] = "signal"
    /\ sem' = [sem EXCEPT ![t] = @ + 1]
    /\ Goto(t, "notify", "done")
    /\ UNCHANGED <<taps, queue, count, main, failures, printed>>

\* The main thread runs the completion of three: image, then semaphore.signal().
MainThree(t) ==
    /\ main = Idle
    /\ pc[t]["three"] = "sync"
    /\ sem' = [sem EXCEPT ![t] = @ + 1]
    /\ Goto(t, "three", "shown")
    /\ UNCHANGED <<taps, queue, count, main, failures, printed>>

Download(t, b) == DownloadOk(t, b) \/ DownloadFails(t, b)
Step(t) ==
    \/ \E b \in Pair \cup {"three"} : Download(t, b)
    \/ \E b \in Pair : MainLeave(t, b) \/ MainPrint(t, b)
    \/ ThreeWait(t)
    \/ Signal(t)
    \/ MainThree(t)

Next == Tap \/ Start \/ \E t \in Taps : Step(t)

\* Nothing is left to run: the third image of each tap is settled, or its block
\* waits for ever because a download of the pair failed.
Settled(t) ==
    /\ \A b \in Pair : pc[t][b] \in {"shown", "failed"}
    /\ \/ pc[t]["three"] \in {"shown", "failed"}
       \/ pc[t]["three"] = "wait" /\ \E b \in Pair : pc[t][b] = "failed"
Terminating ==
    /\ taps = MaxTaps
    /\ \A t \in Taps : Settled(t)
    /\ UNCHANGED vars

Spec == Init /\ [][Next \/ Terminating]_vars

\* The app as a whole keeps executing; a tap is made when nothing else can be.
FairSpec == Spec /\ WF_vars(Next)

-----------------------------------------------------------------------------
Labels == {"none", "queued", "registered", "download", "wait", "sync", "main", "signal",
           "shown", "failed", "done"}

TypeOK ==
    /\ taps \in 0 .. MaxTaps
    /\ queue \in Seq(Taps \X Blocks)
    /\ pc \in [Taps -> [Blocks -> Labels]]
    /\ count \in [Taps -> 0 .. 2]
    /\ sem \in [Taps -> 0 .. 1]
    /\ main \in {Idle} \cup (Taps \X Pair)
    /\ failures \in 0 .. MaxFailures
    /\ printed \in [Taps -> Seq({"one", "two", "three"})]

ThreeSent(t) == pc[t]["three"] \in {"download", "sync", "shown", "failed"}
Ended(t, b) == pc[t][b] \in {"main", "shown"}

\* "The third request has to be sent after the first and the second have ended"
\* (line 210), for every tap and however the workers are scheduled.
ThirdAfterBoth == \A t \in Taps : ThreeSent(t) => \A b \in Pair : Ended(t, b)

\* A tap's third image is shown in the end unless one of its own downloads
\* fails: a block of another tap that waits for ever holds a worker, but as long
\* as there are more workers than taps the queue keeps moving.
ThirdShown ==
    \A t \in Taps :
        (taps >= t) ~> (pc[t]["three"] = "shown" \/ \E b \in Blocks : pc[t][b] = "failed")

\* "It may be 2, 1, 3 or 1, 2, 3, but 3 is always last" (line 276), of the
\* lines printed.  It does not hold, so no configuration asks for this: the leave
\* lets the third request go before the line is printed.
ThreePrintedLast ==
    \A t \in Taps : "three" \in {printed[t][i] : i \in DOMAIN printed[t]} =>
        printed[t][Len(printed[t])] = "three" /\ Len(printed[t]) = 3

\* The comment of line 210 for downloads that end in an error: once one and two
\* have ended, the third request is sent.
ThirdFollows ==
    \A t \in Taps :
        (\A b \in Pair : pc[t][b] \in {"shown", "failed"}) ~> ThreeSent(t)

-----------------------------------------------------------------------------
(* The inductive invariant.                                                *)

\* A block is in the queue once, until a worker takes it.
QueueInv ==
    /\ \A i \in 1 .. Len(queue) : pc[queue[i][1]][queue[i][2]] = "queued"
    /\ \A i, j \in 1 .. Len(queue) : queue[i] = queue[j] => i = j

\* The group counts the requests of the pair that have not ended, and the main
\* thread is in the completion of one that has.
GroupInv ==
    /\ \A t \in Taps : t <= taps =>
          count[t] = (IF Ended(t, "one") THEN 0 ELSE 1) + (IF Ended(t, "two") THEN 0 ELSE 1)
    /\ main # Idle => pc[main[1]][main[2]] = "main"
    /\ \A t \in Taps : t > taps => \A b \in Blocks : pc[t][b] = "none"

\* From the end of the pair to the third request: the notify block runs after
\* the one, the semaphore is signalled by the notify block, the third request
\* is sent after the semaphore; each keeps what the one before established.
ChainInv ==
    \A t \in Taps :
       /\ pc[t]["notify"] \in {"queued", "signal", "done"} => \A b \in Pair : Ended(t, b)
       /\ sem[t] > 0 => /\ pc[t]["notify"] = "done"
                        /\ pc[t]["three"] \notin {"download", "sync", "failed"}
       /\ ThreeSent(t) => pc[t]["notify"] = "done"

IInv == TypeOK /\ QueueInv /\ GroupInv /\ ChainInv
=============================================================================
