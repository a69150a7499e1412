------------------------ MODULE GroupDependency_proofs ------------------------
(* Proofs about GroupDependency, for any number of taps, of workers and of   *)
(* failed downloads.                                                         *)
EXTENDS GroupDependency, FiniteSetTheorems, TLAPS

-----------------------------------------------------------------------------
(* Termination, as two facts about single steps: the queue is stuck only     *)
(* when waiting blocks hold every worker, and every step uses up work.       *)

\* A block that is "queued" is in the queue; the main thread is in the completion
\* of the request that is in "main".
Enqueued ==
    \A t \in Taps, b \in Blocks :
        pc[t][b] = "queued" => \E i \in 1 .. Len(queue) : queue[i] = <<t, b>>
MainBusy == \A t \in Taps, b \in Blocks : pc[t][b] = "main" => main = <<t, b>>

\* Where the blocks of a tap that was made can be.
Course(b) ==
    CASE b \in Pair    -> {"queued", "download", "sync", "main", "shown", "failed"}
      [] b = "three"  -> {"queued", "wait", "download", "sync", "shown", "failed"}
      [] b = "notify" -> {"registered", "queued", "signal", "done"}
OnTheWay == \A t \in Taps : t <= taps => \A b \in Blocks : pc[t][b] \in Course(b)

\* The converse of ChainInv: the end of the pair submits the notify block, and
\* its signal stays with the semaphore until the block of three takes it.
NoLostWakeup ==
    \A t \in Taps : t <= taps =>
        /\ (\A b \in Pair : Ended(t, b)) => pc[t]["notify"] # "registered"
        /\ pc[t]["notify"] = "done" /\ ~ThreeSent(t) => sem[t] > 0

RunInv == Enqueued /\ MainBusy /\ OnTheWay /\ NoLostWakeup

\* The main thread, a free worker or a block on its worker can go on.
CanGoOn ==
    \/ main # Idle
    \/ queue # <<>> /\ Cardinality(OnWorker) < Workers
    \/ \E t \in Taps :
          \/ \E b \in Pair \cup {"three"} : pc[t][b] \in {"download", "sync"}
          \/ pc[t]["three"] = "wait" /\ sem[t] > 0
          \/ pc[t]["notify"] = "signal"

\* Every worker sits in the semaphore.wait() of line 245.
AllWorkersWait ==
    /\ Cardinality(OnWorker) >= Workers
    /\ \A tb \in OnWorker : tb[2] = "three" /\ pc[tb[1]]["three"] = "wait"

\* Unless blocks that wait hold every worker, no tap that was made is left
\* hanging: it is settled or something can go on without another tap.
StuckOnlyWaiting == (\A t \in Taps : t <= taps => Settled(t)) \/ CanGoOn \/ AllWorkersWait

\* With a worker more than taps: never stuck.
NeverStuck == (\A t \in Taps : t <= taps => Settled(t)) \/ CanGoOn

\* The most steps a block can still take.
Distance == [none |-> 7, registered |-> 6, queued |-> 5, wait |-> 4, signal |-> 4,
             download |-> 3, sync |-> 2, main |-> 1, shown |-> 0, failed |-> 0, done |-> 0]
WorkLeft == {w \in Taps \X Blocks \X (1 .. 7) : w[3] <= Distance[pc[w[1]][w[2]]]}

\* No block ever goes back, and no step leaves the work undone.
Progress == Cardinality(WorkLeft') < Cardinality(WorkLeft)
EveryStepProgresses == [][Progress]_vars

-----------------------------------------------------------------------------
(* The blocks and the queue.                                                *)

\* Goto moves one block of one tap.
LEMMA GotoMoves ==
  ASSUME TypeOK, NEW t \in Taps, NEW b \in Blocks, NEW label, Goto(t, b, label)
  PROVE  /\ pc'[t][b] = label
         /\ \A s \in Taps, c \in Blocks : s # t \/ c # b => pc'[s][c] = pc[s][c]
         /\ label \in Labels => pc' \in [Taps -> [Blocks -> Labels]]
  BY DEF TypeOK, Goto

\* The head of the queue is a block of some tap, in state "queued".
LEMMA HeadQueued ==
  ASSUME IInv, queue # <<>>
  PROVE  /\ Head(queue) = queue[1] /\ 1 \in 1 .. Len(queue)
         /\ Head(queue)[1] \in Taps /\ Head(queue)[2] \in Blocks
         /\ Head(queue) = <<Head(queue)[1], Head(queue)[2]>>
         /\ pc[Head(queue)[1]][Head(queue)[2]] = "queued"
         /\ \A i \in 1 .. Len(Tail(queue)) :
               /\ i + 1 \in 1 .. Len(queue)
               /\ Tail(queue)[i] = queue[i + 1]
               /\ Tail(queue)[i] # Head(queue)
  <1>1. queue \in Seq(Taps \X Blocks)
    BY DEF IInv, TypeOK
  <1>2. Head(queue) = queue[1] /\ 1 \in 1 .. Len(queue) /\ queue[1] \in Taps \X Blocks
    BY <1>1
  <1>3. ASSUME NEW i \in 1 .. Len(Tail(queue))
        PROVE  i + 1 \in 1 .. Len(queue) /\ Tail(queue)[i] = queue[i + 1]
    BY <1>1
  <1>4. \A i \in 1 .. Len(Tail(queue)) : queue[i + 1] # queue[1]
    BY <1>2, <1>3 DEF IInv, QueueInv
  <1>5. pc[queue[1][1]][queue[1][2]] = "queued"
    BY <1>2 DEF IInv, QueueInv
  <1>. QED
    BY <1>2, <1>3, <1>4, <1>5

\* A block that is not "queued" is not in the queue.
LEMMA NotInQueue ==
  ASSUME IInv, NEW t \in Taps, NEW b \in Blocks, pc[t][b] # "queued",
         NEW i \in 1 .. Len(queue)
  PROVE  /\ queue[i][1] \in Taps /\ queue[i][2] \in Blocks
         /\ queue[i] = <<queue[i][1], queue[i][2]>>
         /\ queue[i][1] # t \/ queue[i][2] # b
  <1>1. queue[i] \in Taps \X Blocks
    BY DEF IInv, TypeOK
  <1>. QED
    BY <1>1 DEF IInv, QueueInv

\* Moving a block that is not in the queue, with the queue unchanged, keeps the
\* queue's invariant.
LEMMA QueueKept ==
  ASSUME IInv, NEW t \in Taps, NEW b \in Blocks, NEW label, Goto(t, b, label),
         pc[t][b] # "queued", UNCHANGED queue
  PROVE  QueueInv'
  <1>1. \A i \in 1 .. Len(queue) : pc'[queue[i][1]][queue[i][2]] = pc[queue[i][1]][queue[i][2]]
    BY GotoMoves, NotInQueue DEF IInv
  <1>. QED
    BY <1>1 DEF IInv, QueueInv

LEMMA InitIInv == Init => IInv
  <1>. SUFFICES ASSUME Init PROVE IInv
    OBVIOUS
  <1>1. TypeOK
    BY BoundsAssumption DEF Init, TypeOK, Labels
  <1>2. QueueInv
    BY DEF Init, QueueInv
  <1>3. GroupInv
    BY BoundsAssumption DEF Init, GroupInv, Taps
  <1>4. ChainInv
    BY DEF Init, ChainInv, ThreeSent, Blocks, Pair
  <1>. QED
    BY <1>1, <1>2, <1>3, <1>4 DEF IInv

-----------------------------------------------------------------------------
(* Steps that move one block and leave the queue and the group alone.        *)

\* Moving a block that has not ended and does not end keeps the invariants of
\* the queue and of the group.
LEMMA QuietMove ==
  ASSUME IInv, NEW t \in Taps, NEW b \in Blocks, NEW label, Goto(t, b, label),
         pc[t][b] \notin {"none", "queued", "main", "shown"},
         label \notin {"none", "main"},
         label = "shown" => b = "three",
         UNCHANGED <<taps, queue, count, main>>
  PROVE  QueueInv' /\ GroupInv'
  <1>1. QueueInv'
    BY QueueKept
  <1>2. /\ pc'[t][b] = label
        /\ \A s \in Taps, c \in Blocks : s # t \/ c # b => pc'[s][c] = pc[s][c]
    BY GotoMoves DEF IInv
  <1>3. \A s \in Taps, c \in Pair : Ended(s, c)' <=> Ended(s, c)
    BY <1>2 DEF Ended, Pair, Blocks
  <1>4. main \in {Idle} \cup (Taps \X Pair) /\ taps \in Nat
    BY BoundsAssumption DEF IInv, TypeOK
  <1>5. main # Idle => main[1] \in Taps /\ main[2] \in Blocks
    BY <1>4 DEF Blocks
  <1>6. (main # Idle => pc[main[1]][main[2]] = "main")'
    <2>1. main # Idle => pc[main[1]][main[2]] = "main"
      BY DEF IInv, GroupInv
    <2>. QED
      BY <1>2, <1>5, <2>1
  <1>7. \A s \in Taps : s > taps' => \A c \in Blocks : pc'[s][c] = "none"
    <2>1. \A s \in Taps : s > taps => \A c \in Blocks : pc[s][c] = "none"
      BY DEF IInv, GroupInv
    <2>. QED
      BY <1>2, <2>1
  <1>8. \A s \in Taps : s <= taps' =>
          count'[s] = (IF Ended(s, "one")' THEN 0 ELSE 1) + (IF Ended(s, "two")' THEN 0 ELSE 1)
    <2>1. \A s \in Taps : s <= taps =>
            count[s] = (IF Ended(s, "one") THEN 0 ELSE 1) + (IF Ended(s, "two") THEN 0 ELSE 1)
      BY DEF IInv, GroupInv
    <2>2. "one" \in Pair /\ "two" \in Pair
      BY DEF Pair
    <2>. QED
      BY <1>3, <2>1, <2>2
  <1>. QED
    BY <1>1, <1>6, <1>7, <1>8 DEF GroupInv, Ended

LEMMA WaitStep ==
  ASSUME IInv, NEW t \in Taps, ThreeWait(t)
  PROVE  IInv'
  <1>1. "three" \in Blocks /\ "download" \in Labels /\ \A c \in Pair : c \in Blocks /\ c # "three"
    BY DEF Blocks, Labels, Pair
  <1>2. /\ pc[t]["three"] = "wait" /\ Goto(t, "three", "download")
        /\ UNCHANGED <<taps, queue, count, main, failures, printed>>
    BY DEF ThreeWait
  <1>3. sem \in [Taps -> 0 .. 1] /\ sem[t] = 1 /\ sem' = [sem EXCEPT ![t] = 0]
    <2>1. sem \in [Taps -> 0 .. 1]
      BY DEF IInv, TypeOK
    <2>2. sem[t] > 0 /\ sem' = [sem EXCEPT ![t] = sem[t] - 1]
      BY DEF ThreeWait, IInv, ChainInv
    <2>3. sem[t] \in 0 .. 1
      BY <2>1
    <2>4. sem[t] = 1 /\ sem[t] - 1 = 0
      BY <2>2, <2>3
    <2>. QED
      BY <2>1, <2>2, <2>4, Zenon
  <1>4. /\ pc'[t]["three"] = "download"
        /\ \A s \in Taps, c \in Blocks : s # t \/ c # "three" => pc'[s][c] = pc[s][c]
        /\ pc' \in [Taps -> [Blocks -> Labels]]
    BY GotoMoves, <1>1, <1>2 DEF IInv
  <1>5. TypeOK'
    <2>1. sem' \in [Taps -> 0 .. 1]
      BY <1>3
    <2>. QED
      BY <1>2, <1>4, <2>1 DEF IInv, TypeOK
  <1>6. QueueInv' /\ GroupInv'
    BY QuietMove, <1>1, <1>2
  <1>7. ChainInv'
    <2>1. \A s \in Taps : /\ pc'[s]["notify"] = pc[s]["notify"]
                          /\ \A c \in Pair : pc'[s][c] = pc[s][c]
                          /\ s # t => pc'[s]["three"] = pc[s]["three"] /\ sem'[s] = sem[s]
      BY <1>1, <1>3, <1>4 DEF Blocks
    <2>2. sem'[t] = 0
      BY <1>3
    <2>3. /\ pc[t]["notify"] = "done"
          /\ ChainInv
      BY <1>3 DEF IInv, ChainInv
    <2>. QED
      <3>1. ASSUME NEW s \in Taps, s # t
            PROVE  /\ pc'[s]["notify"] = pc[s]["notify"] /\ pc'[s]["three"] = pc[s]["three"]
                   /\ sem'[s] = sem[s] /\ \A c \in Pair : pc'[s][c] = pc[s][c]
        BY <2>1, <3>1
      <3>2. \A c \in Pair : Ended(t, c)
        BY <2>3 DEF ChainInv
      <3>3. \A c \in Pair : Ended(t, c)'
        BY <2>1, <3>2 DEF Ended
      <3>4. pc'[t]["notify"] = "done" /\ sem'[t] = 0
        BY <2>1, <2>2, <2>3
      <3>. QED
        BY <2>3, <3>1, <3>3, <3>4 DEF ChainInv, ThreeSent, Ended
  <1>. QED
    BY <1>5, <1>6, <1>7 DEF IInv

LEMMA DownloadStep ==
  ASSUME IInv, NEW t \in Taps, NEW b \in Pair \cup {"three"}, Download(t, b)
  PROVE  IInv'
  <1>1. b \in Blocks /\ b # "notify" /\ {"sync", "failed"} \subseteq Labels
    BY DEF Blocks, Labels, Pair
  <1>2. PICK label \in {"sync", "failed"} : Goto(t, b, label)
    BY DEF Download, DownloadOk, DownloadFails
  <1>3. /\ pc[t][b] = "download"
        /\ UNCHANGED <<taps, queue, count, sem, main>>
    BY DEF Download, DownloadOk, DownloadFails
  <1>4. TypeOK'
    <2>1. pc' \in [Taps -> [Blocks -> Labels]]
      BY GotoMoves, <1>1, <1>2 DEF IInv
    <2>2. failures' \in 0 .. MaxFailures
      BY BoundsAssumption DEF Download, DownloadOk, DownloadFails, IInv, TypeOK
    <2>3. printed' \in [Taps -> Seq({"one", "two", "three"})]
      <3>1. printed \in [Taps -> Seq({"one", "two", "three"})] /\ printed[t] \in Seq({"one", "two", "three"})
        BY DEF IInv, TypeOK
      <3>2. UNCHANGED printed \/ PrintEnd(t, b)
        BY DEF Download, DownloadOk, DownloadFails
      <3>3. b \in {"one", "two", "three"} => Append(printed[t], b) \in Seq({"one", "two", "three"})
        BY <3>1
      <3>. QED
        BY <3>1, <3>2, <3>3 DEF PrintEnd, Pair
    <2>. QED
      BY <2>1, <2>2, <2>3, <1>3 DEF IInv, TypeOK
  <1>5. QueueInv' /\ GroupInv'
    BY QuietMove, <1>1, <1>2, <1>3
  <1>6. ChainInv'
    <2>1. \A s \in Taps, c \in Blocks : s # t \/ c # b => pc'[s][c] = pc[s][c]
      BY GotoMoves, <1>1, <1>2 DEF IInv
    <2>2. pc'[t][b] = label
      BY GotoMoves, <1>1, <1>2 DEF IInv
    <2>3. \A s \in Taps : pc'[s]["notify"] = pc[s]["notify"]
      BY <2>1, <1>1 DEF Blocks
    <2>4. \A s \in Taps, c \in Pair : Ended(s, c) => Ended(s, c)'
      BY <2>1, <2>2, <1>3 DEF Ended, Blocks
    <2>5. \A s \in Taps : ThreeSent(s)' => ThreeSent(s)
      BY <2>1, <2>2, <1>2, <1>3 DEF ThreeSent, Blocks
    <2>6. \A s \in Taps : sem'[s] > 0 => pc'[s]["three"] \notin {"download", "sync", "failed"}
      BY <2>1, <2>2, <1>3 DEF IInv, ChainInv, Blocks
    <2>7. ChainInv
      BY DEF IInv
    <2>. QED
      BY <2>3, <2>4, <2>5, <2>6, <2>7, <1>3 DEF ChainInv
  <1>. QED
    BY <1>4, <1>5, <1>6 DEF IInv

LEMMA SignalStep ==
  ASSUME IInv, NEW t \in Taps, Signal(t)
  PROVE  IInv'
  <1>1. "notify" \in Blocks /\ "done" \in Labels /\ \A c \in Pair : c \in Blocks /\ c # "notify"
    BY DEF Blocks, Labels, Pair
  <1>2. /\ pc[t]["notify"] = "signal" /\ Goto(t, "notify", "done")
        /\ UNCHANGED <<taps, queue, count, main, failures, printed>>
    BY DEF Signal
  <1>3. sem \in [Taps -> 0 .. 1] /\ sem[t] = 0 /\ sem' = [sem EXCEPT ![t] = 1]
    <2>1. sem \in [Taps -> 0 .. 1]
      BY DEF IInv, TypeOK
    <2>2. ~ (sem[t] > 0) /\ sem' = [sem EXCEPT ![t] = sem[t] + 1]
      BY DEF Signal, IInv, ChainInv
    <2>3. sem[t] \in 0 .. 1
      BY <2>1
    <2>4. sem[t] = 0 /\ sem[t] + 1 = 1
      BY <2>2, <2>3
    <2>. QED
      BY <2>1, <2>2, <2>4, Zenon
  <1>4. /\ pc'[t]["notify"] = "done"
        /\ \A s \in Taps, c \in Blocks : s # t \/ c # "notify" => pc'[s][c] = pc[s][c]
        /\ pc' \in [Taps -> [Blocks -> Labels]]
    BY GotoMoves, <1>1, <1>2 DEF IInv
  <1>5. TypeOK'
    <2>1. sem' \in [Taps -> 0 .. 1]
      BY <1>3
    <2>. QED
      BY <1>2, <1>4, <2>1 DEF IInv, TypeOK
  <1>6. QueueInv' /\ GroupInv'
    BY QuietMove, <1>1, <1>2
  <1>7. ChainInv'
    <2>1. \A s \in Taps : /\ pc'[s]["three"] = pc[s]["three"]
                          /\ \A c \in Pair : pc'[s][c] = pc[s][c]
                          /\ s # t => pc'[s]["notify"] = pc[s]["notify"] /\ sem'[s] = sem[s]
      BY <1>1, <1>3, <1>4 DEF Blocks
    <2>2. sem'[t] = 1
      BY <1>3
    <2>3. \A s \in Taps, c \in Pair : Ended(s, c)' <=> Ended(s, c)
      BY <2>1 DEF Ended
    <2>4. \A s \in Taps : s # t =>
            /\ pc'[s]["notify"] = pc[s]["notify"] /\ sem'[s] = sem[s]
            /\ pc'[s]["three"] = pc[s]["three"]
      BY <2>1
    <2>5. \A s \in Taps : s # t => (ThreeSent(s)' <=> ThreeSent(s))
      BY <2>4 DEF ThreeSent
    <2>6. \A s \in Taps :
            /\ pc'[s]["notify"] \in {"queued", "signal", "done"} => \A c \in Pair : Ended(s, c)'
            /\ ThreeSent(s)' => pc'[s]["notify"] = "done"
            /\ sem'[s] > 0 => /\ pc'[s]["notify"] = "done"
                              /\ pc'[s]["three"] \notin {"download", "sync", "failed"}
      <3>1. ASSUME NEW s \in Taps, s = t
            PROVE  /\ pc'[s]["notify"] \in {"queued", "signal", "done"} => \A c \in Pair : Ended(s, c)'
                   /\ ThreeSent(s)' => pc'[s]["notify"] = "done"
                   /\ sem'[s] > 0 => /\ pc'[s]["notify"] = "done"
                                     /\ pc'[s]["three"] \notin {"download", "sync", "failed"}
        BY <3>1, <2>1, <2>3, <1>2, <1>4, <1>3 DEF IInv, ChainInv, ThreeSent
      <3>2. ASSUME NEW s \in Taps, s # t
            PROVE  /\ pc'[s]["notify"] \in {"queued", "signal", "done"} => \A c \in Pair : Ended(s, c)'
                   /\ ThreeSent(s)' => pc'[s]["notify"] = "done"
                   /\ sem'[s] > 0 => /\ pc'[s]["notify"] = "done"
                                     /\ pc'[s]["three"] \notin {"download", "sync", "failed"}
        BY <3>2, <2>3, <2>4, <2>5 DEF IInv, ChainInv
      <3>. QED
        BY <3>1, <3>2
    <2>. QED
      BY <2>6 DEF ChainInv, ThreeSent, Ended
  <1>. QED
    BY <1>5, <1>6, <1>7 DEF IInv

LEMMA ThreeShownStep ==
  ASSUME IInv, NEW t \in Taps, MainThree(t)
  PROVE  IInv'
  <1>1. "three" \in Blocks /\ "shown" \in Labels /\ \A c \in Pair : c \in Blocks /\ c # "three"
    BY DEF Blocks, Labels, Pair
  <1>2. /\ pc[t]["three"] = "sync" /\ Goto(t, "three", "shown")
        /\ UNCHANGED <<taps, queue, count, main, failures, printed>>
    BY DEF MainThree
  <1>3. sem \in [Taps -> 0 .. 1] /\ sem[t] = 0 /\ sem' = [sem EXCEPT ![t] = 1]
    <2>1. sem \in [Taps -> 0 .. 1]
      BY DEF IInv, TypeOK
    <2>2. ~ (sem[t] > 0) /\ sem' = [sem EXCEPT ![t] = sem[t] + 1]
      BY DEF MainThree, IInv, ChainInv
    <2>3. sem[t] \in 0 .. 1
      BY <2>1
    <2>4. sem[t] = 0 /\ sem[t] + 1 = 1
      BY <2>2, <2>3
    <2>. QED
      BY <2>1, <2>2, <2>4, Zenon
  <1>4. /\ pc'[t]["three"] = "shown"
        /\ \A s \in Taps, c \in Blocks : s # t \/ c # "three" => pc'[s][c] = pc[s][c]
        /\ pc' \in [Taps -> [Blocks -> Labels]]
    BY GotoMoves, <1>1, <1>2 DEF IInv
  <1>5. TypeOK'
    <2>1. sem' \in [Taps -> 0 .. 1]
      BY <1>3
    <2>. QED
      BY <1>2, <1>4, <2>1 DEF IInv, TypeOK
  <1>6. QueueInv' /\ GroupInv'
    BY QuietMove, <1>1, <1>2
  <1>7. ChainInv'
    <2>1. \A s \in Taps : /\ pc'[s]["notify"] = pc[s]["notify"]
                          /\ \A c \in Pair : pc'[s][c] = pc[s][c]
                          /\ s # t => pc'[s]["three"] = pc[s]["three"] /\ sem'[s] = sem[s]
      BY <1>1, <1>3, <1>4 DEF Blocks
    <2>2. sem'[t] = 1
      BY <1>3
    <2>3. \A s \in Taps, c \in Pair : Ended(s, c)' <=> Ended(s, c)
      BY <2>1 DEF Ended
    <2>4. \A s \in Taps : s # t =>
            /\ pc'[s]["notify"] = pc[s]["notify"] /\ sem'[s] = sem[s]
            /\ pc'[s]["three"] = pc[s]["three"]
      BY <2>1
    <2>5. \A s \in Taps : s # t => (ThreeSent(s)' <=> ThreeSent(s))
      BY <2>4 DEF ThreeSent
    <2>6. \A s \in Taps :
            /\ pc'[s]["notify"] \in {"queued", "signal", "done"} => \A c \in Pair : Ended(s, c)'
            /\ ThreeSent(s)' => pc'[s]["notify"] = "done"
            /\ sem'[s] > 0 => /\ pc'[s]["notify"] = "done"
                              /\ pc'[s]["three"] \notin {"download", "sync", "failed"}
      <3>1. ASSUME NEW s \in Taps, s = t
            PROVE  /\ pc'[s]["notify"] \in {"queued", "signal", "done"} => \A c \in Pair : Ended(s, c)'
                   /\ ThreeSent(s)' => pc'[s]["notify"] = "done"
                   /\ sem'[s] > 0 => /\ pc'[s]["notify"] = "done"
                                     /\ pc'[s]["three"] \notin {"download", "sync", "failed"}
        BY <3>1, <2>1, <2>3, <1>2, <1>4, <1>3 DEF IInv, ChainInv, ThreeSent
      <3>2. ASSUME NEW s \in Taps, s # t
            PROVE  /\ pc'[s]["notify"] \in {"queued", "signal", "done"} => \A c \in Pair : Ended(s, c)'
                   /\ ThreeSent(s)' => pc'[s]["notify"] = "done"
                   /\ sem'[s] > 0 => /\ pc'[s]["notify"] = "done"
                                     /\ pc'[s]["three"] \notin {"download", "sync", "failed"}
        BY <3>2, <2>3, <2>4, <2>5 DEF IInv, ChainInv
      <3>. QED
        BY <3>1, <3>2
    <2>. QED
      BY <2>6 DEF ChainInv, ThreeSent, Ended
  <1>. QED
    BY <1>5, <1>6, <1>7 DEF IInv

-----------------------------------------------------------------------------
(* Steps that move the queue, the group or the main thread.                  *)

\* Appending one element to a sequence.
LEMMA AppendOne ==
  ASSUME NEW S, NEW q \in Seq(S), NEW x \in S
  PROVE  Append(q, x) \in Seq(S)
  OBVIOUS

\* Appending three elements to a sequence.
LEMMA AppendThree ==
  ASSUME NEW S, NEW q \in Seq(S), NEW x \in S, NEW y \in S, NEW z \in S
  PROVE  /\ q \o <<x, y, z>> \in Seq(S)
         /\ Len(q \o <<x, y, z>>) = Len(q) + 3 /\ Len(q) \in Nat
         /\ \A i \in 1 .. Len(q) : (q \o <<x, y, z>>)[i] = q[i]
         /\ (q \o <<x, y, z>>)[Len(q) + 1] = x
         /\ (q \o <<x, y, z>>)[Len(q) + 2] = y
         /\ (q \o <<x, y, z>>)[Len(q) + 3] = z
  <1>1. <<x, y, z>> \in Seq(S) /\ Len(<<x, y, z>>) = 3
    OBVIOUS
  <1>2. q \o <<x, y, z>> \in Seq(S)
    BY <1>1
  <1>3. Len(q \o <<x, y, z>>) = Len(q) + 3 /\ Len(q) \in Nat
    BY <1>1
  <1>4. \A i \in 1 .. Len(q) + 3 :
           (q \o <<x, y, z>>)[i] = IF i <= Len(q) THEN q[i] ELSE <<x, y, z>>[i - Len(q)]
    BY <1>1, <1>3
  <1>5. \A i \in 1 .. Len(q) : (q \o <<x, y, z>>)[i] = q[i]
    BY <1>3, <1>4
  <1>6. (q \o <<x, y, z>>)[Len(q) + 1] = x
    BY <1>3, <1>4
  <1>7. (q \o <<x, y, z>>)[Len(q) + 2] = y
    BY <1>3, <1>4
  <1>8. (q \o <<x, y, z>>)[Len(q) + 3] = z
    BY <1>3, <1>4
  <1>. QED
    BY <1>2, <1>3, <1>5, <1>6, <1>7, <1>8

\* Two labels of one row of a table.
LEMMA TwoMoves ==
  ASSUME NEW f \in [Taps -> [Blocks -> Labels]], NEW t \in Taps, NEW b \in Blocks, NEW c \in Blocks,
         b # c, NEW x \in Labels, NEW y \in Labels
  PROVE  LET g == [f EXCEPT ![t][b] = x, ![t][c] = y]
         IN  /\ g \in [Taps -> [Blocks -> Labels]]
             /\ g[t][b] = x /\ g[t][c] = y
             /\ \A s \in Taps, d \in Blocks : s # t \/ d \notin {b, c} => g[s][d] = f[s][d]
  <1>. DEFINE h == [f EXCEPT ![t][b] = x]
              g == [h EXCEPT ![t][c] = y]
  <1>1. h \in [Taps -> [Blocks -> Labels]] /\ h[t][b] = x
        /\ \A s \in Taps, d \in Blocks : s # t \/ d # b => h[s][d] = f[s][d]
    OBVIOUS
  <1>. HIDE DEF h
  <1>2. g \in [Taps -> [Blocks -> Labels]] /\ g[t][c] = y
        /\ \A s \in Taps, d \in Blocks : s # t \/ d # c => g[s][d] = h[s][d]
    BY <1>1
  <1>. QED
    BY <1>1, <1>2 DEF h

LEMMA PrintStep ==
  ASSUME IInv, NEW t \in Taps, NEW b \in Pair, MainPrint(t, b)
  PROVE  IInv'
  <1>1. b \in Blocks /\ b # "three" /\ b # "notify" /\ "shown" \in Labels
    BY DEF Blocks, Labels, Pair
  <1>2. /\ main = <<t, b>> /\ main' = Idle /\ Goto(t, b, "shown") /\ PrintEnd(t, b)
        /\ UNCHANGED <<taps, queue, count, sem, failures>>
    BY DEF MainPrint
  <1>3. main # Idle
    BY <1>2 DEF Idle, Taps
  <1>4. pc[t][b] = "main"
    BY <1>2, <1>3 DEF IInv, GroupInv
  <1>5. /\ pc'[t][b] = "shown"
        /\ \A s \in Taps, c \in Blocks : s # t \/ c # b => pc'[s][c] = pc[s][c]
        /\ pc' \in [Taps -> [Blocks -> Labels]]
    BY GotoMoves, <1>1, <1>2 DEF IInv
  <1>6. \A s \in Taps, c \in Pair : Ended(s, c)' <=> Ended(s, c)
    BY <1>4, <1>5 DEF Ended, Blocks
  <1>7. TypeOK'
    <2>1. printed \in [Taps -> Seq({"one", "two", "three"})] /\ printed[t] \in Seq({"one", "two", "three"})
      BY DEF IInv, TypeOK
    <2>2. Append(printed[t], b) \in Seq({"one", "two", "three"})
      BY <2>1 DEF Pair
    <2>3. printed' \in [Taps -> Seq({"one", "two", "three"})]
      BY <1>2, <2>1, <2>2 DEF PrintEnd
    <2>. QED
      BY <1>2, <1>5, <2>3 DEF IInv, TypeOK
  <1>8. QueueInv'
    BY QueueKept, <1>1, <1>2, <1>4
  <1>9. GroupInv'
    <2>1. \A s \in Taps : s <= taps =>
            count[s] = (IF Ended(s, "one") THEN 0 ELSE 1) + (IF Ended(s, "two") THEN 0 ELSE 1)
      BY DEF IInv, GroupInv
    <2>2. \A s \in Taps : s > taps => \A c \in Blocks : pc[s][c] = "none"
      BY DEF IInv, GroupInv
    <2>3. "one" \in Pair /\ "two" \in Pair
      BY DEF Pair
    <2>4. \A s \in Taps : s <= taps' =>
            count'[s] = (IF Ended(s, "one")' THEN 0 ELSE 1) + (IF Ended(s, "two")' THEN 0 ELSE 1)
      BY <1>2, <1>6, <2>1, <2>3
    <2>5. \A s \in Taps : s > taps' => \A c \in Blocks : pc'[s][c] = "none"
      BY <1>1, <1>2, <1>4, <1>5, <2>2
    <2>. QED
      BY <1>2, <2>4, <2>5 DEF GroupInv, Ended
  <1>10. ChainInv'
    <2>1. \A s \in Taps : pc'[s]["three"] = pc[s]["three"] /\ pc'[s]["notify"] = pc[s]["notify"]
      BY <1>1, <1>5 DEF Blocks
    <2>2. \A s \in Taps : ThreeSent(s)' <=> ThreeSent(s)
      BY <2>1 DEF ThreeSent
    <2>. QED
      BY <1>2, <1>6, <2>1, <2>2 DEF IInv, ChainInv
  <1>. QED
    BY <1>7, <1>8, <1>9, <1>10 DEF IInv

LEMMA StartStep ==
  ASSUME IInv, Start
  PROVE  IInv'
  <1>. DEFINE t == Head(queue)[1]
              b == Head(queue)[2]
  <1>1. /\ queue # <<>> /\ queue' = Tail(queue) /\ Goto(t, b, First(b))
        /\ UNCHANGED <<taps, count, sem, main, failures, printed>>
    BY DEF Start
  <1>2. /\ t \in Taps /\ b \in Blocks /\ pc[t][b] = "queued"
        /\ Head(queue) = <<t, b>>
    BY <1>1, HeadQueued
  <1>3. /\ First(b) \in {"download", "wait", "signal"}
        /\ b = "three" => First(b) = "wait"
        /\ First(b) \in Labels
    BY <1>2 DEF First, Blocks, Pair, Labels
  <1>4. /\ \A i \in 1 .. Len(Tail(queue)) :
               i + 1 \in 1 .. Len(queue) /\ Tail(queue)[i] = queue[i + 1] /\ Tail(queue)[i] # <<t, b>>
    BY <1>1, <1>2, HeadQueued
  <1>. HIDE DEF t, b
  <1>5. /\ pc'[t][b] = First(b)
        /\ \A s \in Taps, c \in Blocks : s # t \/ c # b => pc'[s][c] = pc[s][c]
        /\ pc' \in [Taps -> [Blocks -> Labels]]
    BY GotoMoves, <1>1, <1>2, <1>3 DEF IInv
  <1>6. \A s \in Taps, c \in Pair : Ended(s, c)' <=> Ended(s, c)
    BY <1>2, <1>3, <1>5 DEF Ended, Blocks
  <1>7. queue \in Seq(Taps \X Blocks)
    BY DEF IInv, TypeOK
  <1>8. TypeOK'
    <2>1. queue' \in Seq(Taps \X Blocks)
      BY <1>1, <1>7
    <2>. QED
      BY <1>1, <1>5, <2>1 DEF IInv, TypeOK
  <1>9. QueueInv'
    <2>1. Len(Tail(queue)) = Len(queue) - 1 /\ Len(queue) \in Nat
      BY <1>1, <1>7
    <2>2. ASSUME NEW i \in 1 .. Len(queue')
          PROVE  pc'[queue'[i][1]][queue'[i][2]] = "queued"
      <3>1. i + 1 \in 1 .. Len(queue) /\ queue'[i] = queue[i + 1] /\ queue'[i] # <<t, b>>
        BY <1>1, <1>4, <2>2
      <3>2. queue[i + 1] \in Taps \X Blocks
        BY <1>7, <3>1
      <3>3. pc[queue'[i][1]][queue'[i][2]] = "queued"
        BY <3>1 DEF IInv, QueueInv
      <3>4. queue'[i][1] \in Taps /\ queue'[i][2] \in Blocks /\ (queue'[i][1] # t \/ queue'[i][2] # b)
        BY <3>1, <3>2
      <3>. QED
        BY <1>5, <3>3, <3>4
    <2>3. ASSUME NEW i \in 1 .. Len(queue'), NEW j \in 1 .. Len(queue'), queue'[i] = queue'[j]
          PROVE  i = j
      <3>1. i + 1 \in 1 .. Len(queue) /\ j + 1 \in 1 .. Len(queue) /\ queue[i + 1] = queue[j + 1]
        BY <1>1, <1>4, <2>3
      <3>2. i + 1 = j + 1
        BY <3>1 DEF IInv, QueueInv
      <3>. QED
        BY <3>2
    <2>. QED
      BY <2>2, <2>3 DEF QueueInv
  <1>10. GroupInv'
    <2>1. \A s \in Taps : s <= taps =>
            count[s] = (IF Ended(s, "one") THEN 0 ELSE 1) + (IF Ended(s, "two") THEN 0 ELSE 1)
      BY DEF IInv, GroupInv
    <2>2. \A s \in Taps : s > taps => \A c \in Blocks : pc[s][c] = "none"
      BY DEF IInv, GroupInv
    <2>3. "one" \in Pair /\ "two" \in Pair
      BY DEF Pair
    <2>4. \A s \in Taps : s <= taps' =>
            count'[s] = (IF Ended(s, "one")' THEN 0 ELSE 1) + (IF Ended(s, "two")' THEN 0 ELSE 1)
      BY <1>1, <1>6, <2>1, <2>3
    <2>5. \A s \in Taps : s > taps' => \A c \in Blocks : pc'[s][c] = "none"
      BY <1>1, <1>2, <1>5, <2>2
    <2>6. main # Idle => /\ main[1] \in Taps /\ main[2] \in Blocks
                         /\ pc[main[1]][main[2]] = "main"
      <3>1. main \in {Idle} \cup (Taps \X Pair)
        BY DEF IInv, TypeOK
      <3>2. main # Idle => pc[main[1]][main[2]] = "main"
        BY DEF IInv, GroupInv
      <3>. QED
        BY <3>1, <3>2 DEF Blocks
    <2>7. main' # Idle => pc'[main'[1]][main'[2]] = "main"
      BY <1>1, <1>2, <1>5, <2>6
    <2>. QED
      BY <2>4, <2>5, <2>7 DEF GroupInv, Ended
  <1>11. ChainInv'
    <2>1. \A s \in Taps : pc'[s]["notify"] \in {"queued", "signal", "done"} => pc[s]["notify"] \in {"queued", "signal", "done"}
      BY <1>2, <1>5 DEF Blocks
    <2>2. \A s \in Taps : pc[s]["notify"] = "done" => pc'[s]["notify"] = "done"
      BY <1>2, <1>5 DEF Blocks
    <2>3. \A s \in Taps : ThreeSent(s)' => ThreeSent(s)
      BY <1>2, <1>3, <1>5 DEF ThreeSent, Blocks
    <2>4. \A s \in Taps : pc'[s]["three"] \in {"download", "sync", "failed"} => pc[s]["three"] \in {"download", "sync", "failed"}
      BY <1>2, <1>3, <1>5 DEF Blocks
    <2>. QED
      BY <1>1, <1>6, <2>1, <2>2, <2>3, <2>4 DEF IInv, ChainInv
  <1>. QED
    BY <1>8, <1>9, <1>10, <1>11 DEF IInv

LEMMA LeaveStep ==
  ASSUME IInv, NEW t \in Taps, NEW b \in Pair, MainLeave(t, b)
  PROVE  IInv'
  <1>1. b \in Blocks /\ b # "three" /\ b # "notify" /\ "notify" \in Blocks /\ {"main", "queued"} \subseteq Labels
    BY DEF Blocks, Labels, Pair
  <1>2. /\ pc[t][b] = "sync" /\ main' = <<t, b>>
        /\ count' = [count EXCEPT ![t] = count[t] - 1]
        /\ UNCHANGED <<taps, sem, failures, printed>>
        /\ \/ /\ count'[t] = 0
              /\ pc' = [pc EXCEPT ![t][b] = "main", ![t]["notify"] = "queued"]
              /\ queue' = Append(queue, <<t, "notify">>)
           \/ count'[t] # 0 /\ pc' = [pc EXCEPT ![t][b] = "main"] /\ UNCHANGED queue
    BY DEF MainLeave, Goto
  <1>3. /\ pc \in [Taps -> [Blocks -> Labels]] /\ queue \in Seq(Taps \X Blocks)
        /\ count \in [Taps -> 0 .. 2] /\ taps \in Nat
    BY BoundsAssumption DEF IInv, TypeOK
  <1>4. pc' \in [Taps -> [Blocks -> Labels]] /\ queue' \in Seq(Taps \X Blocks)
    <2>1. CASE count'[t] = 0
      <3>1. /\ pc' = [pc EXCEPT ![t][b] = "main", ![t]["notify"] = "queued"]
            /\ queue' = Append(queue, <<t, "notify">>)
        BY <1>2, <2>1
      <3>2. pc' \in [Taps -> [Blocks -> Labels]]
        <4>1. pc \in [Taps -> [Blocks -> Labels]] /\ "main" \in Labels /\ "queued" \in Labels
          BY <1>1, <1>3
        <4>. QED
          BY ONLY <1>1, <3>1, <4>1, TwoMoves
      <3>3. <<t, "notify">> \in Taps \X Blocks
        BY <1>1
      <3>4. Append(queue, <<t, "notify">>) \in Seq(Taps \X Blocks)
        BY ONLY <1>3, <3>3, AppendOne
      <3>. QED
        BY <3>1, <3>2, <3>4
    <2>2. CASE count'[t] # 0
      <3>1. Goto(t, b, "main") /\ UNCHANGED queue
        BY <1>2, <2>2 DEF Goto
      <3>2. pc' \in [Taps -> [Blocks -> Labels]]
        BY GotoMoves, <1>1, <3>1 DEF IInv
      <3>. QED
        BY <1>3, <3>1, <3>2
    <2>. QED
      BY <2>1, <2>2
  <1>5. /\ pc'[t][b] = "main"
        /\ \A s \in Taps, c \in Blocks : (s # t \/ c \notin {b, "notify"}) => pc'[s][c] = pc[s][c]
        /\ \A s \in Taps : s # t => pc'[s]["notify"] = pc[s]["notify"]
        /\ pc'[t]["notify"] = IF count'[t] = 0 THEN "queued" ELSE pc[t]["notify"]
    BY <1>1, <1>2, <1>3
  <1>6. t <= taps /\ ~Ended(t, b)
    BY <1>1, <1>2, <1>3 DEF IInv, GroupInv, Ended, Taps
  <1>7. pc[t]["notify"] \notin {"queued", "signal", "done"}
    BY <1>6 DEF IInv, ChainInv
  <1>8. \A s \in Taps, c \in Pair : Ended(s, c)' <=> (Ended(s, c) \/ (s = t /\ c = b))
    BY <1>1, <1>5 DEF Ended, Pair, Blocks
  <1>9. \A s \in Taps : s <= taps =>
          count[s] = (IF Ended(s, "one") THEN 0 ELSE 1) + (IF Ended(s, "two") THEN 0 ELSE 1)
    BY DEF IInv, GroupInv
  <1>10. count[t] \in {1, 2} /\ count'[t] = count[t] - 1
    BY <1>2, <1>3, <1>6, <1>9 DEF Pair
  <1>11. count'[t] = (IF Ended(t, "one")' THEN 0 ELSE 1) + (IF Ended(t, "two")' THEN 0 ELSE 1)
    BY <1>6, <1>8, <1>9, <1>10 DEF Pair
  <1>12. TypeOK'
    <2>1. count' \in [Taps -> 0 .. 2]
      BY <1>2, <1>3, <1>10
    <2>. QED
      BY <1>2, <1>4, <2>1 DEF IInv, TypeOK
  <1>13. QueueInv'
    <2>1. \A i \in 1 .. Len(queue) :
             /\ queue[i][1] \in Taps /\ queue[i][2] \in Blocks
             /\ queue[i] # <<t, b>> /\ queue[i] # <<t, "notify">>
             /\ pc'[queue[i][1]][queue[i][2]] = "queued"
      <3>1. SUFFICES ASSUME NEW i \in 1 .. Len(queue)
            PROVE  /\ queue[i][1] \in Taps /\ queue[i][2] \in Blocks
                   /\ queue[i] # <<t, b>> /\ queue[i] # <<t, "notify">>
                   /\ pc'[queue[i][1]][queue[i][2]] = "queued"
        OBVIOUS
      <3>2. pc[t][b] # "queued" /\ pc[t]["notify"] # "queued"
        BY <1>2, <1>7
      <3>3. /\ queue[i][1] \in Taps /\ queue[i][2] \in Blocks
            /\ queue[i][1] # t \/ queue[i][2] # b
            /\ queue[i][1] # t \/ queue[i][2] # "notify"
        BY NotInQueue, <1>1, <3>2
      <3>4. pc[queue[i][1]][queue[i][2]] = "queued"
        BY DEF IInv, QueueInv
      <3>. QED
        BY <1>5, <3>3, <3>4
    <2>2. \A i, j \in 1 .. Len(queue) : queue[i] = queue[j] => i = j
      BY DEF IInv, QueueInv
    <2>3. CASE count'[t] # 0
      BY <1>2, <2>1, <2>2, <2>3 DEF QueueInv
    <2>4. CASE count'[t] = 0
      <3>1. queue' = Append(queue, <<t, "notify">>)
        BY <1>2, <2>4
      <3>2. /\ Len(queue') = Len(queue) + 1 /\ Len(queue) \in Nat
            /\ queue'[Len(queue) + 1] = <<t, "notify">>
            /\ \A i \in 1 .. Len(queue) : queue'[i] = queue[i]
        BY <1>1, <1>3, <3>1
      <3>3. pc'[t]["notify"] = "queued"
        BY <1>5, <2>4
      <3>4. \A i \in 1 .. Len(queue') : i \in 1 .. Len(queue) \/ i = Len(queue) + 1
        BY <3>2
      <3>5. \A i \in 1 .. Len(queue') : pc'[queue'[i][1]][queue'[i][2]] = "queued"
        BY <2>1, <3>2, <3>3, <3>4
      <3>6. \A i, j \in 1 .. Len(queue') : queue'[i] = queue'[j] => i = j
        BY <2>1, <2>2, <3>2, <3>4
      <3>. QED
        BY <3>5, <3>6 DEF QueueInv
    <2>. QED
      BY <2>3, <2>4
  <1>14. GroupInv'
    <2>1. \A s \in Taps : s <= taps' =>
            count'[s] = (IF Ended(s, "one")' THEN 0 ELSE 1) + (IF Ended(s, "two")' THEN 0 ELSE 1)
      <3>1. "one" \in Pair /\ "two" \in Pair
        BY DEF Pair
      <3>2. \A s \in Taps : s # t => count'[s] = count[s]
        BY <1>2, <1>3
      <3>. QED
        BY <1>2, <1>8, <1>9, <1>11, <3>1, <3>2
    <2>2. \A s \in Taps : s > taps' => \A c \in Blocks : pc'[s][c] = "none"
      <3>1. \A s \in Taps : s > taps => \A c \in Blocks : pc[s][c] = "none"
        BY DEF IInv, GroupInv
      <3>2. \A s \in Taps : s > taps => s # t
        BY <1>3, <1>6 DEF Taps
      <3>. QED
        BY <1>2, <1>5, <3>1, <3>2
    <2>3. main' # Idle => pc'[main'[1]][main'[2]] = "main"
      BY <1>2, <1>5
    <2>. QED
      BY <2>1, <2>2, <2>3 DEF GroupInv, Ended
  <1>15. ChainInv'
    <2>1. \A s \in Taps : pc'[s]["three"] = pc[s]["three"]
      BY <1>1, <1>5 DEF Blocks
    <2>2. \A s \in Taps : ThreeSent(s)' <=> ThreeSent(s)
      BY <2>1 DEF ThreeSent
    <2>3. count'[t] = 0 => \A c \in Pair : Ended(t, c)'
      BY <1>11 DEF Pair
    <2>4. \A s \in Taps : pc'[s]["notify"] \in {"queued", "signal", "done"} => \A c \in Pair : Ended(s, c)'
      BY <1>5, <1>7, <1>8, <2>3 DEF IInv, ChainInv
    <2>5. \A s \in Taps : pc[s]["notify"] = "done" => pc'[s]["notify"] = "done"
      BY <1>5, <1>7
    <2>. QED
      BY <1>2, <2>1, <2>2, <2>4, <2>5 DEF IInv, ChainInv
  <1>. QED
    BY <1>12, <1>13, <1>14, <1>15 DEF IInv

LEMMA TapStep ==
  ASSUME IInv, Tap
  PROVE  IInv'
  <1>0. taps + 1 \in Taps
    BY BoundsAssumption DEF IInv, TypeOK, Tap, Taps
  <1>. PICK t \in Taps : t = taps + 1
    BY <1>0
  <1>. DEFINE new == [b \in Blocks |-> IF b = "notify" THEN "registered" ELSE "queued"]
  <1>1. /\ main = Idle /\ taps < MaxTaps /\ taps' = t
        /\ queue' = queue \o << <<t, "one">>, <<t, "three">>, <<t, "two">> >>
        /\ pc' = [pc EXCEPT ![t] = new]
        /\ count' = [count EXCEPT ![t] = 2]
        /\ UNCHANGED <<sem, main, failures, printed>>
    BY DEF Tap
  <1>2. /\ pc \in [Taps -> [Blocks -> Labels]] /\ queue \in Seq(Taps \X Blocks)
        /\ count \in [Taps -> 0 .. 2] /\ taps \in Nat /\ taps' \in 0 .. MaxTaps
        /\ t \in Taps /\ t > taps
    BY <1>1, BoundsAssumption DEF IInv, TypeOK, Taps
  <1>3. new \in [Blocks -> Labels]
    BY DEF Labels
  <1>4. {"one", "two", "three", "notify"} = Blocks
    BY DEF Blocks, Pair
  <1>5. <<t, "one">> \in Taps \X Blocks /\ <<t, "three">> \in Taps \X Blocks /\ <<t, "two">> \in Taps \X Blocks
    BY <1>2, <1>4
  <1>6. new["one"] = "queued" /\ new["three"] = "queued" /\ new["two"] = "queued" /\ new["notify"] = "registered"
    BY <1>4
  <1>. HIDE DEF new
  <1>7. pc'[t] = new /\ \A s \in Taps : s # t => pc'[s] = pc[s] /\ count'[s] = count[s]
    BY <1>1, <1>2
  <1>8. count'[t] = 2
    BY <1>1, <1>2
  <1>9. \A c \in Blocks : pc[t][c] = "none"
    BY <1>2 DEF IInv, GroupInv
  <1>10. TypeOK'
    <2>1. pc' \in [Taps -> [Blocks -> Labels]]
      BY <1>1, <1>2, <1>3
    <2>2. count' \in [Taps -> 0 .. 2]
      BY <1>1, <1>2
    <2>3. queue' \in Seq(Taps \X Blocks)
      BY <1>1, <1>2, <1>5, AppendThree
    <2>. QED
      BY <1>1, <1>2, <2>1, <2>2, <2>3 DEF IInv, TypeOK
  <1>11. QueueInv'
    <2>1. ASSUME NEW i \in 1 .. Len(queue)
          PROVE  /\ queue[i][1] \in Taps /\ queue[i][1] # t
                 /\ pc'[queue[i][1]][queue[i][2]] = "queued"
      <3>1. queue[i][1] \in Taps /\ queue[i][2] \in Blocks
        BY <1>2
      <3>2. pc[queue[i][1]][queue[i][2]] = "queued"
        BY DEF IInv, QueueInv
      <3>3. queue[i][1] # t
        BY <1>9, <3>1, <3>2
      <3>. QED
        BY <1>7, <3>1, <3>2, <3>3
    <2>2. /\ Len(queue') = Len(queue) + 3 /\ Len(queue) \in Nat
          /\ \A i \in 1 .. Len(queue) : queue'[i] = queue[i]
          /\ queue'[Len(queue) + 1] = <<t, "one">>
          /\ queue'[Len(queue) + 2] = <<t, "three">>
          /\ queue'[Len(queue) + 3] = <<t, "two">>
      BY <1>1, <1>2, <1>5, AppendThree
    <2>3. \A i \in 1 .. Len(queue') :
            i \in 1 .. Len(queue) \/ i = Len(queue) + 1 \/ i = Len(queue) + 2 \/ i = Len(queue) + 3
      BY <2>2
    <2>4. \A i \in 1 .. Len(queue') : pc'[queue'[i][1]][queue'[i][2]] = "queued"
      BY <1>6, <1>7, <2>1, <2>2, <2>3
    <2>5. \A i, j \in 1 .. Len(queue) : queue[i] = queue[j] => i = j
      BY DEF IInv, QueueInv
    <2>6. \A i, j \in 1 .. Len(queue') : queue'[i] = queue'[j] => i = j
      BY <2>1, <2>2, <2>3, <2>5
    <2>. QED
      BY <2>4, <2>6 DEF QueueInv
  <1>12. GroupInv'
    <2>1. \A s \in Taps, c \in Pair : Ended(s, c)' <=> (s # t /\ Ended(s, c))
      BY <1>6, <1>7 DEF Ended, Pair
    <2>2. \A s \in Taps : s <= taps' =>
            count'[s] = (IF Ended(s, "one")' THEN 0 ELSE 1) + (IF Ended(s, "two")' THEN 0 ELSE 1)
      <3>1. \A s \in Taps : s <= taps =>
              count[s] = (IF Ended(s, "one") THEN 0 ELSE 1) + (IF Ended(s, "two") THEN 0 ELSE 1)
        BY DEF IInv, GroupInv
      <3>2. \A s \in Taps : s <= taps' => s = t \/ s <= taps
        BY <1>1, <1>2 DEF Taps
      <3>. QED
        BY <1>7, <1>8, <2>1, <3>1, <3>2 DEF Pair
    <2>3. \A s \in Taps : s > taps' => \A c \in Blocks : pc'[s][c] = "none"
      <3>1. \A s \in Taps : s > taps' => s # t /\ s > taps
        BY <1>1, <1>2 DEF Taps
      <3>. QED
        BY <1>7, <3>1 DEF IInv, GroupInv
    <2>. QED
      BY <1>1, <2>2, <2>3 DEF GroupInv, Ended
  <1>13. ChainInv'
    <2>1. sem'[t] > 0 => FALSE
      BY <1>1, <1>2, <1>4, <1>9 DEF IInv, ChainInv
    <2>2. ~ThreeSent(t)'
      BY <1>6, <1>7 DEF ThreeSent
    <2>3. \A s \in Taps : s # t => pc'[s] = pc[s] /\ sem'[s] = sem[s]
      BY <1>1, <1>7
    <2>4. ChainInv
      BY DEF IInv
    <2>. QED
      BY <1>6, <1>7, <2>1, <2>2, <2>3, <2>4 DEF ChainInv, ThreeSent, Ended
  <1>. QED
    BY <1>10, <1>11, <1>12, <1>13 DEF IInv

-----------------------------------------------------------------------------
(* The theorems.                                                             *)

LEMMA StutterStep ==
  ASSUME IInv, UNCHANGED vars
  PROVE  IInv'
  BY DEF vars, IInv, TypeOK, QueueInv, GroupInv, ChainInv, ThreeSent, Ended

\* The inductive invariant: the queue holds each waiting block once, the group
\* counts what has not ended, the chain from the group to the third request is
\* kept in order (lines 206-278), for any number of taps and of workers.
THEOREM Invariance == Spec => []IInv
  <1>1. IInv /\ [Next \/ Terminating]_vars => IInv'
    <2>. SUFFICES ASSUME IInv, [Next \/ Terminating]_vars PROVE IInv'
      OBVIOUS
    <2>1. CASE Tap
      BY TapStep, <2>1
    <2>2. CASE Start
      BY StartStep, <2>2
    <2>3. ASSUME NEW t \in Taps, Step(t) PROVE IInv'
      <3>1. ASSUME NEW b \in Pair \cup {"three"}, Download(t, b) PROVE IInv'
        BY DownloadStep, <3>1
      <3>2. ASSUME NEW b \in Pair, MainLeave(t, b) PROVE IInv'
        BY LeaveStep, <3>2
      <3>3. ASSUME NEW b \in Pair, MainPrint(t, b) PROVE IInv'
        BY PrintStep, <3>3
      <3>4. CASE ThreeWait(t)
        BY WaitStep, <3>4
      <3>5. CASE Signal(t)
        BY SignalStep, <3>5
      <3>6. CASE MainThree(t)
        BY ThreeShownStep, <3>6
      <3>. QED
        BY <2>3, <3>1, <3>2, <3>3, <3>4, <3>5, <3>6 DEF Step
    <2>4. CASE UNCHANGED vars
      BY StutterStep, <2>4
    <2>. QED
      BY <2>1, <2>2, <2>3, <2>4 DEF Next, Terminating
  <1>. QED
    BY InitIInv, <1>1, PTL DEF Spec

\* The variables keep their types: no group is left more often than it was
\* entered (count never negative) and no semaphore holds two units.
THEOREM TypeCorrect == Spec => []TypeOK
  BY Invariance, PTL DEF IInv

\* The third request of a tap is never sent before the first and the second of
\* that tap have ended (comment of line 210).
THEOREM ThirdWaits == Spec => []ThirdAfterBoth
  <1>1. IInv => ThirdAfterBoth
    <2>. SUFFICES ASSUME IInv, NEW t \in Taps, ThreeSent(t), NEW b \in Pair
         PROVE  Ended(t, b)
      BY DEF ThirdAfterBoth
    <2>1. pc[t]["notify"] = "done"
      BY DEF IInv, ChainInv
    <2>. QED
      BY <2>1 DEF IInv, ChainInv
  <1>. QED
    BY Invariance, <1>1, PTL

-----------------------------------------------------------------------------
(* Nothing is forgotten: the invariant behind termination.                   *)

LEMMA CourseOf ==
  /\ \A b \in Pair :
        Course(b) = {"queued", "download", "sync", "main", "shown", "failed"}
  /\ Course("three") = {"queued", "wait", "download", "sync", "shown", "failed"}
  /\ Course("notify") = {"registered", "queued", "signal", "done"}
  BY DEF Course, Pair

\* Moving one block, not into the queue or the main thread's hands, keeps what
\* is said of the queue and of the main thread.
LEMMA QuietRun ==
  ASSUME IInv, RunInv, NEW t \in Taps, NEW b \in Blocks, NEW label, Goto(t, b, label),
         label \notin {"queued", "main"}, label \in Course(b),
         UNCHANGED <<taps, queue, main>>
  PROVE  Enqueued' /\ MainBusy' /\ OnTheWay'
  <1>1. /\ pc'[t][b] = label
        /\ \A s \in Taps, c \in Blocks : s # t \/ c # b => pc'[s][c] = pc[s][c]
    BY GotoMoves DEF IInv
  <1>2. Enqueued'
    <2>1. \A s \in Taps, c \in Blocks : pc'[s][c] = "queued" => pc[s][c] = "queued"
      BY <1>1
    <2>. QED
      BY <2>1 DEF RunInv, Enqueued
  <1>3. MainBusy'
    <2>1. \A s \in Taps, c \in Blocks : pc'[s][c] = "main" => pc[s][c] = "main"
      BY <1>1
    <2>. QED
      BY <2>1 DEF RunInv, MainBusy
  <1>4. OnTheWay'
    BY <1>1 DEF RunInv, OnTheWay
  <1>. QED
    BY <1>2, <1>3, <1>4

\* The wakeup is kept where the pair, the notify block, the block of three and
\* the semaphore do not change in a way that matters to it.
LEMMA WakeupKept ==
  ASSUME RunInv, UNCHANGED taps,
         NEW t \in Taps, t <= taps,
         \A b \in Pair : Ended(t, b)' => Ended(t, b),
         pc'[t]["notify"] = "registered" => pc[t]["notify"] = "registered",
         pc'[t]["notify"] = "done" /\ ~ThreeSent(t)'
            => sem'[t] > 0 \/ (pc[t]["notify"] = "done" /\ ~ThreeSent(t) /\ sem'[t] = sem[t])
  PROVE  /\ (\A b \in Pair : Ended(t, b)') => pc'[t]["notify"] # "registered"
         /\ pc'[t]["notify"] = "done" /\ ~ThreeSent(t)' => sem'[t] > 0
  BY DEF RunInv, NoLostWakeup

LEMMA InitRun == Init => RunInv
  <1>. SUFFICES ASSUME Init PROVE RunInv
    OBVIOUS
  <1>1. \A t \in Taps, b \in Blocks : pc[t][b] = "none"
    BY DEF Init
  <1>2. \A t \in Taps : ~(t <= taps)
    BY BoundsAssumption DEF Init, Taps
  <1>. QED
    BY <1>1, <1>2 DEF RunInv, Enqueued, MainBusy, OnTheWay, NoLostWakeup

LEMMA WaitRun ==
  ASSUME IInv, RunInv, NEW t \in Taps, ThreeWait(t)
  PROVE  RunInv'
  <1>1. "three" \in Blocks /\ "notify" \in Blocks /\ \A c \in Pair : c \in Blocks /\ c # "three"
    BY DEF Blocks, Pair
  <1>2. /\ Goto(t, "three", "download") /\ UNCHANGED <<taps, queue, main>>
        /\ \A s \in Taps : s # t => sem'[s] = sem[s]
    BY DEF ThreeWait, IInv, TypeOK
  <1>3. Enqueued' /\ MainBusy' /\ OnTheWay'
    BY QuietRun, CourseOf, <1>1, <1>2
  <1>4. /\ pc'[t]["three"] = "download"
        /\ \A s \in Taps, c \in Blocks : s # t \/ c # "three" => pc'[s][c] = pc[s][c]
    BY GotoMoves, <1>1, <1>2 DEF IInv
  <1>5. ASSUME NEW s \in Taps, s <= taps
        PROVE  /\ (\A c \in Pair : Ended(s, c)') => pc'[s]["notify"] # "registered"
               /\ pc'[s]["notify"] = "done" /\ ~ThreeSent(s)' => sem'[s] > 0
    <2>1. \A c \in Pair : Ended(s, c)' => Ended(s, c)
      BY <1>1, <1>4 DEF Ended
    <2>2. pc'[s]["notify"] = pc[s]["notify"]
      BY <1>1, <1>4
    <2>3. ~ThreeSent(s)' => s # t /\ ~ThreeSent(s) /\ sem'[s] = sem[s]
      BY <1>1, <1>2, <1>4 DEF ThreeSent
    <2>. QED
      BY WakeupKept, <1>2, <1>5, <2>1, <2>2, <2>3
  <1>. QED
    BY <1>2, <1>3, <1>5 DEF RunInv, NoLostWakeup, Ended, ThreeSent

LEMMA DownloadRun ==
  ASSUME IInv, RunInv, NEW t \in Taps, NEW b \in Pair \cup {"three"}, Download(t, b)
  PROVE  RunInv'
  <1>1. b \in Blocks /\ b # "notify" /\ "notify" \in Blocks /\ "three" \in Blocks
        /\ \A c \in Pair : c \in Blocks
    BY DEF Blocks, Pair
  <1>2. PICK label \in {"sync", "failed"} : Goto(t, b, label)
    BY DEF Download, DownloadOk, DownloadFails
  <1>3. pc[t][b] = "download" /\ UNCHANGED <<taps, queue, main, sem>>
    BY DEF Download, DownloadOk, DownloadFails
  <1>4. Enqueued' /\ MainBusy' /\ OnTheWay'
    BY QuietRun, CourseOf, <1>1, <1>2, <1>3
  <1>5. /\ pc'[t][b] = label
        /\ \A s \in Taps, c \in Blocks : s # t \/ c # b => pc'[s][c] = pc[s][c]
    BY GotoMoves, <1>1, <1>2 DEF IInv
  <1>6. ASSUME NEW s \in Taps, s <= taps
        PROVE  /\ (\A c \in Pair : Ended(s, c)') => pc'[s]["notify"] # "registered"
               /\ pc'[s]["notify"] = "done" /\ ~ThreeSent(s)' => sem'[s] > 0
    <2>1. \A c \in Pair : Ended(s, c)' => Ended(s, c)
      BY <1>1, <1>2, <1>5 DEF Ended
    <2>2. pc'[s]["notify"] = pc[s]["notify"]
      BY <1>1, <1>5
    <2>3. ~ThreeSent(s)' => ~ThreeSent(s)
      BY <1>1, <1>2, <1>3, <1>5 DEF ThreeSent
    <2>. QED
      BY WakeupKept, <1>3, <1>6, <2>1, <2>2, <2>3
  <1>. QED
    BY <1>3, <1>4, <1>6 DEF RunInv, NoLostWakeup, Ended, ThreeSent

LEMMA SignalRun ==
  ASSUME IInv, RunInv, NEW t \in Taps, Signal(t)
  PROVE  RunInv'
  <1>1. "three" \in Blocks /\ "notify" \in Blocks /\ \A c \in Pair : c \in Blocks /\ c # "notify"
    BY DEF Blocks, Pair
  <1>2. /\ Goto(t, "notify", "done") /\ UNCHANGED <<taps, queue, main>>
        /\ sem'[t] > 0 /\ \A s \in Taps : s # t => sem'[s] = sem[s]
    BY DEF Signal, IInv, TypeOK
  <1>3. Enqueued' /\ MainBusy' /\ OnTheWay'
    BY QuietRun, CourseOf, <1>1, <1>2
  <1>4. /\ pc'[t]["notify"] = "done"
        /\ \A s \in Taps, c \in Blocks : s # t \/ c # "notify" => pc'[s][c] = pc[s][c]
    BY GotoMoves, <1>1, <1>2 DEF IInv
  <1>5. ASSUME NEW s \in Taps, s <= taps
        PROVE  /\ (\A c \in Pair : Ended(s, c)') => pc'[s]["notify"] # "registered"
               /\ pc'[s]["notify"] = "done" /\ ~ThreeSent(s)' => sem'[s] > 0
    <2>1. \A c \in Pair : Ended(s, c)' => Ended(s, c)
      BY <1>1, <1>4 DEF Ended
    <2>2. pc'[s]["notify"] = "registered" => pc[s]["notify"] = "registered"
      BY <1>1, <1>4
    <2>3. pc'[s]["notify"] = "done" => s = t \/ (pc[s]["notify"] = "done" /\ sem'[s] = sem[s])
      BY <1>1, <1>2, <1>4
    <2>4. ~ThreeSent(s)' => ~ThreeSent(s)
      BY <1>1, <1>4 DEF ThreeSent
    <2>. QED
      BY WakeupKept, <1>2, <1>5, <2>1, <2>2, <2>3, <2>4
  <1>. QED
    BY <1>2, <1>3, <1>5 DEF RunInv, NoLostWakeup, Ended, ThreeSent

LEMMA ThreeShownRun ==
  ASSUME IInv, RunInv, NEW t \in Taps, MainThree(t)
  PROVE  RunInv'
  <1>1. "three" \in Blocks /\ "notify" \in Blocks /\ \A c \in Pair : c \in Blocks /\ c # "three"
    BY DEF Blocks, Pair
  <1>2. /\ Goto(t, "three", "shown") /\ UNCHANGED <<taps, queue, main>>
        /\ \A s \in Taps : s # t => sem'[s] = sem[s]
    BY DEF MainThree, IInv, TypeOK
  <1>3. Enqueued' /\ MainBusy' /\ OnTheWay'
    BY QuietRun, CourseOf, <1>1, <1>2
  <1>4. /\ pc'[t]["three"] = "shown"
        /\ \A s \in Taps, c \in Blocks : s # t \/ c # "three" => pc'[s][c] = pc[s][c]
    BY GotoMoves, <1>1, <1>2 DEF IInv
  <1>5. ASSUME NEW s \in Taps, s <= taps
        PROVE  /\ (\A c \in Pair : Ended(s, c)') => pc'[s]["notify"] # "registered"
               /\ pc'[s]["notify"] = "done" /\ ~ThreeSent(s)' => sem'[s] > 0
    <2>1. \A c \in Pair : Ended(s, c)' => Ended(s, c)
      BY <1>1, <1>4 DEF Ended
    <2>2. pc'[s]["notify"] = pc[s]["notify"]
      BY <1>1, <1>4
    <2>3. ~ThreeSent(s)' => s # t /\ ~ThreeSent(s) /\ sem'[s] = sem[s]
      BY <1>1, <1>2, <1>4 DEF ThreeSent
    <2>. QED
      BY WakeupKept, <1>2, <1>5, <2>1, <2>2, <2>3
  <1>. QED
    BY <1>2, <1>3, <1>5 DEF RunInv, NoLostWakeup, Ended, ThreeSent

LEMMA PrintRun ==
  ASSUME IInv, RunInv, NEW t \in Taps, NEW b \in Pair, MainPrint(t, b)
  PROVE  RunInv'
  <1>1. b \in Blocks /\ b # "three" /\ b # "notify" /\ "three" \in Blocks /\ "notify" \in Blocks
        /\ \A c \in Pair : c \in Blocks
    BY DEF Blocks, Pair
  <1>2. /\ main = <<t, b>> /\ Goto(t, b, "shown") /\ UNCHANGED <<taps, queue, sem>>
    BY DEF MainPrint
  <1>3. pc[t][b] = "main"
    <2>1. main # Idle
      BY <1>2 DEF Idle, Taps
    <2>. QED
      BY <1>2, <2>1 DEF IInv, GroupInv
  <1>4. /\ pc'[t][b] = "shown"
        /\ \A s \in Taps, c \in Blocks : s # t \/ c # b => pc'[s][c] = pc[s][c]
    BY GotoMoves, <1>1, <1>2 DEF IInv
  <1>5. Enqueued'
    <2>1. \A s \in Taps, c \in Blocks : pc'[s][c] = "queued" => pc[s][c] = "queued"
      BY <1>4
    <2>. QED
      BY <1>2, <2>1 DEF RunInv, Enqueued
  <1>6. MainBusy'
    <2>1. \A s \in Taps, c \in Blocks : pc[s][c] = "main" => s = t /\ c = b
      BY <1>2 DEF RunInv, MainBusy
    <2>2. \A s \in Taps, c \in Blocks : pc'[s][c] # "main"
      BY <1>4, <2>1
    <2>. QED
      BY <2>2 DEF MainBusy
  <1>7. OnTheWay'
    BY <1>2, <1>4, CourseOf DEF RunInv, OnTheWay
  <1>8. ASSUME NEW s \in Taps, s <= taps
        PROVE  /\ (\A c \in Pair : Ended(s, c)') => pc'[s]["notify"] # "registered"
               /\ pc'[s]["notify"] = "done" /\ ~ThreeSent(s)' => sem'[s] > 0
    <2>1. \A c \in Pair : Ended(s, c)' => Ended(s, c)
      BY <1>1, <1>3, <1>4 DEF Ended
    <2>2. pc'[s]["notify"] = pc[s]["notify"] /\ pc'[s]["three"] = pc[s]["three"]
      BY <1>1, <1>4
    <2>. QED
      BY WakeupKept, <1>2, <1>8, <2>1, <2>2 DEF ThreeSent
  <1>. QED
    BY <1>2, <1>5, <1>6, <1>7, <1>8 DEF RunInv, NoLostWakeup, Ended, ThreeSent

LEMMA StartRun ==
  ASSUME IInv, RunInv, Start
  PROVE  RunInv'
  <1>. DEFINE t == Head(queue)[1]
              b == Head(queue)[2]
  <1>1. /\ queue # <<>> /\ queue' = Tail(queue) /\ Goto(t, b, First(b))
        /\ UNCHANGED <<taps, sem, main>>
    BY DEF Start
  <1>2. /\ t \in Taps /\ b \in Blocks /\ pc[t][b] = "queued"
        /\ queue[1] = <<t, b>>
    BY <1>1, HeadQueued
  <1>3. queue \in Seq(Taps \X Blocks)
    BY DEF IInv, TypeOK
  <1>4. /\ First(b) \in {"download", "wait", "signal"} /\ First(b) \in Course(b)
        /\ b = "notify" => First(b) = "signal"
        /\ b = "three" => First(b) = "wait"
    BY <1>2, CourseOf DEF First, Blocks, Pair
  <1>. HIDE DEF t, b
  <1>5. /\ pc'[t][b] = First(b)
        /\ \A s \in Taps, c \in Blocks : s # t \/ c # b => pc'[s][c] = pc[s][c]
    BY GotoMoves, <1>1, <1>2 DEF IInv
  <1>6. "three" \in Blocks /\ "notify" \in Blocks /\ \A c \in Pair : c \in Blocks
    BY DEF Blocks
  <1>7. Enqueued'
    <2>. SUFFICES ASSUME NEW s \in Taps, NEW c \in Blocks, pc'[s][c] = "queued"
         PROVE  \E i \in 1 .. Len(queue') : queue'[i] = <<s, c>>
      BY DEF Enqueued
    <2>1. (s # t \/ c # b) /\ pc[s][c] = "queued"
      BY <1>4, <1>5
    <2>2. PICK i \in 1 .. Len(queue) : queue[i] = <<s, c>>
      BY <2>1 DEF RunInv, Enqueued
    <2>3. i # 1
      BY <1>2, <2>1, <2>2
    <2>4. i - 1 \in 1 .. Len(queue') /\ queue'[i - 1] = queue[i]
      BY <1>1, <1>3, <2>3
    <2>. QED
      BY <2>2, <2>4
  <1>8. MainBusy'
    <2>1. \A s \in Taps, c \in Blocks : pc'[s][c] = "main" => pc[s][c] = "main"
      BY <1>4, <1>5
    <2>. QED
      BY <1>1, <2>1 DEF RunInv, MainBusy
  <1>9. OnTheWay'
    BY <1>1, <1>4, <1>5 DEF RunInv, OnTheWay
  <1>10. ASSUME NEW s \in Taps, s <= taps
         PROVE  /\ (\A c \in Pair : Ended(s, c)') => pc'[s]["notify"] # "registered"
                /\ pc'[s]["notify"] = "done" /\ ~ThreeSent(s)' => sem'[s] > 0
    <2>1. \A c \in Pair : Ended(s, c)' => Ended(s, c)
      BY <1>4, <1>5, <1>6 DEF Ended
    <2>2. /\ pc'[s]["notify"] = "registered" => pc[s]["notify"] = "registered"
          /\ pc'[s]["notify"] = "done" => pc[s]["notify"] = "done"
      BY <1>4, <1>5, <1>6
    <2>3. ~ThreeSent(s)' => ~ThreeSent(s)
      BY <1>2, <1>4, <1>5, <1>6 DEF ThreeSent
    <2>. QED
      BY WakeupKept, <1>1, <1>10, <2>1, <2>2, <2>3
  <1>. QED
    BY <1>1, <1>7, <1>8, <1>9, <1>10 DEF RunInv, NoLostWakeup, Ended, ThreeSent

LEMMA LeaveRun ==
  ASSUME IInv, RunInv, NEW t \in Taps, NEW b \in Pair, MainLeave(t, b)
  PROVE  RunInv'
  <1>1. b \in Blocks /\ b # "three" /\ b # "notify" /\ "three" \in Blocks /\ "notify" \in Blocks
        /\ (\A c \in Pair : c \in Blocks /\ c # "notify") /\ {"main", "queued"} \subseteq Labels
    BY DEF Blocks, Labels, Pair
  <1>2. /\ main = Idle /\ main' = <<t, b>> /\ pc[t][b] = "sync" /\ UNCHANGED <<taps, sem>>
        /\ \/ /\ count'[t] = 0
              /\ pc' = [pc EXCEPT ![t][b] = "main", ![t]["notify"] = "queued"]
              /\ queue' = Append(queue, <<t, "notify">>)
           \/ count'[t] # 0 /\ Goto(t, b, "main") /\ UNCHANGED queue
    BY DEF MainLeave
  <1>3. pc \in [Taps -> [Blocks -> Labels]] /\ queue \in Seq(Taps \X Blocks)
    BY DEF IInv, TypeOK
  <1>4. /\ pc'[t][b] = "main"
        /\ \A s \in Taps, c \in Blocks : (s # t \/ c \notin {b, "notify"}) => pc'[s][c] = pc[s][c]
        /\ \A s \in Taps : s # t => pc'[s]["notify"] = pc[s]["notify"]
        /\ pc'[t]["notify"] = IF count'[t] = 0 THEN "queued" ELSE pc[t]["notify"]
    <2>1. CASE count'[t] = 0
      <3>1. pc' = [pc EXCEPT ![t][b] = "main", ![t]["notify"] = "queued"]
        BY <1>2, <2>1
      <3>. QED
        BY <1>1, <1>3, <2>1, <3>1, TwoMoves
    <2>2. CASE count'[t] # 0
      <3>1. Goto(t, b, "main")
        BY <1>2, <2>2
      <3>. QED
        BY <1>1, <2>2, <3>1, GotoMoves DEF IInv
    <2>. QED
      BY <2>1, <2>2
  <1>5. Enqueued'
    <2>. SUFFICES ASSUME NEW s \in Taps, NEW c \in Blocks, pc'[s][c] = "queued"
         PROVE  \E i \in 1 .. Len(queue') : queue'[i] = <<s, c>>
      BY DEF Enqueued
    <2>1. /\ Len(queue) \in Nat
          /\ count'[t] = 0 => Len(queue') = Len(queue) + 1 /\ queue'[Len(queue) + 1] = <<t, "notify">>
          /\ \A i \in 1 .. Len(queue) : i \in 1 .. Len(queue') /\ queue'[i] = queue[i]
      <3>1. CASE count'[t] = 0
        <4>1. queue' = Append(queue, <<t, "notify">>) /\ <<t, "notify">> \in Taps \X Blocks
          BY <1>1, <1>2, <3>1
        <4>2. /\ Len(queue) \in Nat /\ Len(queue') = Len(queue) + 1
              /\ queue'[Len(queue) + 1] = <<t, "notify">>
              /\ \A i \in 1 .. Len(queue) : queue'[i] = queue[i]
          BY ONLY <1>3, <4>1
        <4>. QED
          BY ONLY <4>2
      <3>2. CASE count'[t] # 0
        BY <1>2, <1>3, <3>2
      <3>. QED
        BY <3>1, <3>2
    <2>2. CASE s = t /\ c = "notify" /\ count'[t] = 0
      BY <2>1, <2>2
    <2>3. CASE ~(s = t /\ c = "notify" /\ count'[t] = 0)
      <3>1. pc[s][c] = "queued"
        BY <1>1, <1>4, <2>3
      <3>2. PICK i \in 1 .. Len(queue) : queue[i] = <<s, c>>
        BY <3>1 DEF RunInv, Enqueued
      <3>. QED
        BY <2>1, <3>2
    <2>. QED
      BY <2>2, <2>3
  <1>6. MainBusy'
    <2>1. \A s \in Taps, c \in Blocks : pc[s][c] = "main" => <<s, c>> = Idle
      BY <1>2 DEF RunInv, MainBusy
    <2>2. \A s \in Taps, c \in Blocks : pc[s][c] # "main"
      BY <2>1 DEF Idle, Taps
    <2>3. \A s \in Taps, c \in Blocks : pc'[s][c] = "main" => s = t /\ c = b
      BY <1>1, <1>4, <2>2
    <2>. QED
      BY <1>2, <2>3 DEF MainBusy
  <1>7. OnTheWay'
    <2>1. "main" \in Course(b) /\ "queued" \in Course("notify")
      BY CourseOf
    <2>2. \A s \in Taps, c \in Blocks : pc'[s][c] = pc[s][c] \/ pc'[s][c] \in Course(c)
      BY <1>1, <1>4, <2>1
    <2>. QED
      BY <1>2, <2>2 DEF RunInv, OnTheWay
  <1>8. ASSUME NEW s \in Taps, s <= taps
        PROVE  /\ (\A c \in Pair : Ended(s, c)') => pc'[s]["notify"] # "registered"
               /\ pc'[s]["notify"] = "done" /\ ~ThreeSent(s)' => sem'[s] > 0
    <2>1. CASE s # t
      <3>1. \A c \in Pair : Ended(s, c)' => Ended(s, c)
        BY <1>1, <1>4, <2>1 DEF Ended
      <3>2. pc'[s]["notify"] = pc[s]["notify"] /\ pc'[s]["three"] = pc[s]["three"]
        BY <1>1, <1>4, <2>1
      <3>. QED
        BY WakeupKept, <1>2, <1>8, <3>1, <3>2 DEF ThreeSent
    <2>2. CASE s = t
      <3>1. IInv' /\ taps' = taps
        BY LeaveStep, <1>2
      <3>2. count'[t] = (IF Ended(t, "one")' THEN 0 ELSE 1) + (IF Ended(t, "two")' THEN 0 ELSE 1)
        BY <1>8, <2>2, <3>1 DEF IInv, GroupInv, Ended
      <3>3. (\A c \in Pair : Ended(t, c)') => pc'[t]["notify"] = "queued"
        BY <1>4, <3>2 DEF Pair
      <3>4. ~Ended(t, b)
        BY <1>2 DEF Ended
      <3>5. pc[t]["notify"] # "done" /\ pc'[t]["notify"] # "done"
        BY <1>4, <3>4 DEF IInv, ChainInv
      <3>. QED
        BY <2>2, <3>3, <3>5
    <2>. QED
      BY <2>1, <2>2
  <1>. QED
    BY <1>2, <1>5, <1>6, <1>7, <1>8 DEF RunInv, NoLostWakeup, Ended, ThreeSent

LEMMA TapRun ==
  ASSUME IInv, RunInv, Tap
  PROVE  RunInv'
  <1>0. taps + 1 \in Taps
    BY BoundsAssumption DEF IInv, TypeOK, Tap, Taps
  <1>. PICK t \in Taps : t = taps + 1
    BY <1>0
  <1>. DEFINE new == [b \in Blocks |-> IF b = "notify" THEN "registered" ELSE "queued"]
  <1>1. /\ taps' = t
        /\ queue' = queue \o << <<t, "one">>, <<t, "three">>, <<t, "two">> >>
        /\ pc' = [pc EXCEPT ![t] = new]
        /\ UNCHANGED <<sem, main>>
    BY DEF Tap
  <1>2. /\ pc \in [Taps -> [Blocks -> Labels]] /\ queue \in Seq(Taps \X Blocks)
        /\ taps \in Nat /\ t > taps
    BY BoundsAssumption DEF IInv, TypeOK
  <1>3. {"one", "two", "three", "notify"} = Blocks /\ Pair = {"one", "two"}
    BY DEF Blocks, Pair
  <1>4. \A c \in Blocks : new[c] = IF c = "notify" THEN "registered" ELSE "queued"
    OBVIOUS
  <1>. HIDE DEF new
  <1>5. pc'[t] = new /\ \A s \in Taps : s # t => pc'[s] = pc[s]
    BY <1>1, <1>2
  <1>6. Enqueued'
    <2>. SUFFICES ASSUME NEW s \in Taps, NEW c \in Blocks, pc'[s][c] = "queued"
         PROVE  \E i \in 1 .. Len(queue') : queue'[i] = <<s, c>>
      BY DEF Enqueued
    <2>1. <<t, "one">> \in Taps \X Blocks /\ <<t, "three">> \in Taps \X Blocks /\ <<t, "two">> \in Taps \X Blocks
      BY <1>3
    <2>2. /\ Len(queue') = Len(queue) + 3 /\ Len(queue) \in Nat
          /\ \A i \in 1 .. Len(queue) : queue'[i] = queue[i]
          /\ queue'[Len(queue) + 1] = <<t, "one">>
          /\ queue'[Len(queue) + 2] = <<t, "three">>
          /\ queue'[Len(queue) + 3] = <<t, "two">>
      BY <1>1, <1>2, <2>1, AppendThree
    <2>3. CASE s = t
      <3>1. c # "notify"
        BY <1>4, <1>5, <2>3
      <3>2. c = "one" \/ c = "three" \/ c = "two"
        BY <1>3, <3>1
      <3>3. {Len(queue) + 1, Len(queue) + 2, Len(queue) + 3} \subseteq 1 .. Len(queue')
        BY <2>2
      <3>. QED
        BY <2>2, <2>3, <3>2, <3>3
    <2>4. CASE s # t
      <3>1. PICK i \in 1 .. Len(queue) : queue[i] = <<s, c>>
        BY <1>5, <2>4 DEF RunInv, Enqueued
      <3>2. i \in 1 .. Len(queue') /\ queue'[i] = queue[i]
        BY <2>2
      <3>. QED
        BY <3>1, <3>2
    <2>. QED
      BY <2>3, <2>4
  <1>7. MainBusy'
    <2>1. \A s \in Taps, c \in Blocks : pc'[s][c] = "main" => pc[s][c] = "main"
      BY <1>4, <1>5
    <2>. QED
      BY <1>1, <2>1 DEF RunInv, MainBusy
  <1>8. \A s \in Taps : s <= taps' => s = t \/ (s # t /\ s <= taps)
    BY <1>1, <1>2 DEF Taps
  <1>9. OnTheWay'
    <2>1. \A c \in Blocks : pc'[t][c] \in Course(c)
      BY <1>3, <1>4, <1>5, CourseOf
    <2>. QED
      BY <1>5, <1>8, <2>1 DEF RunInv, OnTheWay
  <1>10. NoLostWakeup'
    <2>1. ~Ended(t, "one")' /\ pc'[t]["notify"] # "done"
      BY <1>3, <1>4, <1>5 DEF Ended
    <2>. QED
      BY <1>1, <1>3, <1>5, <1>8, <2>1 DEF RunInv, NoLostWakeup, Ended, ThreeSent
  <1>. QED
    BY <1>6, <1>7, <1>9, <1>10 DEF RunInv

\* A waiting block is in the queue, a signal is kept for the block it is meant
\* for, and no block is anywhere but on its course: what the queue, the group and
\* the semaphore of lines 221-268 forget nobody.
THEOREM NothingForgotten == Spec => []RunInv
  <1>1. ASSUME IInv, RunInv, [Next \/ Terminating]_vars
        PROVE  RunInv'
    <2>1. CASE Tap
      BY TapRun, <1>1, <2>1
    <2>2. CASE Start
      BY StartRun, <1>1, <2>2
    <2>3. ASSUME NEW t \in Taps, Step(t) PROVE RunInv'
      <3>1. ASSUME NEW b \in Pair \cup {"three"}, Download(t, b) PROVE RunInv'
        BY DownloadRun, <1>1, <3>1
      <3>2. ASSUME NEW b \in Pair, MainLeave(t, b) PROVE RunInv'
        BY LeaveRun, <1>1, <3>2
      <3>3. ASSUME NEW b \in Pair, MainPrint(t, b) PROVE RunInv'
        BY PrintRun, <1>1, <3>3
      <3>4. CASE ThreeWait(t)
        BY WaitRun, <1>1, <3>4
      <3>5. CASE Signal(t)
        BY SignalRun, <1>1, <3>5
      <3>6. CASE MainThree(t)
        BY ThreeShownRun, <1>1, <3>6
      <3>. QED
        BY <2>3, <3>1, <3>2, <3>3, <3>4, <3>5, <3>6 DEF Step
    <2>4. CASE UNCHANGED vars
      BY <1>1, <2>4 DEF vars, RunInv, Enqueued, MainBusy, OnTheWay, NoLostWakeup, ThreeSent, Ended
    <2>. QED
      BY <1>1, <2>1, <2>2, <2>3, <2>4 DEF Next, Terminating
  <1>. QED
    BY InitRun, <1>1, Invariance, PTL DEF Spec

-----------------------------------------------------------------------------
(* Termination.                                                              *)

LEMMA OnWorkerFinite ==
  /\ IsFiniteSet(Taps) /\ Cardinality(Taps) = MaxTaps
  /\ IsFiniteSet(Blocks) /\ Cardinality(Blocks) = 4
  /\ IsFiniteSet(OnWorker) /\ Cardinality(OnWorker) \in Nat
  <1>1. IsFiniteSet(Taps) /\ Cardinality(Taps) = MaxTaps
    <2>1. MaxTaps \in Nat
      BY BoundsAssumption
    <2>. QED
      BY <2>1, FS_Interval DEF Taps
  <1>2. IsFiniteSet(Blocks) /\ Cardinality(Blocks) = 4
    <2>1. IsFiniteSet({"one"}) /\ Cardinality({"one"}) = 1
      BY FS_Singleton
    <2>2. IsFiniteSet(Pair) /\ Cardinality(Pair) = 2
      <3>1. Pair = {"one"} \cup {"two"} /\ "two" \notin {"one"}
        BY DEF Pair
      <3>. QED
        BY <2>1, <3>1, FS_AddElement
    <2>3. IsFiniteSet(Pair \cup {"three"}) /\ Cardinality(Pair \cup {"three"}) = 3
      <3>1. "three" \notin Pair
        BY DEF Pair
      <3>. QED
        BY <2>2, <3>1, FS_AddElement
    <2>4. Blocks = (Pair \cup {"three"}) \cup {"notify"} /\ "notify" \notin Pair \cup {"three"}
      BY DEF Blocks, Pair
    <2>. QED
      BY <2>3, <2>4, FS_AddElement
  <1>3. IsFiniteSet(Taps \X Blocks)
    BY <1>1, <1>2, FS_Product
  <1>4. IsFiniteSet(OnWorker)
    BY <1>3, FS_Subset DEF OnWorker
  <1>. QED
    BY <1>1, <1>2, <1>4, FS_CardinalityType

\* A tap of which nothing is queued and nothing can go on is settled.
LEMMA IdleIsSettled ==
  ASSUME IInv, RunInv, ~CanGoOn, NEW t \in Taps, t <= taps,
         \A b \in Blocks : pc[t][b] # "queued"
  PROVE  Settled(t)
  <1>1. "three" \in Blocks /\ "notify" \in Blocks /\ \A b \in Pair : b \in Blocks
    BY DEF Blocks
  <1>2. main = Idle /\ \A b \in Pair \cup {"three"} : pc[t][b] \notin {"download", "sync"}
    BY DEF CanGoOn
  <1>3. ASSUME NEW b \in Pair
        PROVE  pc[t][b] \in {"shown", "failed"}
    <2>1. pc[t][b] \in {"queued", "download", "sync", "main", "shown", "failed"}
      BY <1>1, CourseOf DEF RunInv, OnTheWay
    <2>2. pc[t][b] # "main"
      BY <1>1, <1>2 DEF RunInv, MainBusy, Idle, Taps
    <2>. QED
      BY <1>1, <1>2, <2>1, <2>2
  <1>4. pc[t]["three"] \in {"wait", "shown", "failed"}
    <2>1. pc[t]["three"] \in {"queued", "wait", "download", "sync", "shown", "failed"}
      BY <1>1, CourseOf DEF RunInv, OnTheWay
    <2>. QED
      BY <1>1, <1>2, <2>1
  <1>5. pc[t]["three"] = "wait" => \E b \in Pair : pc[t][b] = "failed"
    <2>. SUFFICES ASSUME pc[t]["three"] = "wait", \A b \in Pair : pc[t][b] # "failed"
         PROVE  FALSE
      OBVIOUS
    <2>1. \A b \in Pair : Ended(t, b)
      BY <1>3 DEF Ended
    <2>2. pc[t]["notify"] # "registered"
      BY <2>1 DEF RunInv, NoLostWakeup
    <2>3. pc[t]["notify"] \in {"registered", "queued", "signal", "done"}
      BY <1>1, CourseOf DEF RunInv, OnTheWay
    <2>4. pc[t]["notify"] # "signal" /\ ~(sem[t] > 0)
      BY DEF CanGoOn
    <2>5. pc[t]["notify"] = "done"
      BY <1>1, <2>2, <2>3, <2>4
    <2>6. ~ThreeSent(t)
      BY DEF ThreeSent
    <2>. QED
      BY <2>4, <2>5, <2>6 DEF RunInv, NoLostWakeup
  <1>. QED
    BY <1>3, <1>4, <1>5 DEF Settled

\* What holds a worker when nothing can go on is a block of three that waits.
LEMMA OnlyThreesHold ==
  ASSUME IInv, RunInv, ~CanGoOn
  PROVE  \A tb \in OnWorker : tb[2] = "three" /\ pc[tb[1]]["three"] = "wait"
  <1>. SUFFICES ASSUME NEW t \in Taps, NEW b \in Blocks, <<t, b>> \in OnWorker
       PROVE  b = "three" /\ pc[t]["three"] = "wait"
    BY DEF OnWorker
  <1>1. pc[t][b] \in {"download", "wait", "sync", "main", "signal"}
    BY DEF OnWorker
  <1>2. t <= taps
    <2>1. taps \in Nat /\ t \in Nat
      BY BoundsAssumption DEF IInv, TypeOK, Taps
    <2>. QED
      BY <1>1, <2>1 DEF IInv, GroupInv
  <1>3. pc[t][b] \in Course(b)
    BY <1>2 DEF RunInv, OnTheWay
  <1>4. main = Idle /\ (\A c \in Pair \cup {"three"} : pc[t][c] \notin {"download", "sync"})
        /\ pc[t]["notify"] # "signal"
    BY DEF CanGoOn
  <1>5. CASE b \in Pair
    <2>1. pc[t][b] = "main"
      BY <1>1, <1>3, <1>4, <1>5, CourseOf
    <2>. QED
      BY <1>4, <2>1 DEF RunInv, MainBusy, Idle, Taps
  <1>6. CASE b = "three"
    BY <1>1, <1>3, <1>4, <1>6, CourseOf
  <1>7. CASE b = "notify"
    BY <1>1, <1>3, <1>4, <1>7, CourseOf
  <1>. QED
    BY <1>5, <1>6, <1>7 DEF Blocks

\* The only way to hang: the blocks in the semaphore.wait() of line 245 hold
\* every worker.  Whatever the number of workers and of taps, otherwise some
\* thread can go on until every tap is settled.
THEOREM OnlyWaitsHang == Spec => []StuckOnlyWaiting
  <1>1. ASSUME IInv, RunInv, ~CanGoOn, ~AllWorkersWait, NEW t \in Taps, t <= taps
        PROVE  Settled(t)
    <2>1. \A tb \in OnWorker : tb[2] = "three" /\ pc[tb[1]]["three"] = "wait"
      BY <1>1, OnlyThreesHold
    <2>2. Cardinality(OnWorker) < Workers
      BY <1>1, <2>1, OnWorkerFinite, BoundsAssumption DEF AllWorkersWait
    <2>3. queue = <<>>
      BY <1>1, <2>2 DEF CanGoOn
    <2>4. \A b \in Blocks : pc[t][b] # "queued"
      <3>1. 1 .. Len(queue) = {}
        BY <2>3
      <3>. QED
        BY <1>1, <3>1 DEF RunInv, Enqueued
    <2>. QED
      BY <1>1, <2>4, IdleIsSettled
  <1>2. IInv /\ RunInv => StuckOnlyWaiting
    BY <1>1 DEF StuckOnlyWaiting
  <1>. QED
    BY <1>2, Invariance, NothingForgotten, PTL

\* A worker more than there are taps is enough: each tap has one block that waits,
\* so one worker is left to run the others (the fairness of ThirdShown rests on
\* this: some thread can always step).
THEOREM EnoughWorkers ==
  ASSUME MaxTaps < Workers
  PROVE  Spec => []NeverStuck
  <1>1. ASSUME AllWorkersWait
        PROVE  FALSE
    <2>1. OnWorker \in SUBSET (Taps \X {"three"})
      BY <1>1 DEF AllWorkersWait, OnWorker
    <2>2. IsFiniteSet({"three"}) /\ Cardinality({"three"}) = 1
      BY FS_Singleton
    <2>3. /\ IsFiniteSet(Taps \X {"three"})
          /\ Cardinality(Taps \X {"three"}) = MaxTaps * 1
      BY <2>2, OnWorkerFinite, FS_Product
    <2>4. Cardinality(OnWorker) <= Cardinality(Taps \X {"three"})
      BY <2>1, <2>3, FS_Subset
    <2>5. Cardinality(OnWorker) >= Workers
      BY <1>1 DEF AllWorkersWait
    <2>. QED
      BY <2>3, <2>4, <2>5, OnWorkerFinite, BoundsAssumption
  <1>2. StuckOnlyWaiting => NeverStuck
    BY <1>1 DEF StuckOnlyWaiting, NeverStuck
  <1>. QED
    BY <1>2, OnlyWaitsHang, PTL

\* There are 7 pieces of work per block: 28 per tap.
LEMMA WorkFinite ==
  /\ IsFiniteSet(WorkLeft)
  /\ Cardinality(WorkLeft) \in 0 .. 28 * MaxTaps
  <1>1. IsFiniteSet(1 .. 7) /\ Cardinality(1 .. 7) = 7
    <2>1. \A b \in Nat \ {0} : IsFiniteSet(1 .. b) /\ Cardinality(1 .. b) = b
      <3>. TAKE b \in Nat \ {0}
      <3>. QED
        BY FS_Interval
    <2>2. 7 \in Nat \ {0}
      OBVIOUS
    <2>. QED
      BY <2>1, <2>2, Zenon
  <1>. DEFINE Rows == Taps \X Blocks
  <1>2. IsFiniteSet(Rows) /\ Cardinality(Rows) = MaxTaps * 4
    BY OnWorkerFinite, FS_Product
  <1>3. IsFiniteSet(Rows \X (1 .. 7)) /\ Cardinality(Rows \X (1 .. 7)) = Cardinality(Rows) * 7
    <2>. HIDE DEF Rows
    <2>. QED
      BY <1>1, <1>2, FS_Product
  <1>4. Cardinality(Rows \X (1 .. 7)) = 28 * MaxTaps
    <2>. HIDE DEF Rows
    <2>. QED
      BY <1>2, <1>3, BoundsAssumption
  <1>. DEFINE f == [w \in WorkLeft |-> << <<w[1], w[2]>>, w[3]>>]
  <1>5. f \in Injection(WorkLeft, Rows \X (1 .. 7))
    BY DEF WorkLeft, Injection, IsInjective
  <1>6. IsFiniteSet(WorkLeft) /\ Cardinality(WorkLeft) <= Cardinality(Rows \X (1 .. 7))
    <2>. HIDE DEF Rows, f
    <2>. QED
      BY <1>3, <1>5, FS_Injection
  <1>. QED
    <2>. HIDE DEF Rows
    <2>. QED
      BY <1>4, <1>6, FS_CardinalityType, BoundsAssumption

LEMMA DistanceType == \A l \in Labels : Distance[l] \in 0 .. 7
  BY DEF Distance, Labels

\* Blocks that move, each closer to its end, leave less work.
LEMMA Closer ==
  ASSUME TypeOK, pc' \in [Taps -> [Blocks -> Labels]],
         \A s \in Taps, c \in Blocks : Distance[pc'[s][c]] <= Distance[pc[s][c]],
         NEW t \in Taps, NEW b \in Blocks, Distance[pc'[t][b]] < Distance[pc[t][b]]
  PROVE  Progress
  <1>1. /\ \A s \in Taps, c \in Blocks : /\ Distance[pc[s][c]] \in 0 .. 7
                                        /\ Distance[pc'[s][c]] \in 0 .. 7
    BY DistanceType DEF TypeOK
  <1>. DEFINE w == <<t, b, Distance[pc[t][b]]>>
  <1>2. w \in WorkLeft /\ w \notin WorkLeft'
    BY <1>1 DEF WorkLeft
  <1>3. WorkLeft' \subseteq WorkLeft
    BY <1>1 DEF WorkLeft
  <1>4. WorkLeft' \in SUBSET WorkLeft /\ WorkLeft' # WorkLeft
    BY <1>2, <1>3
  <1>5. /\ IsFiniteSet(WorkLeft')
        /\ Cardinality(WorkLeft') <= Cardinality(WorkLeft)
        /\ Cardinality(WorkLeft) # Cardinality(WorkLeft')
    BY <1>4, WorkFinite, FS_Subset
  <1>6. Cardinality(WorkLeft) \in Nat /\ Cardinality(WorkLeft') \in Nat
    BY <1>5, WorkFinite, FS_CardinalityType
  <1>. QED
    BY <1>5, <1>6 DEF Progress

\* One block that moves closer to its end, while the others stay.
LEMMA MoveCloser ==
  ASSUME TypeOK, NEW t \in Taps, NEW b \in Blocks, NEW label \in Labels, Goto(t, b, label),
         Distance[label] < Distance[pc[t][b]]
  PROVE  Progress
  <1>1. /\ pc'[t][b] = label /\ pc' \in [Taps -> [Blocks -> Labels]]
        /\ \A s \in Taps, c \in Blocks : s # t \/ c # b => pc'[s][c] = pc[s][c]
    BY GotoMoves
  <1>2. \A s \in Taps, c \in Blocks : Distance[pc[s][c]] \in 0 .. 7
    BY DistanceType DEF TypeOK
  <1>3. Distance[label] \in 0 .. 7
    BY DistanceType
  <1>4. \A s \in Taps, c \in Blocks : Distance[pc'[s][c]] <= Distance[pc[s][c]]
    BY <1>1, <1>2, <1>3
  <1>. QED
    BY <1>1, <1>4, Closer

\* Every step of the button, the queue, the workers and the main thread uses up
\* a piece of work and creates none.
LEMMA StepProgresses ==
  ASSUME IInv, RunInv, Next
  PROVE  Progress
  <1>0. /\ TypeOK /\ pc \in [Taps -> [Blocks -> Labels]]
        /\ "three" \in Blocks /\ "notify" \in Blocks /\ "one" \in Blocks
        /\ \A b \in Pair : b \in Blocks /\ b # "notify"
    BY DEF IInv, TypeOK, Blocks, Pair
  <1>1. CASE Tap
    <2>1. taps + 1 \in Taps /\ taps \in Nat
      BY <1>1, BoundsAssumption DEF IInv, TypeOK, Tap, Taps
    <2>. PICK t \in Taps : t = taps + 1
      BY <2>1
    <2>. DEFINE new == [b \in Blocks |-> IF b = "notify" THEN "registered" ELSE "queued"]
    <2>2. pc' = [pc EXCEPT ![t] = new]
      BY <1>1 DEF Tap
    <2>3. new \in [Blocks -> Labels] /\ \A b \in Blocks : new[b] \in {"registered", "queued"}
      BY DEF Labels
    <2>. HIDE DEF new
    <2>4. /\ pc' \in [Taps -> [Blocks -> Labels]] /\ pc'[t] = new
          /\ \A s \in Taps : s # t => pc'[s] = pc[s]
      BY <1>0, <2>2, <2>3
    <2>5. \A b \in Blocks : pc[t][b] = "none"
      BY <2>1 DEF IInv, GroupInv
    <2>6. \A b \in Blocks : Distance[pc'[t][b]] < Distance[pc[t][b]] /\ Distance[pc[t][b]] = 7
      BY <2>3, <2>4, <2>5 DEF Distance
    <2>7. \A s \in Taps, b \in Blocks : Distance[pc[s][b]] \in 0 .. 7 /\ Distance[pc'[s][b]] \in 0 .. 7
      BY <1>0, <2>4, DistanceType
    <2>8. \A s \in Taps, b \in Blocks : Distance[pc'[s][b]] <= Distance[pc[s][b]]
      BY <2>4, <2>6, <2>7
    <2>. QED
      BY <1>0, <2>4, <2>6, <2>8, Closer
  <1>2. CASE Start
    <2>. DEFINE t == Head(queue)[1]
                b == Head(queue)[2]
    <2>1. Goto(t, b, First(b)) /\ t \in Taps /\ b \in Blocks /\ pc[t][b] = "queued"
      BY <1>2, HeadQueued DEF Start
    <2>. HIDE DEF t, b
    <2>2. First(b) \in {"download", "wait", "signal"} /\ First(b) \in Labels
      BY <2>1 DEF First, Blocks, Pair, Labels
    <2>3. Distance[First(b)] < Distance[pc[t][b]]
      BY <2>1, <2>2 DEF Distance
    <2>. QED
      BY <1>0, <2>1, <2>2, <2>3, MoveCloser
  <1>3. ASSUME NEW t \in Taps, Step(t)
        PROVE  Progress
    <2>1. ASSUME NEW b \in Pair \cup {"three"}, Download(t, b) PROVE Progress
      <3>1. b \in Blocks /\ pc[t][b] = "download"
        BY <1>0, <2>1 DEF Download, DownloadOk, DownloadFails
      <3>2. PICK label \in {"sync", "failed"} : Goto(t, b, label)
        BY <2>1 DEF Download, DownloadOk, DownloadFails
      <3>3. label \in Labels /\ Distance[label] < Distance[pc[t][b]]
        BY <3>1, <3>2 DEF Labels, Distance
      <3>. QED
        BY <1>0, <3>1, <3>2, <3>3, MoveCloser
    <2>2. ASSUME NEW b \in Pair, MainLeave(t, b) PROVE Progress
      <3>1. b \in Blocks /\ b # "notify" /\ "main" \in Labels /\ "queued" \in Labels
        BY <1>0 DEF Labels
      <3>2. /\ pc[t][b] = "sync"
            /\ \/ count'[t] = 0 /\ pc' = [pc EXCEPT ![t][b] = "main", ![t]["notify"] = "queued"]
               \/ Goto(t, b, "main")
        BY <2>2 DEF MainLeave
      <3>3. CASE Goto(t, b, "main")
        <4>1. Distance["main"] < Distance[pc[t][b]]
          BY <3>2 DEF Distance
        <4>. QED
          BY <1>0, <3>1, <3>3, <4>1, MoveCloser
      <3>4. CASE pc' = [pc EXCEPT ![t][b] = "main", ![t]["notify"] = "queued"]
        <4>1. /\ pc' \in [Taps -> [Blocks -> Labels]]
              /\ pc'[t][b] = "main" /\ pc'[t]["notify"] = "queued"
              /\ \A s \in Taps, d \in Blocks : s # t \/ d \notin {b, "notify"} => pc'[s][d] = pc[s][d]
          BY <1>0, <3>1, <3>4, TwoMoves
        <4>2. ~Ended(t, b)
          BY <3>2 DEF Ended
        <4>3. t <= taps
          <5>1. taps \in Nat /\ t \in Nat
            BY BoundsAssumption DEF IInv, TypeOK, Taps
          <5>. QED
            BY <3>1, <3>2, <5>1 DEF IInv, GroupInv
        <4>4. pc[t]["notify"] = "registered"
          <5>1. pc[t]["notify"] \in Course("notify")
            BY <1>0, <4>3 DEF RunInv, OnTheWay
          <5>2. pc[t]["notify"] \notin {"queued", "signal", "done"}
            BY <4>2 DEF IInv, ChainInv
          <5>. QED
            BY <5>1, <5>2, CourseOf
        <4>5. /\ Distance["main"] < Distance[pc[t][b]]
              /\ Distance["queued"] <= Distance[pc[t]["notify"]]
          BY <3>2, <4>4 DEF Distance
        <4>6. \A s \in Taps, d \in Blocks : Distance[pc[s][d]] \in 0 .. 7
          BY <1>0, DistanceType
        <4>7. \A s \in Taps, d \in Blocks : Distance[pc'[s][d]] <= Distance[pc[s][d]]
          <5>. SUFFICES ASSUME NEW s \in Taps, NEW d \in Blocks
               PROVE  Distance[pc'[s][d]] <= Distance[pc[s][d]]
            OBVIOUS
          <5>0. Distance["main"] = 1 /\ Distance["queued"] = 5
            BY DEF Distance
          <5>1. CASE s = t /\ d = b
            <6>1. pc'[s][d] = "main" /\ Distance["main"] < Distance[pc[s][d]] /\ Distance[pc[s][d]] \in 0 .. 7
              BY <4>1, <4>5, <4>6, <5>1
            <6>. QED
              BY <5>0, <6>1
          <5>2. CASE s = t /\ d = "notify"
            BY <4>1, <4>5, <5>2
          <5>3. CASE s # t \/ d \notin {b, "notify"}
            BY <4>1, <4>6, <5>3
          <5>. QED
            BY <5>1, <5>2, <5>3
        <4>. QED
          BY <1>0, <3>1, <4>1, <4>5, <4>7, Closer
      <3>. QED
        BY <3>2, <3>3, <3>4
    <2>3. ASSUME NEW b \in Pair, MainPrint(t, b) PROVE Progress
      <3>1. b \in Blocks /\ "shown" \in Labels /\ main = <<t, b>> /\ Goto(t, b, "shown")
        BY <1>0, <2>3 DEF MainPrint, Labels
      <3>2. pc[t][b] = "main"
        <4>1. main # Idle
          BY <3>1 DEF Idle, Taps
        <4>. QED
          BY <3>1, <4>1 DEF IInv, GroupInv
      <3>3. Distance["shown"] < Distance[pc[t][b]]
        BY <3>2 DEF Distance
      <3>. QED
        BY <1>0, <3>1, <3>3, MoveCloser
    <2>4. CASE ThreeWait(t)
      <3>1. /\ "download" \in Labels /\ Goto(t, "three", "download")
            /\ Distance["download"] < Distance[pc[t]["three"]]
        BY <2>4 DEF ThreeWait, Labels, Distance
      <3>. QED
        BY <1>0, <3>1, MoveCloser
    <2>5. CASE Signal(t)
      <3>1. /\ "done" \in Labels /\ Goto(t, "notify", "done")
            /\ Distance["done"] < Distance[pc[t]["notify"]]
        BY <2>5 DEF Signal, Labels, Distance
      <3>. QED
        BY <1>0, <3>1, MoveCloser
    <2>6. CASE MainThree(t)
      <3>1. /\ "shown" \in Labels /\ Goto(t, "three", "shown")
            /\ Distance["shown"] < Distance[pc[t]["three"]]
        BY <2>6 DEF MainThree, Labels, Distance
      <3>. QED
        BY <1>0, <3>1, MoveCloser
    <2>. QED
      BY <1>3, <2>1, <2>2, <2>3, <2>4, <2>5, <2>6 DEF Step
  <1>. QED
    BY <1>1, <1>2, <1>3 DEF Next

\* No block goes back and no step is idle: MaxTaps taps take at most 28 * MaxTaps
\* steps.  With EnoughWorkers, the app can only stop when every tap is settled.
THEOREM TapsProgress ==
    Spec => EveryStepProgresses /\ [](Cardinality(WorkLeft) \in 0 .. 28 * MaxTaps)
  <1>1. IInv /\ RunInv /\ [Next \/ Terminating]_vars => [Progress]_vars
    BY StepProgresses DEF Terminating
  <1>2. Spec => EveryStepProgresses
    BY <1>1, Invariance, NothingForgotten, PTL DEF Spec, EveryStepProgresses
  <1>3. Cardinality(WorkLeft) \in 0 .. 28 * MaxTaps
    BY WorkFinite
  <1>. QED
    BY <1>2, <1>3, PTL
=============================================================================
