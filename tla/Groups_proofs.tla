---------------------------- MODULE Groups_proofs ----------------------------
(***************************************************************************)
(* Theorems about the two buttons of DispatchGroupVC that wait for a       *)
(* group and no more: common, for any number of tasks, and commonRequest,  *)
(* for any images and any number of taps.                                  *)
(***************************************************************************)
EXTENDS GroupCommon, GroupRequest, FiniteSetTheorems, TLAPS

-----------------------------------------------------------------------------
(* Termination, as two facts about single steps: common.                   *)

\* Until the results are merged, the main thread can enter, submit or register,
\* or a worker has a block or the notify block to run: a registered notify block
\* is never left without somebody whose leave will submit it.
NeverStuck ==
    \/ notify = "merged"
    \/ entered > 0 /\ block[entered] = "none"
    \/ notify = "none" /\ (entered > 0 => block[entered] # "none")
    \/ \E i \in Tasks : block[i] = "submitted"
    \/ notify = "submitted"

\* What is left to do: enters, submissions, leaves and steps of the notify block.
NotifyDistance == [none |-> 3, registered |-> 2, submitted |-> 1, merged |-> 0]
WorkLeft ==
    {w \in {"enter", "async", "leave"} \X Tasks :
        \/ w[1] = "enter" /\ w[2] > entered
        \/ w[1] = "async" /\ block[w[2]] = "none"
        \/ w[1] = "leave" /\ block[w[2]] # "left"}
    \cup {w \in {"notify"} \X (1 .. 3) : w[2] <= NotifyDistance[notify]}

\* Every step does a piece of work that was left and adds none.
Progress == Cardinality(WorkLeft') < Cardinality(WorkLeft)
EveryStepProgresses == [][Progress]_vars

-----------------------------------------------------------------------------
(* Termination, as two facts about single steps: commonRequest.            *)

\* A tap that was made and whose images are not shown has a request to send or to
\* be answered, or its notify block has been submitted: it waits for no other tap.
TapNeverStuck ==
    \A t \in Taps : t <= taps =>
        \/ notices[t] \in {"submitted", "sync", "done"}
        \/ \E r \in Images : request[t][r] \in {"queued", "sent"}

\* What is left to do for a tap: steps of its requests and of its notify block.
RequestDistance == [none |-> 3, queued |-> 2, sent |-> 1, answered |-> 0]
NoticeDistance == [none |-> 4, registered |-> 3, submitted |-> 2, sync |-> 1, done |-> 0]
TapWork(t) ==
    {w \in {"request"} \X Images \X (1 .. 3) : w[3] <= RequestDistance[request[t][w[2]]]}
    \cup {w \in {"notify"} \X {t} \X (1 .. 4) : w[3] <= NoticeDistance[notices[t]]}

\* Every step does a piece of one tap's work and adds none to any.
TapProgress ==
    /\ \A t \in Taps : TapWork(t)' \subseteq TapWork(t)
    /\ \E t \in Taps : Cardinality(TapWork(t)') < Cardinality(TapWork(t))
EveryTapProgresses == [][TapProgress]_requestVars

-----------------------------------------------------------------------------
(* common.                                                                 *)

\* The tasks the group waits for are finitely many.
LEMMA OutstandingFinite ==
  ASSUME TypeOK
  PROVE  /\ IsFiniteSet(Outstanding)
         /\ Cardinality(Outstanding) \in Nat
         /\ Cardinality(Outstanding) = 0 <=> Outstanding = {}
  <1>1. entered \in Nat
    BY CountAssumption DEF TypeOK
  <1>2. IsFiniteSet(1 .. entered)
    BY <1>1, FS_Interval
  <1>3. IsFiniteSet(Outstanding)
    BY <1>2, FS_Subset DEF Outstanding
  <1>. QED
    BY <1>3, FS_CardinalityType, FS_EmptySet

\* Enter adds the task entered to those the group waits for, Leave takes out
\* the task that leaves, and no other step changes them.
LEMMA OutstandingStep ==
  ASSUME IInv, [Next \/ Terminating]_vars
  PROVE  /\ Enter => /\ entered + 1 \notin Outstanding
                     /\ Outstanding' = Outstanding \cup {entered + 1}
         /\ \A i \in Tasks : Leave(i) => /\ i \in Outstanding
                                         /\ Outstanding' = Outstanding \ {i}
         /\ ~Enter /\ (\A i \in Tasks : ~Leave(i)) => Outstanding' = Outstanding
  <1>. USE CountAssumption DEF IInv, TypeOK, Outstanding, Tasks
  <1>1. ASSUME Enter
        PROVE  /\ entered + 1 \notin Outstanding
               /\ Outstanding' = Outstanding \cup {entered + 1}
    <2>1. entered + 1 \in Tasks /\ block[entered + 1] = "none"
      BY <1>1 DEF Enter
    <2>2. 1 .. (entered + 1) = (1 .. entered) \cup {entered + 1}
      OBVIOUS
    <2>. QED
      BY <1>1, <2>1, <2>2 DEF Enter
  <1>2. ASSUME NEW i \in Tasks, Leave(i)
        PROVE  i \in Outstanding /\ Outstanding' = Outstanding \ {i}
    BY <1>2 DEF Leave
  <1>3. ASSUME ~Enter, \A i \in Tasks : ~Leave(i)
        PROVE  Outstanding' = Outstanding
    BY <1>3 DEF Next, Async, Notify, Merge, Terminating, vars
  <1>. QED
    BY <1>1, <1>2, <1>3

LEMMA StepInv ==
  ASSUME IInv, [Next \/ Terminating]_vars
  PROVE  IInv'
  <1>. USE CountAssumption DEF IInv, TypeOK, Tasks
  <1>. Cardinality(Outstanding) \in Nat /\ IsFiniteSet(Outstanding)
    BY OutstandingFinite
  <1>1. CASE Enter
    <2>1. Outstanding' = Outstanding \cup {entered + 1} /\ entered + 1 \notin Outstanding
      BY <1>1, OutstandingStep
    <2>2. count' = Cardinality(Outstanding')
      BY <1>1, <2>1, FS_AddElement DEF Enter
    <2>3. notify = "none"
      BY <1>1 DEF Enter
    <2>. QED
      BY <1>1, <2>2, <2>3 DEF Enter
  <1>2. CASE Async
    <2>1. Outstanding' = Outstanding
      BY <1>2 DEF Async, Outstanding
    <2>. QED
      BY <1>2, <2>1 DEF Async
  <1>3. CASE Notify
    <2>1. Outstanding' = Outstanding
      BY <1>3 DEF Notify, Outstanding
    <2>2. count = 0 <=> Outstanding = {}
      BY OutstandingFinite
    <2>. QED
      BY <1>3, <2>1, <2>2 DEF Notify
  <1>4. ASSUME NEW i \in Tasks, Leave(i)
        PROVE  IInv'
    <2>1. Outstanding' = Outstanding \ {i} /\ i \in Outstanding
      BY <1>4, OutstandingStep
    <2>2. count' = Cardinality(Outstanding') /\ IsFiniteSet(Outstanding')
      BY <1>4, <2>1, FS_RemoveElement DEF Leave
    <2>3. count' \in Nat /\ (count' = 0 => Outstanding' = {})
      BY <2>2, FS_CardinalityType, FS_EmptySet
    <2>4. notify' \in {"submitted", "merged"} => Outstanding' = {}
      BY <1>4, <2>1, <2>3 DEF Leave
    <2>5. notify' = "registered" => Outstanding' # {}
      BY <1>4, <2>2, FS_EmptySet DEF Leave
    <2>. QED
      BY <1>4, <2>2, <2>3, <2>4, <2>5 DEF Leave
  <1>5. CASE Merge
    <2>1. Outstanding' = Outstanding
      BY <1>5 DEF Merge, Outstanding
    <2>. QED
      BY <1>5, <2>1 DEF Merge
  <1>6. CASE Terminating \/ UNCHANGED vars
    <2>1. Outstanding' = Outstanding
      BY <1>6 DEF Terminating, vars, Outstanding
    <2>. QED
      BY <1>6, <2>1 DEF Terminating, vars
  <1>. QED
    BY <1>1, <1>2, <1>3, <1>4, <1>5, <1>6 DEF Next

LEMMA InitIInv == Init => IInv
  <1>. SUFFICES ASSUME Init PROVE IInv
    OBVIOUS
  <1>1. Outstanding = {}
    BY DEF Init, Outstanding
  <1>. QED
    BY <1>1, FS_EmptySet, CountAssumption DEF Init, IInv, TypeOK, Tasks

\* The notify block of DispatchGroupVC.common merges only when every task has
\* left the group, for any number of tasks and any interleaving of the workers
\* with the main thread that is still entering.
THEOREM MergesAfterAll == Spec => []MergeAfterAll
  <1>1. IInv => MergeAfterAll
    BY DEF IInv, MergeAfterAll, Outstanding, Tasks
  <1>2. IInv /\ [Next \/ Terminating]_vars => IInv'
    BY StepInv
  <1>. QED
    BY InitIInv, <1>1, <1>2, PTL DEF Spec

\* The inductive invariant of common: the group counts the tasks that have been
\* entered and have not left, and the notify block is where that count puts it.
LEMMA CommonInvariance == Spec => []IInv
  <1>1. IInv /\ [Next \/ Terminating]_vars => IInv'
    BY StepInv
  <1>. QED
    BY InitIInv, <1>1, PTL DEF Spec

\* Until the results are merged some thread can go on (lines 57-92): the leave
\* that empties the group finds the notify block, or registering it finds the
\* group empty, and neither misses the other.
THEOREM CommonNeverStuck == Spec => []NeverStuck
  <1>1. ASSUME IInv
        PROVE  NeverStuck
    <2>1. CASE notify = "registered"
      <3>1. PICK i \in 1 .. entered : block[i] # "left"
        BY <1>1, <2>1 DEF IInv, Outstanding
      <3>2. i \in Tasks /\ block[i] \in {"none", "submitted"}
        BY <1>1, <3>1, CountAssumption DEF IInv, TypeOK, Tasks
      <3>3. CASE block[i] = "submitted"
        BY <3>2, <3>3 DEF NeverStuck
      <3>4. CASE block[i] = "none"
        <4>1. i = entered /\ entered > 0
          BY <1>1, <3>1, <3>2, <3>4, CountAssumption DEF IInv, TypeOK
        <4>. QED
          BY <3>4, <4>1 DEF NeverStuck
      <3>. QED
        BY <3>2, <3>3, <3>4
    <2>2. CASE notify # "registered"
      BY <1>1, <2>2 DEF IInv, TypeOK, NeverStuck
    <2>. QED
      BY <2>1, <2>2
  <1>. QED
    BY <1>1, CommonInvariance, PTL

\* A finite set that loses an element and gains none is smaller.
LEMMA Smaller ==
  ASSUME NEW S, IsFiniteSet(S), NEW T, T \subseteq S, NEW x \in S, x \notin T
  PROVE  IsFiniteSet(T) /\ Cardinality(T) < Cardinality(S)
  <1>1. T \in SUBSET S /\ T # S
    OBVIOUS
  <1>2. IsFiniteSet(T) /\ Cardinality(T) <= Cardinality(S) /\ Cardinality(S) # Cardinality(T)
    BY <1>1, FS_Subset
  <1>3. Cardinality(T) \in Nat /\ Cardinality(S) \in Nat
    BY <1>2, FS_CardinalityType
  <1>. QED
    BY <1>2, <1>3

\* The intervals the measures count with.
LEMMA SmallIntervals == IsFiniteSet(1 .. 3) /\ IsFiniteSet(1 .. 4)
  <1>1. \A b \in Nat : IsFiniteSet(1 .. b)
    BY FS_Interval
  <1>2. 3 \in Nat /\ 4 \in Nat
    OBVIOUS
  <1>. QED
    BY <1>1, <1>2, Zenon

LEMMA WorkFinite == IsFiniteSet(WorkLeft)
  <1>. DEFINE kinds == {"enter", "async", "leave"}
              tasks == {w \in kinds \X Tasks :
                          \/ w[1] = "enter" /\ w[2] > entered
                          \/ w[1] = "async" /\ block[w[2]] = "none"
                          \/ w[1] = "leave" /\ block[w[2]] # "left"}
              notice == {w \in {"notify"} \X (1 .. 3) : w[2] <= NotifyDistance[notify]}
  <1>1. IsFiniteSet(Tasks)
    BY CountAssumption, FS_Interval DEF Tasks
  <1>2. IsFiniteSet(kinds)
    <2>1. IsFiniteSet({"enter"})
      BY FS_Singleton
    <2>2. IsFiniteSet({"enter"} \cup {"async"})
      BY <2>1, FS_AddElement
    <2>3. IsFiniteSet(({"enter"} \cup {"async"}) \cup {"leave"})
      BY <2>2, FS_AddElement
    <2>4. kinds = ({"enter"} \cup {"async"}) \cup {"leave"}
      OBVIOUS
    <2>. QED
      BY <2>3, <2>4
  <1>3. IsFiniteSet(kinds \X Tasks)
    <2>. HIDE DEF kinds
    <2>. QED
      BY <1>1, <1>2, FS_Product
  <1>4. IsFiniteSet(tasks)
    BY <1>3, FS_Subset
  <1>5. IsFiniteSet({"notify"} \X (1 .. 3))
    <2>1. IsFiniteSet({"notify"})
      BY FS_Singleton
    <2>. QED
      BY <2>1, SmallIntervals, FS_Product
  <1>6. IsFiniteSet(notice)
    BY <1>5, FS_Subset
  <1>7. WorkLeft = tasks \cup notice
    BY DEF WorkLeft
  <1>. QED
    <2>. HIDE DEF tasks, notice
    <2>. QED
      BY <1>4, <1>6, <1>7, FS_Union

\* Each step of common uses up a piece of work.
LEMMA CommonStepProgresses ==
  ASSUME IInv, Next
  PROVE  Progress
  <1>. USE DEF IInv, TypeOK
  <1>1. ASSUME NEW w \in WorkLeft, w \notin WorkLeft', WorkLeft' \subseteq WorkLeft
        PROVE  Progress
    BY <1>1, WorkFinite, Smaller DEF Progress
  <1>2. CASE Enter
    <2>. DEFINE w == <<"enter", entered + 1>>
    <2>1. w \in WorkLeft /\ w \notin WorkLeft'
      BY <1>2, CountAssumption DEF Enter, WorkLeft, Tasks
    <2>2. WorkLeft' \subseteq WorkLeft
      BY <1>2, CountAssumption DEF Enter, WorkLeft, Tasks
    <2>. QED
      BY <1>1, <2>1, <2>2
  <1>3. CASE Async
    <2>. DEFINE w == <<"async", entered>>
    <2>1. entered \in Tasks
      BY <1>3, CountAssumption DEF Async, Tasks
    <2>2. w \in WorkLeft /\ w \notin WorkLeft'
      BY <1>3, <2>1 DEF Async, WorkLeft
    <2>3. WorkLeft' \subseteq WorkLeft
      BY <1>3, <2>1 DEF Async, WorkLeft
    <2>. QED
      BY <1>1, <2>2, <2>3
  <1>4. CASE Notify \/ Merge
    <2>. DEFINE w == <<"notify", NotifyDistance[notify]>>
    <2>1. /\ NotifyDistance[notify] \in 1 .. 3
          /\ NotifyDistance[notify'] \in 0 .. 2
          /\ NotifyDistance[notify'] < NotifyDistance[notify]
          /\ UNCHANGED <<entered, block>>
      BY <1>4 DEF Notify, Merge, NotifyDistance
    <2>2. w \in WorkLeft /\ w \notin WorkLeft'
      BY <2>1 DEF WorkLeft
    <2>3. WorkLeft' \subseteq WorkLeft
      BY <2>1 DEF WorkLeft
    <2>. QED
      BY <1>1, <2>2, <2>3
  <1>5. ASSUME NEW i \in Tasks, Leave(i)
        PROVE  Progress
    <2>. DEFINE w == <<"leave", i>>
    <2>1. /\ NotifyDistance[notify] \in 0 .. 3
          /\ NotifyDistance[notify'] \in 0 .. 3
          /\ NotifyDistance[notify'] <= NotifyDistance[notify]
      BY <1>5 DEF Leave, NotifyDistance
    <2>2. block[i] = "submitted" /\ block' = [block EXCEPT ![i] = "left"] /\ entered' = entered
      BY <1>5 DEF Leave
    <2>3. w \in WorkLeft /\ w \notin WorkLeft'
      BY <2>2 DEF WorkLeft
    <2>4. WorkLeft' \subseteq WorkLeft
      BY <2>1, <2>2 DEF WorkLeft
    <2>. QED
      BY <1>1, <2>3, <2>4
  <1>. QED
    BY <1>2, <1>3, <1>4, <1>5 DEF Next

\* Every step of common does a piece of the finitely many that were left to do;
\* with CommonNeverStuck it can only stop when the results have been merged.
THEOREM CommonProgress == Spec => EveryStepProgresses /\ []IsFiniteSet(WorkLeft)
  <1>1. IInv /\ [Next \/ Terminating]_vars => [Progress]_vars
    BY CommonStepProgresses DEF Terminating
  <1>2. Spec => EveryStepProgresses
    BY <1>1, CommonInvariance, PTL DEF Spec, EveryStepProgresses
  <1>3. IsFiniteSet(WorkLeft)
    BY WorkFinite
  <1>. QED
    BY <1>2, <1>3, PTL

-----------------------------------------------------------------------------
(* commonRequest.                                                          *)

\* The images a tap waits for are finitely many.
LEMMA UnansweredFinite ==
    ASSUME NEW t \in Taps
    PROVE  /\ IsFiniteSet(Unanswered(t))
           /\ Cardinality(Unanswered(t)) \in Nat
           /\ Cardinality(Unanswered(t)) = 0 <=> Unanswered(t) = {}
<1>1. IsFiniteSet(Unanswered(t)) BY BoundsAssumption, FS_Subset DEF Unanswered
<1> QED BY <1>1, FS_CardinalityType, FS_EmptySet

\* Before the first tap nothing waits.
LEMMA RequestStart == RequestInit => RequestInv
<1> SUFFICES ASSUME RequestInit PROVE RequestInv OBVIOUS
<1> USE DEF RequestInit, Taps
<1>1. RequestTypeOK BY BoundsAssumption DEF RequestTypeOK
<1>2. ASSUME NEW t \in Taps PROVE TapInv(t)
  <2>1. Unanswered(t) = {} BY DEF Unanswered
  <2> QED BY <2>1, FS_EmptySet, BoundsAssumption DEF TapInv
<1>3. NotStranded /\ LastArrivalShown BY DEF NotStranded, LastArrivalShown
<1> QED BY <1>1, <1>2, <1>3 DEF RequestInv

\* A tap has a group for all the images.
LEMMA TapStep == RequestInv /\ Tap => RequestInv'
<1> SUFFICES ASSUME RequestInv, Tap PROVE RequestInv' OBVIOUS
<1> DEFINE new == taps + 1
<1>1. RequestTypeOK /\ NotStranded /\ LastArrivalShown BY DEF RequestInv
<1>2. new \in Taps /\ taps \in Nat /\ taps' = new
  BY <1>1, BoundsAssumption DEF Tap, Taps, RequestTypeOK
<1>3. Cardinality(Images) \in Nat /\ Cardinality(Images) # 0
  BY BoundsAssumption, FS_CardinalityType, FS_EmptySet
<1>4. RequestTypeOK'
  BY <1>1, <1>2, <1>3, BoundsAssumption DEF Tap, RequestTypeOK, Taps
<1>5. ASSUME NEW t \in Taps PROVE TapInv(t)'
  <2>1. TapInv(t) BY DEF RequestInv
  <2>2. CASE t = new
    <3>1. request'[t] = [r \in Images |-> "queued"] /\ group'[t] = Cardinality(Images)
          /\ notices'[t] = "registered"
      BY <1>1, <1>2, <2>2 DEF Tap, RequestTypeOK
    <3>2. Unanswered(t)' = Images BY <3>1 DEF Unanswered
    <3>3. t <= taps' /\ ~(t > taps') BY <1>2, <2>2
    <3> QED BY <3>1, <3>2, <3>3, BoundsAssumption DEF TapInv
  <2>3. CASE t # new
    <3>1. request'[t] = request[t] /\ group'[t] = group[t] /\ notices'[t] = notices[t]
      BY <1>1, <1>2, <2>3 DEF Tap, RequestTypeOK
    <3>2. Unanswered(t)' = Unanswered(t) BY <3>1 DEF Unanswered
    <3>3. (t <= taps' <=> t <= taps) /\ (t > taps' => t > taps)
      BY <1>2, <2>3 DEF Taps
    <3> QED BY <2>1, <3>1, <3>2, <3>3 DEF TapInv
  <2> QED BY <2>2, <2>3
<1>6. NotStranded'
  <2>1. \A t \in Taps : notices[t] \in {"registered", "submitted", "sync"} => notices'[t] = notices[t]
    <3>1. new > taps BY <1>2
    <3>2. notices[new] = "none" BY <1>2, <3>1 DEF RequestInv, TapInv
    <3> QED BY <1>1, <1>2, <3>2 DEF Tap, RequestTypeOK
  <2> QED BY <1>1, <2>1 DEF Tap, NotStranded
<1>7. LastArrivalShown' BY <1>1 DEF Tap, LastArrivalShown
<1> QED BY <1>4, <1>5, <1>6, <1>7 DEF RequestInv

\* A block that sends its request changes nothing the others look at.
LEMMA SendStep ==
    ASSUME RequestInv, NEW u \in Taps, NEW q \in Images, Send(u, q)
    PROVE  RequestInv'
<1>1. RequestTypeOK BY DEF RequestInv
<1>2. RequestTypeOK' BY <1>1 DEF Send, RequestTypeOK
<1>3. ASSUME NEW t \in Taps PROVE TapInv(t)'
  <2>1. TapInv(t) BY DEF RequestInv
  <2>2. ASSUME NEW r \in Images
        PROVE  /\ request'[t][r] \in {"queued", "sent"} <=> request[t][r] \in {"queued", "sent"}
               /\ request'[t][r] = "none" <=> request[t][r] = "none"
    BY <1>1 DEF Send, RequestTypeOK
  <2>3. Unanswered(t)' = Unanswered(t) BY <2>2 DEF Unanswered
  <2> QED BY <2>1, <2>2, <2>3 DEF TapInv, Send
<1>4. NotStranded' /\ LastArrivalShown'
  BY DEF RequestInv, NotStranded, LastArrivalShown, Send
<1> QED BY <1>2, <1>3, <1>4 DEF RequestInv

\* An answer takes its image out of those the tap waits for, and the last one
\* submits the notify block.
LEMMA AnswerFacts ==
    ASSUME RequestInv, NEW u \in Taps, NEW q \in Images, request[u][q] = "sent",
           request' = [request EXCEPT ![u][q] = "answered"], taps' = taps, LeaveGroup(u)
    PROVE  /\ \A t \in Taps : TapInv(t)'
           /\ request' \in [Taps -> [Images -> {"none", "queued", "sent", "answered"}]]
           /\ group' \in [Taps -> Nat]
           /\ notices' \in [Taps -> {"none", "registered", "submitted", "sync", "done"}]
           /\ notices'[u] \in {"registered", "submitted"}
           /\ \A t \in Taps : notices[t] \in {"registered", "submitted", "sync"} =>
                 notices'[t] \in {"registered", "submitted", "sync"}
<1>1. RequestTypeOK /\ TapInv(u) BY DEF RequestInv
<1>2. request' \in [Taps -> [Images -> {"none", "queued", "sent", "answered"}]]
  BY <1>1 DEF RequestTypeOK
<1>3. q \in Unanswered(u) BY DEF Unanswered
<1>4. Unanswered(u)' = Unanswered(u) \ {q} BY <1>1 DEF Unanswered, RequestTypeOK
<1>5. /\ notices[u] = "registered"
      /\ group[u] = Cardinality(Unanswered(u))
  BY <1>1, <1>3 DEF TapInv
<1>6. /\ Cardinality(Unanswered(u)') = group[u] - 1
      /\ Cardinality(Unanswered(u)') \in Nat
      /\ Cardinality(Unanswered(u)') = 0 <=> Unanswered(u)' = {}
  <2>1. IsFiniteSet(Unanswered(u)) BY UnansweredFinite
  <2>2. IsFiniteSet(Unanswered(u)') /\ Cardinality(Unanswered(u)') = Cardinality(Unanswered(u)) - 1
    BY <2>1, <1>3, <1>4, FS_RemoveElement
  <2> QED BY <2>2, <1>5, FS_CardinalityType, FS_EmptySet
<1>7. group'[u] = group[u] - 1 /\ group' \in [Taps -> Nat]
  BY <1>1, <1>5, <1>6 DEF LeaveGroup, RequestTypeOK
<1>8. /\ notices'[u] = IF Unanswered(u)' = {} THEN "submitted" ELSE "registered"
      /\ notices' \in [Taps -> {"none", "registered", "submitted", "sync", "done"}]
      /\ \A t \in Taps : t # u => notices'[t] = notices[t]
  BY <1>1, <1>5, <1>6, <1>7 DEF LeaveGroup, RequestTypeOK
<1>9. ASSUME NEW t \in Taps PROVE TapInv(t)'
  <2>1. TapInv(t) BY DEF RequestInv
  <2>2. CASE t = u
    <3>1. \A r \in Images : request'[u][r] = "none" <=> request[u][r] = "none"
      BY <1>1 DEF RequestTypeOK
    <3> QED BY <2>1, <2>2, <3>1, <1>5, <1>6, <1>7, <1>8 DEF TapInv
  <2>3. CASE t # u
    <3>1. request'[t] = request[t] /\ group'[t] = group[t] /\ notices'[t] = notices[t]
      BY <1>1, <1>8, <2>3 DEF LeaveGroup, RequestTypeOK
    <3>2. Unanswered(t)' = Unanswered(t) BY <3>1 DEF Unanswered
    <3> QED BY <2>1, <3>1, <3>2 DEF TapInv
  <2> QED BY <2>2, <2>3
<1> QED BY <1>2, <1>7, <1>8, <1>9

LEMMA RespondNoDataStep ==
    ASSUME RequestInv, NEW u \in Taps, NEW q \in Images, RespondNoData(u, q)
    PROVE  RequestInv'
<1>1. /\ request[u][q] = "sent" /\ request' = [request EXCEPT ![u][q] = "answered"]
      /\ UNCHANGED <<taps, imgData, image, latest>> /\ LeaveGroup(u)
  BY DEF RespondNoData
<1>2. RequestTypeOK' BY <1>1, AnswerFacts DEF RequestInv, RequestTypeOK
<1>3. NotStranded' BY <1>1, AnswerFacts DEF RequestInv, NotStranded
<1>4. LastArrivalShown' BY <1>1 DEF RequestInv, LastArrivalShown
<1> QED BY <1>1, <1>2, <1>3, <1>4, AnswerFacts DEF RequestInv

LEMMA RespondDataStep ==
    ASSUME RequestInv, NEW u \in Taps, NEW q \in Images, RespondData(u, q)
    PROVE  RequestInv'
<1>1. /\ request[u][q] = "sent" /\ request' = [request EXCEPT ![u][q] = "answered"]
      /\ UNCHANGED <<taps, image>> /\ LeaveGroup(u)
  BY DEF RespondData
<1>2. PICK d \in Data : /\ imgData' = [imgData EXCEPT ![q] = d]
                        /\ latest' = [latest EXCEPT ![q] = d]
  BY DEF RespondData
<1>3. RequestTypeOK /\ NotStranded /\ LastArrivalShown BY DEF RequestInv
<1>4. RequestTypeOK' BY <1>1, <1>2, <1>3, AnswerFacts DEF RequestTypeOK
<1>5. NotStranded' BY <1>1, AnswerFacts DEF NotStranded
<1>6. LastArrivalShown'
  BY <1>1, <1>2, <1>3 DEF RequestTypeOK, LastArrivalShown
<1> QED BY <1>1, <1>4, <1>5, <1>6, AnswerFacts DEF RequestInv

\* A notify block that goes on does not touch the requests.
LEMMA NoticeFacts ==
    ASSUME RequestInv, NEW u \in Taps, NEW next \in {"sync", "done"},
           notices[u] \in {"submitted", "sync"},
           notices' = [notices EXCEPT ![u] = next], UNCHANGED <<taps, request, group>>
    PROVE  \A t \in Taps : TapInv(t)'
<1> SUFFICES ASSUME NEW t \in Taps PROVE TapInv(t)' OBVIOUS
<1>1. TapInv(t) /\ RequestTypeOK BY DEF RequestInv
<1>2. Unanswered(t)' = Unanswered(t) BY DEF Unanswered
<1>3. CASE t = u
  <2>1. Unanswered(t) = {} BY <1>1, <1>3 DEF TapInv
  <2>2. notices'[t] \in {"sync", "done"} BY <1>1, <1>3 DEF RequestTypeOK
  <2> QED BY <1>1, <1>2, <1>3, <2>1, <2>2 DEF TapInv
<1>4. CASE t # u
  <2>1. notices'[t] = notices[t] BY <1>1, <1>4 DEF RequestTypeOK
  <2> QED BY <1>1, <1>2, <2>1 DEF TapInv
<1> QED BY <1>3, <1>4

LEMMA NotifySyncStep ==
    ASSUME RequestInv, NEW u \in Taps, NotifySync(u)
    PROVE  RequestInv'
<1>1. RequestTypeOK /\ NotStranded BY DEF RequestInv
<1>2. RequestTypeOK' BY <1>1 DEF NotifySync, RequestTypeOK
<1>3. \A t \in Taps : TapInv(t)' BY NoticeFacts DEF NotifySync
<1>4. NotStranded'
  <2>1. \A t \in Taps : notices[t] \in {"registered", "submitted", "sync"} =>
           notices'[t] \in {"registered", "submitted", "sync"}
    BY <1>1 DEF NotifySync, RequestTypeOK
  <2> QED BY <1>1, <2>1 DEF NotifySync, NotStranded
<1>5. LastArrivalShown' BY DEF NotifySync, RequestInv, LastArrivalShown
<1> QED BY <1>2, <1>3, <1>4, <1>5 DEF RequestInv

LEMMA ShowStep ==
    ASSUME RequestInv, NEW u \in Taps, Show(u)
    PROVE  RequestInv'
<1>1. RequestTypeOK /\ LastArrivalShown BY DEF RequestInv
<1>2. RequestTypeOK'
  <2>1. \A r \in Images : imgData[r] # Nil => Decode(imgData[r]) \in Taps \cup {Nil}
    BY <1>1 DEF RequestTypeOK, Data, Decode
  <2>2. image' \in [Images -> Taps \cup {Nil}] BY <1>1, <2>1 DEF Show, RequestTypeOK
  <2> QED BY <1>1, <2>2 DEF Show, RequestTypeOK
<1>3. \A t \in Taps : TapInv(t)' BY NoticeFacts DEF Show
<1>4. NotStranded' BY DEF Show, NotStranded
<1>5. LastArrivalShown'
  <2> SUFFICES ASSUME NEW r \in Images, latest[r] # Nil
               PROVE  imgData'[r] = Nil /\ image'[r] = Decode(latest[r])
    BY DEF Show, LastArrivalShown
  <2> QED BY <1>1 DEF Show, LastArrivalShown
<1> QED BY <1>2, <1>3, <1>4, <1>5 DEF RequestInv

LEMMA RequestStutter == RequestInv /\ UNCHANGED requestVars => RequestInv'
<1> SUFFICES ASSUME RequestInv, UNCHANGED requestVars PROVE RequestInv' OBVIOUS
<1> USE DEF requestVars
<1>1. RequestTypeOK' BY DEF RequestInv, RequestTypeOK
<1>2. ASSUME NEW t \in Taps PROVE TapInv(t)'
  <2>1. TapInv(t) BY DEF RequestInv
  <2>2. Unanswered(t)' = Unanswered(t) BY DEF Unanswered
  <2> QED BY <2>1, <2>2 DEF TapInv
<1>3. NotStranded' BY DEF RequestInv, NotStranded
<1>4. LastArrivalShown' BY DEF RequestInv, LastArrivalShown
<1> QED BY <1>1, <1>2, <1>3, <1>4 DEF RequestInv

LEMMA RequestStep == RequestInv /\ [RequestNext \/ RequestsEnd]_requestVars => RequestInv'
<1> SUFFICES ASSUME RequestInv, [RequestNext \/ RequestsEnd]_requestVars PROVE RequestInv'
  OBVIOUS
<1>1. CASE Tap BY <1>1, TapStep
<1>2. ASSUME NEW t \in Taps, NEW r \in Images, Request(t, r) PROVE RequestInv'
  BY <1>2, SendStep, RespondNoDataStep, RespondDataStep DEF Request
<1>3. ASSUME NEW t \in Taps, NotifySync(t) \/ Show(t) PROVE RequestInv'
  BY <1>3, NotifySyncStep, ShowStep
<1>4. CASE RequestsEnd \/ UNCHANGED requestVars BY <1>4, RequestStutter DEF RequestsEnd
<1> QED BY <1>1, <1>2, <1>3, <1>4 DEF RequestNext

\* Groups, notify blocks, data and images of commonRequest agree in every state,
\* for any images and any number of taps.
THEOREM RequestInvariance == RequestSpec => []RequestInv
<1> QED BY RequestStart, RequestStep, PTL DEF RequestSpec

\* The notify block of a tap runs after all its requests have been answered, also
\* when some of the answers carry no data.
THEOREM NotifiesAfterAll == RequestSpec => []NotifyAfterAll
<1>1. RequestInv => NotifyAfterAll
  <2> SUFFICES ASSUME RequestInv, NEW t \in Taps, NEW r \in Images,
                      notices[t] \in {"submitted", "sync", "done"}
               PROVE  request[t][r] = "answered"
    BY DEF NotifyAfterAll
  <2>1. TapInv(t) /\ RequestTypeOK BY DEF RequestInv
  <2>2. ~(t > taps) /\ Unanswered(t) = {} BY <2>1 DEF TapInv
  <2>3. t <= taps BY <2>1, <2>2, BoundsAssumption DEF RequestTypeOK, Taps
  <2>4. request[t][r] \in {"none", "queued", "sent", "answered"} BY <2>1 DEF RequestTypeOK
  <2> QED BY <2>1, <2>2, <2>3, <2>4 DEF TapInv, Unanswered
<1> QED BY <1>1, RequestInvariance, PTL

\* No data waits that no notify block is left to show, whichever tap stored it.
THEOREM DataIsShown == RequestSpec => []NotStranded
<1>1. RequestInv => NotStranded BY DEF RequestInv
<1> QED BY <1>1, RequestInvariance, PTL

\* No tap shows an image over one that arrived later.
THEOREM LatestShown == RequestSpec => []LastArrivalShown
<1>1. RequestInv => LastArrivalShown BY DEF RequestInv
<1> QED BY <1>1, RequestInvariance, PTL

-----------------------------------------------------------------------------
(* commonRequest: termination.                                               *)

\* A tap that was made and has not shown its images can go on by itself: the
\* answer that empties its group submits its notify block (lines 119-166), and
\* what other taps do cannot hold it up.
THEOREM TapsNeverStuck == RequestSpec => []TapNeverStuck
<1>1. RequestInv => TapNeverStuck
  <2> SUFFICES ASSUME RequestInv, NEW t \in Taps, t <= taps,
                      notices[t] \notin {"submitted", "sync", "done"}
               PROVE  \E r \in Images : request[t][r] \in {"queued", "sent"}
    BY DEF TapNeverStuck
  <2>1. TapInv(t) /\ RequestTypeOK BY DEF RequestInv
  <2>2. notices[t] = "registered" BY <2>1 DEF TapInv, RequestTypeOK
  <2> QED BY <2>1, <2>2 DEF TapInv, Unanswered
<1> QED BY <1>1, RequestInvariance, PTL

LEMMA TapWorkFinite ==
    ASSUME NEW t \in Taps
    PROVE  IsFiniteSet(TapWork(t))
<1> DEFINE requests == {w \in {"request"} \X Images \X (1 .. 3) :
                           w[3] <= RequestDistance[request[t][w[2]]]}
           notice == {w \in {"notify"} \X {t} \X (1 .. 4) :
                           w[3] <= NoticeDistance[notices[t]]}
           steps == [x \in requests |-> <<x[2], x[3]>>]
           waits == [x \in notice |-> <<x[2], x[3]>>]
<1>1. IsFiniteSet(Images \X (1 .. 3)) BY BoundsAssumption, SmallIntervals, FS_Product
<1>2. IsFiniteSet({t} \X (1 .. 4))
  <2>1. IsFiniteSet({t}) BY FS_Singleton
  <2> QED BY <2>1, SmallIntervals, FS_Product
<1>3. steps \in Injection(requests, Images \X (1 .. 3)) BY DEF Injection, IsInjective
<1>4. waits \in Injection(notice, {t} \X (1 .. 4)) BY DEF Injection, IsInjective
<1>5. TapWork(t) = requests \cup notice BY DEF TapWork
<1> HIDE DEF requests, notice, steps, waits
<1>6. IsFiniteSet(requests) BY <1>1, <1>3, FS_Injection
<1>7. IsFiniteSet(notice) BY <1>2, <1>4, FS_Injection
<1> QED BY <1>5, <1>6, <1>7, FS_Union

\* A tap whose requests and notify block only get closer to their end, one of
\* them closer than before, has less left to do.
LEMMA TapCloser ==
    ASSUME RequestTypeOK, RequestTypeOK',
           \A s \in Taps : /\ NoticeDistance[notices'[s]] <= NoticeDistance[notices[s]]
                           /\ \A r \in Images : RequestDistance[request'[s][r]]
                                                  <= RequestDistance[request[s][r]],
           NEW t \in Taps,
           \/ NoticeDistance[notices'[t]] < NoticeDistance[notices[t]]
           \/ \E r \in Images : RequestDistance[request'[t][r]] < RequestDistance[request[t][r]]
    PROVE  TapProgress
<1>1. ASSUME NEW s \in Taps
      PROVE  /\ NoticeDistance[notices[s]] \in 0 .. 4 /\ NoticeDistance[notices'[s]] \in 0 .. 4
             /\ \A r \in Images : /\ RequestDistance[request[s][r]] \in 0 .. 3
                                  /\ RequestDistance[request'[s][r]] \in 0 .. 3
  BY DEF RequestTypeOK, NoticeDistance, RequestDistance
<1>2. ASSUME NEW s \in Taps PROVE TapWork(s)' \subseteq TapWork(s)
  <2>1. ASSUME NEW w \in {"request"} \X Images \X (1 .. 3),
               w[3] <= RequestDistance[request'[s][w[2]]]
        PROVE  w[3] <= RequestDistance[request[s][w[2]]]
    <3>1. w[2] \in Images /\ w[3] \in 1 .. 3 OBVIOUS
    <3> QED BY <1>1, <2>1, <3>1
  <2>2. ASSUME NEW w \in {"notify"} \X {s} \X (1 .. 4), w[3] <= NoticeDistance[notices'[s]]
        PROVE  w[3] <= NoticeDistance[notices[s]]
    <3>1. w[3] \in 1 .. 4 OBVIOUS
    <3> QED BY <1>1, <2>2, <3>1
  <2> QED BY <2>1, <2>2 DEF TapWork
<1>3. CASE NoticeDistance[notices'[t]] < NoticeDistance[notices[t]]
  <2> DEFINE w == <<"notify", t, NoticeDistance[notices[t]]>>
  <2>1. w \in TapWork(t) BY <1>1, <1>3 DEF TapWork
  <2>2. w \notin TapWork(t)' BY <1>1, <1>3 DEF TapWork
  <2>3. Cardinality(TapWork(t)') < Cardinality(TapWork(t))
    BY <1>2, <2>1, <2>2, TapWorkFinite, Smaller
  <2> QED BY <1>2, <2>3 DEF TapProgress
<1>4. ASSUME NEW r \in Images, RequestDistance[request'[t][r]] < RequestDistance[request[t][r]]
      PROVE  TapProgress
  <2> DEFINE w == <<"request", r, RequestDistance[request[t][r]]>>
  <2>1. w \in TapWork(t) BY <1>1, <1>4 DEF TapWork
  <2>2. w \notin TapWork(t)' BY <1>1, <1>4 DEF TapWork
  <2>3. Cardinality(TapWork(t)') < Cardinality(TapWork(t))
    BY <1>2, <2>1, <2>2, TapWorkFinite, Smaller
  <2> QED BY <1>2, <2>3 DEF TapProgress
<1> QED BY <1>3, <1>4

\* Each step of commonRequest uses up a piece of one tap's work.
LEMMA RequestStepProgresses == RequestInv /\ RequestNext => TapProgress
<1> SUFFICES ASSUME RequestInv, RequestNext PROVE TapProgress OBVIOUS
<1>0. RequestTypeOK /\ RequestTypeOK'
  <2>1. RequestInv' BY RequestStep
  <2> QED BY <2>1 DEF RequestInv
<1>1. ASSUME NEW s \in Taps
      PROVE  /\ NoticeDistance[notices[s]] \in 0 .. 4
             /\ \A r \in Images : RequestDistance[request[s][r]] \in 0 .. 3
  BY <1>0 DEF RequestTypeOK, NoticeDistance, RequestDistance
<1>2. CASE Tap
  <2> DEFINE new == taps + 1
  <2>1. new \in Taps /\ new > taps
    BY <1>0, <1>2, BoundsAssumption DEF Tap, Taps, RequestTypeOK
  <2>2. notices[new] = "none" /\ \A r \in Images : request[new][r] = "none"
    BY <2>1 DEF RequestInv, TapInv
  <2>3. notices' = [notices EXCEPT ![new] = "registered"]
        /\ request' = [request EXCEPT ![new] = [r \in Images |-> "queued"]]
    BY <1>2 DEF Tap
  <2> HIDE DEF new
  <2>4. /\ \A s \in Taps : s # new => notices'[s] = notices[s] /\ request'[s] = request[s]
        /\ notices'[new] = "registered" /\ \A r \in Images : request'[new][r] = "queued"
    BY <1>0, <2>1, <2>3 DEF RequestTypeOK
  <2>5. /\ NoticeDistance[notices'[new]] < NoticeDistance[notices[new]]
        /\ \A r \in Images : RequestDistance[request'[new][r]] <= RequestDistance[request[new][r]]
    BY <2>2, <2>4 DEF NoticeDistance, RequestDistance
  <2>6. \A s \in Taps : /\ NoticeDistance[notices'[s]] <= NoticeDistance[notices[s]]
                        /\ \A r \in Images : RequestDistance[request'[s][r]]
                                               <= RequestDistance[request[s][r]]
    <3>1. NoticeDistance[notices[new]] = 4 /\ NoticeDistance[notices'[new]] = 3
      BY <2>2, <2>4 DEF NoticeDistance
    <3> QED BY <1>1, <2>4, <2>5, <3>1
  <2> QED BY <1>0, <2>1, <2>5, <2>6, TapCloser
<1>3. ASSUME NEW t \in Taps, NEW q \in Images, Request(t, q)
      PROVE  TapProgress
  <2>1. PICK label \in {"sent", "answered"} :
           /\ request' = [request EXCEPT ![t][q] = label]
           /\ RequestDistance[label] < RequestDistance[request[t][q]]
    BY <1>3 DEF Request, Send, RespondNoData, RespondData, RequestDistance
  <2>2. /\ request'[t][q] = label
        /\ \A s \in Taps, r \in Images : s # t \/ r # q => request'[s][r] = request[s][r]
    BY <1>0, <2>1 DEF RequestTypeOK
  <2>3. \A s \in Taps : notices'[s] = notices[s]
                        \/ (notices[s] = "registered" /\ notices'[s] = "submitted")
    BY <1>0, <1>3 DEF Request, Send, RespondNoData, RespondData, LeaveGroup, RequestTypeOK
  <2>4. RequestDistance[label] \in 0 .. 1 BY DEF RequestDistance
  <2>5. NoticeDistance["submitted"] <= NoticeDistance["registered"] BY DEF NoticeDistance
  <2>6. \A s \in Taps : /\ NoticeDistance[notices'[s]] <= NoticeDistance[notices[s]]
                        /\ \A r \in Images : RequestDistance[request'[s][r]]
                                               <= RequestDistance[request[s][r]]
    BY <1>1, <2>1, <2>2, <2>3, <2>4, <2>5
  <2> QED BY <1>0, <2>1, <2>2, <2>6, TapCloser
<1>4. ASSUME NEW t \in Taps, NotifySync(t) \/ Show(t)
      PROVE  TapProgress
  <2>1. PICK label \in {"sync", "done"} :
           /\ notices' = [notices EXCEPT ![t] = label] /\ request' = request
           /\ NoticeDistance[label] < NoticeDistance[notices[t]]
    BY <1>4 DEF NotifySync, Show, NoticeDistance
  <2>2. notices'[t] = label /\ \A s \in Taps : s # t => notices'[s] = notices[s]
    BY <1>0, <2>1 DEF RequestTypeOK
  <2>3. NoticeDistance[label] \in 0 .. 1 BY DEF NoticeDistance
  <2>4. \A s \in Taps : /\ NoticeDistance[notices'[s]] <= NoticeDistance[notices[s]]
                        /\ \A r \in Images : RequestDistance[request'[s][r]]
                                               <= RequestDistance[request[s][r]]
    BY <1>1, <2>1, <2>2, <2>3
  <2> QED BY <1>0, <2>1, <2>2, <2>4, TapCloser
<1> QED BY <1>2, <1>3, <1>4 DEF RequestNext

\* Every step of commonRequest does a piece of the finite work of one tap and
\* adds none to another's; with TapsNeverStuck, a tap whose blocks and answers are
\* not held back for ever gets its images shown.
THEOREM TapsProgress ==
    RequestSpec => EveryTapProgresses /\ [](\A t \in Taps : IsFiniteSet(TapWork(t)))
<1>1. RequestInv /\ [RequestNext \/ RequestsEnd]_requestVars => [TapProgress]_requestVars
  BY RequestStepProgresses DEF RequestsEnd
<1>2. RequestSpec => EveryTapProgresses
  BY <1>1, RequestInvariance, PTL DEF RequestSpec, EveryTapProgresses
<1>3. \A t \in Taps : IsFiniteSet(TapWork(t)) BY TapWorkFinite
<1> QED BY <1>2, <1>3, PTL
=============================================================================
