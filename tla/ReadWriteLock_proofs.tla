------------------------ MODULE ReadWriteLock_proofs ------------------------
(* Proofs about ReadWriteLock, for any number of rounds and of workers.      *)
EXTENDS ReadWriteLock, FiniteSetTheorems, TLAPS

-----------------------------------------------------------------------------
(* Termination, as two facts about single steps: the demo is never stuck     *)
(* before its end, and every step uses up one of finitely many.              *)

\* The task is in a dispatch_semaphore_wait whose semaphore has no unit left.
Blocked(k) ==
    \/ pc[k] \in {"waitMutexIn", "waitMutexOut"} /\ mutex = 0
    \/ pc[k] = "waitWrt" /\ wrt = 0

\* Until every block has returned, the main thread has a block to submit, or a
\* free worker one to start, or some running block is not blocked (lines 28-77):
\* never are all the threads waiting for one another.
NeverStuck ==
    \/ Finished
    \/ submitted < 2 * Rounds
    \/ started < submitted /\ Cardinality(Running) < Workers
    \/ \E k \in Running : ~Blocked(k)

\* The most steps a block can still take, at each of its statements.
Distance == [queued |-> 10, waitMutexIn |-> 9, count |-> 8, waitWrt |-> 7,
             signalMutexIn |-> 6, print |-> 5, waitMutexOut |-> 4, uncount |-> 3,
             signalWrt |-> 2, signalMutexOut |-> 1, writing |-> 1, done |-> 0]

\* What is left to do: block k's submission is <<k, 11>>, its steps <<k, 10>> down.
WorkLeft == {w \in Tasks \X (1 .. 11) :
                w[2] <= Distance[pc[w[1]]] \/ (w[2] = 11 /\ w[1] > submitted)}

\* No block ever returns to a statement, and no step leaves the work undone.
Progress == Cardinality(WorkLeft') < Cardinality(WorkLeft)
EveryStepProgresses == [][Progress]_vars

-----------------------------------------------------------------------------
(* Sets of tasks.                                                            *)

\* Readers and writers divide the tasks.
LEMMA Division ==
    /\ Tasks = Readers \cup Writers
    /\ Readers \cap Writers = {}
    /\ \A k \in Tasks : k \in Readers <=> IsReader(k)
  BY DEF Readers, Writers

\* Sets of readers are finite and no larger than the set of all readers.
LEMMA ReadersFinite ==
    /\ IsFiniteSet(Readers)
    /\ Cardinality(Readers) \in Nat
    /\ \A S \in SUBSET Readers : /\ IsFiniteSet(S)
                                 /\ Cardinality(S) \in Nat
                                 /\ Cardinality(S) <= Cardinality(Readers)
                                 /\ (Cardinality(S) = 0 <=> S = {})
  <1>1. IsFiniteSet(Tasks)
    <2>1. 2 * Rounds \in Int
      BY SizesAssumption
    <2>. QED
      BY <2>1, FS_Interval DEF Tasks
  <1>2. Readers \in SUBSET Tasks
    BY DEF Readers
  <1>3. IsFiniteSet(Readers)
    BY <1>1, <1>2, FS_Subset
  <1>4. ASSUME NEW S \in SUBSET Readers
        PROVE  /\ IsFiniteSet(S)
               /\ Cardinality(S) \in Nat
               /\ Cardinality(S) <= Cardinality(Readers)
               /\ (Cardinality(S) = 0 <=> S = {})
    <2>1. IsFiniteSet(S) /\ Cardinality(S) <= Cardinality(Readers)
      BY <1>3, FS_Subset
    <2>. QED
      BY <2>1, FS_CardinalityType, FS_EmptySet
  <1>. QED
    BY <1>3, <1>4, FS_CardinalityType

-----------------------------------------------------------------------------
(* Type correctness.                                                         *)

LEMMA InitType == Init => TypeOK
  BY SizesAssumption, Division DEF Init, TypeOK, Labels

LEMMA StartedIsTask ==
  ASSUME TypeOK, started < submitted
  PROVE  started + 1 \in Tasks
  BY SizesAssumption DEF TypeOK, Tasks

\* Every step keeps the types, given the invariant for the semaphores' range.
LEMMA StepType ==
  ASSUME IInv, [Next \/ Terminating]_vars
  PROVE  TypeOK'
  <1>. USE Division DEF IInv, TypeOK, Goto, At, Labels, ReaderLabels, WriterLabels
  <1>1. CASE Submit
    BY <1>1, SizesAssumption DEF Submit
  <1>2. CASE Start
    <2>1. started + 1 \in Tasks
      BY <1>2, StartedIsTask DEF Start
    <2>. QED
      BY <1>2, <2>1 DEF Start
  <1>3. ASSUME NEW k \in Readers, Read(k)
        PROVE  TypeOK'
    <2>. k \in Tasks
      OBVIOUS
    <2>1. CASE ReaderWaitMutexIn(k)
      BY <2>1 DEF ReaderWaitMutexIn, WaitMutex
    <2>2. CASE ReaderCount(k)
      BY <2>2 DEF ReaderCount
    <2>3. CASE ReaderWaitWrt(k)
      BY <2>3 DEF ReaderWaitWrt, WaitWrt
    <2>4. CASE ReaderSignalMutexIn(k)
      BY <2>4 DEF ReaderSignalMutexIn, MutexInv, InMutex
    <2>5. CASE ReaderPrint(k)
      BY <2>5 DEF ReaderPrint
    <2>6. CASE ReaderWaitMutexOut(k)
      BY <2>6 DEF ReaderWaitMutexOut, WaitMutex
    <2>7. CASE ReaderUncount(k)
      <3>1. Counted # {} /\ Counted \in SUBSET Readers
        BY <2>7 DEF ReaderUncount, Counted
      <3>2. readCount - 1 \in Nat
        BY <3>1, ReadersFinite DEF CountInv
      <3>. QED
        BY <2>7, <3>2 DEF ReaderUncount
    <2>8. CASE ReaderSignalWrt(k)
      BY <2>8 DEF ReaderSignalWrt, WrtInv, Shares
    <2>9. CASE ReaderSignalMutexOut(k)
      BY <2>9 DEF ReaderSignalMutexOut, MutexInv, InMutex
    <2>. QED
      BY <1>3, <2>1, <2>2, <2>3, <2>4, <2>5, <2>6, <2>7, <2>8, <2>9 DEF Read
  <1>4. ASSUME NEW k \in Writers, Write(k)
        PROVE  TypeOK'
    <2>. k \in Tasks
      OBVIOUS
    <2>1. CASE WriterWaitWrt(k)
      BY <2>1 DEF WriterWaitWrt, WaitWrt
    <2>2. CASE WriterSignalWrt(k)
      BY <2>2 DEF WriterSignalWrt, WrtInv, Writing
    <2>. QED
      BY <1>4, <2>1, <2>2 DEF Write
  <1>5. CASE UNCHANGED vars
    BY <1>5 DEF vars
  <1>. QED
    BY <1>1, <1>2, <1>3, <1>4, <1>5 DEF Next, Terminating

-----------------------------------------------------------------------------
(* The inductive invariant, one lemma per conjunct.                          *)

\* The only readers counted while nobody is between the mutex operations read.
LEMMA CountedOutsideMutex ==
  ASSUME IInv, NEW k \in Readers, InMutex(k), NEW c \in Counted, c # k
  PROVE  Shares(c)
  BY Division DEF IInv, MutexInv, InMutex, Counted, Shares

\* How each step of a reader changes the set of counted readers.
LEMMA CountedStep ==
  ASSUME IInv, NEW k \in Readers
  PROVE  /\ ReaderCount(k) => k \notin Counted /\ Counted' = Counted \cup {k}
         /\ ReaderUncount(k) => k \in Counted /\ Counted' = Counted \ {k}
         /\ Read(k) /\ ~ReaderCount(k) /\ ~ReaderUncount(k) => Counted' = Counted
  <1>. USE Division DEF IInv, TypeOK, Goto, At, Counted
  <1>. k \in Tasks
    OBVIOUS
  <1>1. ASSUME ReaderCount(k)
        PROVE  k \notin Counted /\ Counted' = Counted \cup {k}
    BY <1>1 DEF ReaderCount
  <1>2. ASSUME ReaderUncount(k)
        PROVE  k \in Counted /\ Counted' = Counted \ {k}
    BY <1>2 DEF ReaderUncount
  <1>3. ASSUME Read(k), ~ReaderCount(k), ~ReaderUncount(k)
        PROVE  Counted' = Counted
    BY <1>3 DEF Read, ReaderWaitMutexIn, ReaderWaitWrt, ReaderSignalMutexIn, ReaderPrint,
                ReaderWaitMutexOut, ReaderSignalWrt, ReaderSignalMutexOut
  <1>. QED
    BY <1>1, <1>2, <1>3

\* Starting a task changes neither the holders nor the counted readers.
LEMMA StartStep ==
  ASSUME IInv, Start
  PROVE  /\ \A k \in Tasks : (InMutex(k))' = InMutex(k)
         /\ \A k \in Tasks : (Shares(k))' = Shares(k)
         /\ \A k \in Tasks : (Writing(k))' = Writing(k)
         /\ Counted' = Counted
         /\ pc[started + 1] = "queued"
         /\ \A k \in Readers : pc'[k] \in {"waitWrt", "signalWrt"} => pc'[k] = pc[k]
  <1>1. started + 1 \in Tasks
    BY StartedIsTask DEF Start, IInv
  <1>2. pc[started + 1] = "queued"
    BY <1>1 DEF IInv, QueueInv, TypeOK
  <1>. QED
    BY <1>1, <1>2, Division
       DEF Start, IInv, TypeOK, InMutex, Shares, Writing, Counted

LEMMA StepMutex ==
  ASSUME IInv, [Next \/ Terminating]_vars
  PROVE  MutexInv'
  <1>. USE Division DEF MutexInv
  <1>1. CASE Submit \/ UNCHANGED vars
    BY <1>1 DEF IInv, Submit, vars, InMutex
  <1>2. CASE Start
    BY <1>2, StartStep DEF IInv, Start
  <1>3. ASSUME NEW k \in Readers, Read(k)
        PROVE  MutexInv'
    <2>. k \in Tasks
      OBVIOUS
    <2>. USE DEF IInv, TypeOK, Goto, At, InMutex
    <2>1. CASE ReaderWaitMutexIn(k)
      BY <2>1 DEF ReaderWaitMutexIn, WaitMutex
    <2>2. CASE ReaderCount(k)
      BY <2>2 DEF ReaderCount
    <2>3. CASE ReaderWaitWrt(k)
      BY <2>3 DEF ReaderWaitWrt
    <2>4. CASE ReaderSignalMutexIn(k)
      BY <2>4 DEF ReaderSignalMutexIn
    <2>5. CASE ReaderPrint(k)
      BY <2>5 DEF ReaderPrint
    <2>6. CASE ReaderWaitMutexOut(k)
      BY <2>6 DEF ReaderWaitMutexOut, WaitMutex
    <2>7. CASE ReaderUncount(k)
      BY <2>7 DEF ReaderUncount
    <2>8. CASE ReaderSignalWrt(k)
      BY <2>8 DEF ReaderSignalWrt
    <2>9. CASE ReaderSignalMutexOut(k)
      BY <2>9 DEF ReaderSignalMutexOut
    <2>. QED
      BY <1>3, <2>1, <2>2, <2>3, <2>4, <2>5, <2>6, <2>7, <2>8, <2>9 DEF Read
  <1>4. ASSUME NEW k \in Writers, Write(k)
        PROVE  MutexInv'
    BY <1>4 DEF Write, WriterWaitWrt, WriterSignalWrt, IInv, TypeOK, Goto, At, InMutex
  <1>. QED
    BY <1>1, <1>2, <1>3, <1>4 DEF Next, Terminating

LEMMA StepWrt ==
  ASSUME IInv, [Next \/ Terminating]_vars
  PROVE  WrtInv'
  <1>. USE Division DEF WrtInv
  <1>1. CASE Submit \/ UNCHANGED vars
    BY <1>1 DEF IInv, Submit, vars, Shares, Writing
  <1>2. CASE Start
    BY <1>2, StartStep DEF IInv, Start
  <1>3. ASSUME NEW k \in Readers, Read(k)
        PROVE  WrtInv'
    <2>. k \in Tasks
      OBVIOUS
    <2>. USE DEF IInv, TypeOK, Goto, At, Shares, Writing
    <2>1. CASE \/ ReaderWaitMutexIn(k) \/ ReaderSignalMutexIn(k) \/ ReaderPrint(k)
               \/ ReaderWaitMutexOut(k) \/ ReaderSignalMutexOut(k)
      BY <2>1 DEF ReaderWaitMutexIn, ReaderSignalMutexIn, ReaderPrint,
                  ReaderWaitMutexOut, ReaderSignalMutexOut
    <2>2. CASE ReaderCount(k)
      <3>1. CASE readCount = 0
        BY <2>2, <3>1 DEF ReaderCount
      <3>2. CASE readCount # 0
        <4>1. PICK c \in Counted : c # k
          BY <2>2, <3>2, ReadersFinite, CountedStep DEF CountInv, Counted
        <4>2. c \in Tasks /\ Shares(c)
          BY <2>2, <4>1, CountedOutsideMutex DEF ReaderCount, InMutex, Counted
        <4>. QED
          BY <2>2, <4>1, <4>2 DEF ReaderCount
      <3>. QED
        BY <3>1, <3>2
    <2>3. CASE ReaderWaitWrt(k)
      BY <2>3 DEF ReaderWaitWrt, WaitWrt
    <2>4. CASE ReaderUncount(k)
      <3>1. CASE readCount' = 0
        BY <2>4, <3>1 DEF ReaderUncount
      <3>2. CASE readCount' # 0
        <4>1. PICK c \in Counted : c # k
          <5>1. Counted # {k}
            <6>1. readCount # 1
              BY <2>4, <3>2 DEF ReaderUncount
            <6>2. Cardinality({k}) = 1
              BY FS_Singleton
            <6>. QED
              BY <6>1, <6>2 DEF CountInv
          <5>. QED
            BY <2>4, <5>1, CountedStep
        <4>2. c \in Tasks /\ Shares(c)
          BY <2>4, <4>1, CountedOutsideMutex DEF ReaderUncount, InMutex, Counted
        <4>. QED
          BY <2>4, <3>2, <4>1, <4>2 DEF ReaderUncount
      <3>. QED
        BY <3>1, <3>2
    <2>5. CASE ReaderSignalWrt(k)
      <3>1. Counted = {} /\ InMutex(k) /\ Shares(k)
        BY <2>5 DEF ReaderSignalWrt, CountInv, InMutex
      <3>2. \A j \in Tasks : j # k => ~Shares(j)
        BY <3>1 DEF Counted, MutexInv, InMutex
      <3>. QED
        BY <2>5, <3>1, <3>2 DEF ReaderSignalWrt
    <2>. QED
      BY <1>3, <2>1, <2>2, <2>3, <2>4, <2>5 DEF Read
  <1>4. ASSUME NEW k \in Writers, Write(k)
        PROVE  WrtInv'
    <2>. k \in Tasks
      OBVIOUS
    <2>. USE DEF IInv, TypeOK, Goto, At, Shares, Writing
    <2>1. CASE WriterWaitWrt(k)
      BY <2>1 DEF WriterWaitWrt, WaitWrt
    <2>2. CASE WriterSignalWrt(k)
      BY <2>2 DEF WriterSignalWrt
    <2>. QED
      BY <1>4, <2>1, <2>2 DEF Write
  <1>. QED
    BY <1>1, <1>2, <1>3, <1>4 DEF Next, Terminating

LEMMA StepCount ==
  ASSUME IInv, [Next \/ Terminating]_vars
  PROVE  CountInv'
  <1>. USE Division DEF CountInv
  <1>1. CASE Submit \/ UNCHANGED vars
    BY <1>1 DEF IInv, Submit, vars, Counted
  <1>2. CASE Start
    BY <1>2, StartStep DEF IInv, Start
  <1>3. ASSUME NEW k \in Readers, Read(k)
        PROVE  CountInv'
    <2>. k \in Tasks
      OBVIOUS
    <2>. IsFiniteSet(Counted) /\ Cardinality(Counted) \in Nat
      BY ReadersFinite DEF Counted
    <2>1. CASE ReaderCount(k)
      <3>1. InMutex(k) /\ k \notin Counted /\ Counted' = Counted \cup {k}
        BY <2>1, CountedStep DEF ReaderCount, At, InMutex
      <3>2. readCount' = Cardinality(Counted')
        BY <2>1, <3>1, FS_AddElement DEF ReaderCount, IInv
      <3>3. \A j \in Readers : pc'[j] \in {"waitWrt", "signalWrt"}
                                => j = k /\ pc'[j] = "waitWrt" /\ readCount' = 1
        BY <2>1, <3>1 DEF ReaderCount, Goto, At, IInv, TypeOK, MutexInv, InMutex
      <3>4. readCount' = 1 => Counted' = {k}
        BY <2>1, <3>1, ReadersFinite DEF ReaderCount, IInv, TypeOK, Counted
      <3>. QED
        BY <3>2, <3>3, <3>4
    <2>2. CASE ReaderUncount(k)
      <3>1. InMutex(k) /\ k \in Counted /\ Counted' = Counted \ {k}
        BY <2>2, CountedStep DEF ReaderUncount, At, InMutex
      <3>2. readCount' = Cardinality(Counted')
        BY <2>2, <3>1, FS_RemoveElement DEF ReaderUncount, IInv
      <3>3. \A j \in Readers : pc'[j] \in {"waitWrt", "signalWrt"}
                                => j = k /\ pc'[j] = "signalWrt" /\ readCount' = 0
        BY <2>2, <3>1 DEF ReaderUncount, Goto, At, IInv, TypeOK, MutexInv, InMutex
      <3>4. Counted' \in SUBSET Readers
        BY <3>1 DEF Counted
      <3>5. readCount' = 0 => Counted' = {}
        BY <3>2, <3>4, ReadersFinite
      <3>. QED
        BY <3>2, <3>3, <3>5
    <2>3. CASE ~ReaderCount(k) /\ ~ReaderUncount(k)
      <3>1. Counted' = Counted /\ readCount' = readCount
        BY <1>3, <2>3, CountedStep
           DEF Read, ReaderWaitMutexIn, ReaderWaitWrt, ReaderSignalMutexIn, ReaderPrint,
               ReaderWaitMutexOut, ReaderSignalWrt, ReaderSignalMutexOut
      <3>2. \A j \in Readers : pc'[j] \in {"waitWrt", "signalWrt"} => pc'[j] = pc[j]
        BY <1>3, <2>3
           DEF Read, ReaderWaitMutexIn, ReaderWaitWrt, ReaderSignalMutexIn, ReaderPrint,
               ReaderWaitMutexOut, ReaderSignalWrt, ReaderSignalMutexOut,
               Goto, At, IInv, TypeOK
      <3>. QED
        BY <3>1, <3>2 DEF IInv
    <2>. QED
      BY <2>1, <2>2, <2>3
  <1>4. ASSUME NEW k \in Writers, Write(k)
        PROVE  CountInv'
    <2>1. Counted' = Counted /\ \A j \in Readers : pc'[j] = pc[j]
      BY <1>4 DEF Write, WriterWaitWrt, WriterSignalWrt, Goto, At, IInv, TypeOK, Counted
    <2>. QED
      BY <1>4, <2>1 DEF Write, WriterWaitWrt, WriterSignalWrt, IInv
  <1>. QED
    BY <1>1, <1>2, <1>3, <1>4 DEF Next, Terminating

LEMMA StepQueue ==
  ASSUME IInv, [Next \/ Terminating]_vars
  PROVE  QueueInv'
  <1>. USE Division DEF QueueInv, IInv, TypeOK, Goto, At
  <1>1. CASE Submit \/ UNCHANGED vars
    BY <1>1 DEF Submit, vars
  <1>2. CASE Start
    <2>1. started + 1 \in Tasks /\ started \in Int
      BY <1>2, StartedIsTask DEF Start
    <2>2. \A k \in Tasks : k > started + 1 <=> k > started /\ k # started + 1
      BY <2>1, SizesAssumption DEF Tasks
    <2>. QED
      BY <1>2, <2>1, <2>2 DEF Start
  <1>3. ASSUME NEW k \in Readers, Read(k)
        PROVE  QueueInv'
    BY <1>3 DEF Read, ReaderWaitMutexIn, ReaderCount, ReaderWaitWrt, ReaderSignalMutexIn,
                ReaderPrint, ReaderWaitMutexOut, ReaderUncount, ReaderSignalWrt,
                ReaderSignalMutexOut
  <1>4. ASSUME NEW k \in Writers, Write(k)
        PROVE  QueueInv'
    BY <1>4 DEF Write, WriterWaitWrt, WriterSignalWrt
  <1>. QED
    BY <1>1, <1>2, <1>3, <1>4 DEF Next, Terminating

LEMMA StepPrinted ==
  ASSUME IInv, [Next \/ Terminating]_vars
  PROVE  PrintedCountsItself'
  <1>. USE Division DEF PrintedCountsItself, IInv, TypeOK, Goto, At
  <1>1. CASE Submit \/ UNCHANGED vars
    BY <1>1 DEF Submit, vars
  <1>2. CASE Start
    BY <1>2, StartedIsTask DEF Start
  <1>3. ASSUME NEW k \in Readers, Read(k)
        PROVE  PrintedCountsItself'
    <2>1. CASE ReaderPrint(k)
      <3>1. k \in Counted /\ Counted \in SUBSET Readers
        BY <2>1 DEF ReaderPrint, Counted
      <3>2. readCount \in 1 .. Cardinality(Readers)
        BY <3>1, ReadersFinite DEF CountInv
      <3>. QED
        BY <2>1, <3>2 DEF ReaderPrint
    <2>2. CASE ~ReaderPrint(k)
      BY <1>3, <2>2
         DEF Read, ReaderWaitMutexIn, ReaderCount, ReaderWaitWrt, ReaderSignalMutexIn,
             ReaderWaitMutexOut, ReaderUncount, ReaderSignalWrt, ReaderSignalMutexOut
    <2>. QED
      BY <2>1, <2>2
  <1>4. ASSUME NEW k \in Writers, Write(k)
        PROVE  PrintedCountsItself'
    BY <1>4 DEF Write, WriterWaitWrt, WriterSignalWrt
  <1>. QED
    BY <1>1, <1>2, <1>3, <1>4 DEF Next, Terminating

LEMMA InitIInv == Init => IInv
  <1>. SUFFICES ASSUME Init PROVE IInv
    OBVIOUS
  <1>. USE Division DEF Init
  <1>1. TypeOK
    BY InitType
  <1>2. Counted = {}
    BY DEF Counted
  <1>3. CountInv
    BY <1>2, FS_EmptySet DEF CountInv
  <1>4. MutexInv /\ WrtInv /\ PrintedCountsItself
    BY DEF MutexInv, InMutex, WrtInv, Writing, Shares, PrintedCountsItself
  <1>5. QueueInv
    BY SizesAssumption DEF QueueInv, Tasks
  <1>. QED
    BY <1>1, <1>3, <1>4, <1>5 DEF IInv

\* The strengthened invariant: the two semaphores and the counter always agree
\* with the places the reader and writer blocks (lines 38-71) have reached.
THEOREM Invariance == Spec => []IInv
  <1>1. Init => IInv
    BY InitIInv
  <1>2. IInv /\ [Next \/ Terminating]_vars => IInv'
    BY StepType, StepMutex, StepWrt, StepCount, StepQueue, StepPrinted DEF IInv
  <1>. QED
    BY <1>1, <1>2, PTL DEF Spec

-----------------------------------------------------------------------------
(* What follows from it.                                                     *)

\* Types: in particular neither semaphore ever holds more than one unit.
THEOREM TypeCorrect == Spec => []TypeOK
  <1>1. IInv => TypeOK
    BY DEF IInv
  <1>. QED
    BY <1>1, Invariance, PTL

\* No reader or second writer is inside while a writer writes.
THEOREM MutualExclusion == Spec => []Exclusion
  <1>1. IInv => Exclusion
    BY Division DEF IInv, WrtInv, Exclusion, Writing, Reading, Shares
  <1>. QED
    BY <1>1, Invariance, PTL

\* The count printed on line 49, outside the lock, includes the printing reader.
THEOREM PrintedCount == Spec => []PrintedCountsItself
  <1>1. IInv => PrintedCountsItself
    BY DEF IInv
  <1>. QED
    BY <1>1, Invariance, PTL

\* When the last block has returned both semaphores and the counter are as
\* viewDidLoad created them.
THEOREM LockRestored == Spec => []Restored
  <1>1. ASSUME IInv, Finished
        PROVE  wrt = 1 /\ mutex = 1 /\ readCount = 0
    <2>1. Counted = {}
      BY <1>1, Division DEF Finished, At, Counted
    <2>2. readCount = 0
      BY <1>1, <2>1, FS_EmptySet DEF IInv, CountInv
    <2>3. wrt = 1 /\ mutex = 1
      BY <1>1, Division
         DEF IInv, TypeOK, MutexInv, WrtInv, Finished, At, InMutex, Shares, Writing
    <2>. QED
      BY <2>2, <2>3
  <1>2. IInv => Restored
    BY <1>1 DEF Restored
  <1>. QED
    BY <1>2, Invariance, PTL

-----------------------------------------------------------------------------
(* Termination.                                                              *)

LEMMA TasksFinite == IsFiniteSet(Tasks) /\ IsFiniteSet(Running)
  <1>1. IsFiniteSet(Tasks)
    <2>1. 2 * Rounds \in Int
      BY SizesAssumption
    <2>. QED
      BY <2>1, FS_Interval DEF Tasks
  <1>. QED
    BY <1>1, FS_Subset DEF Running

\* While a task is in the middle of its block, some task in the middle of its
\* block can go on: the holder of `mutex' waits for `wrt' at most, and the holders
\* of `wrt' wait for `mutex' at most, but only one of the two at a time.
LEMMA SomeoneUnblocked ==
  ASSUME IInv, Running # {}
  PROVE  \E k \in Running : ~Blocked(k)
  <1>. SUFFICES ASSUME \A k \in Running : Blocked(k) PROVE FALSE
    OBVIOUS
  <1>. USE Division DEF Running, Idle, Blocked
  <1>1. CASE mutex = 0
    <2>1. PICK k \in Tasks : InMutex(k)
      BY <1>1 DEF IInv, MutexInv
    <2>2. pc[k] = "waitWrt" /\ wrt = 0 /\ k \in Readers
      BY <2>1 DEF InMutex
    <2>3. PICK j \in Tasks : Writing(j) \/ Shares(j)
      BY <2>2 DEF IInv, WrtInv
    <2>4. pc[j] = "waitMutexOut" /\ j \in Readers
      BY <2>3 DEF Writing, Shares
    <2>5. j \in Counted /\ j # k
      BY <2>2, <2>4 DEF Counted
    <2>. QED
      BY <2>2, <2>5 DEF IInv, CountInv
  <1>2. CASE mutex # 0
    <2>1. \A k \in Tasks : ~InMutex(k)
      BY <1>2 DEF IInv, MutexInv
    <2>2. PICK k \in Running : TRUE
      OBVIOUS
    <2>3. pc[k] = "waitWrt" /\ wrt = 0
      BY <1>2, <2>2
    <2>4. PICK j \in Tasks : Writing(j) \/ Shares(j)
      BY <2>3 DEF IInv, WrtInv
    <2>. QED
      BY <1>2, <2>1, <2>4 DEF Writing, Shares, InMutex
  <1>. QED
    BY <1>1, <1>2

\* The blocks of lines 38-71 never all wait for one another, even when they hold
\* every thread of the global queue: until all have returned something can run.
THEOREM LockNeverStuck == Spec => []NeverStuck
  <1>1. ASSUME IInv
        PROVE  NeverStuck
    <2>1. CASE Running # {}
      BY <1>1, <2>1, SomeoneUnblocked DEF NeverStuck
    <2>2. CASE Running = {} /\ started < submitted
      <3>1. Cardinality(Running) < Workers
        BY <2>2, FS_EmptySet, SizesAssumption
      <3>. QED
        BY <2>2, <3>1 DEF NeverStuck
    <2>3. CASE Running = {} /\ ~(started < submitted) /\ ~(submitted < 2 * Rounds)
      <3>1. started \in Nat /\ \A k \in Tasks : ~(k > started)
        BY <1>1, <2>3, SizesAssumption DEF IInv, TypeOK, Tasks
      <3>2. \A k \in Tasks : pc[k] = "done"
        BY <1>1, <2>3, <3>1 DEF IInv, QueueInv, Running, Idle
      <3>. QED
        BY <3>2 DEF NeverStuck, Finished, At
    <2>. QED
      BY <2>1, <2>2, <2>3 DEF NeverStuck
  <1>. QED
    BY <1>1, Invariance, PTL

\* There are 11 pieces of work per block: 22 per round.
LEMMA WorkFinite ==
    /\ IsFiniteSet(WorkLeft)
    /\ Cardinality(WorkLeft) \in 0 .. 22 * Rounds
  <1>1. IsFiniteSet(1 .. 11) /\ Cardinality(1 .. 11) = 11
    <2>1. \A b \in Nat \ {0} : IsFiniteSet(1 .. b) /\ Cardinality(1 .. b) = b
      <3>. TAKE b \in Nat \ {0}
      <3>. QED
        BY FS_Interval
    <2>2. 11 \in Nat \ {0}
      OBVIOUS
    <2>. QED
      BY <2>1, <2>2, Zenon
  <1>2. Cardinality(Tasks) = 2 * Rounds
    <2>1. 2 * Rounds \in Nat \ {0}
      BY SizesAssumption
    <2>. QED
      BY <2>1, FS_Interval DEF Tasks
  <1>3. /\ IsFiniteSet(Tasks \X (1 .. 11))
        /\ Cardinality(Tasks \X (1 .. 11)) = Cardinality(Tasks) * Cardinality(1 .. 11)
    BY <1>1, TasksFinite, FS_Product
  <1>4. Cardinality(Tasks \X (1 .. 11)) = 22 * Rounds
    BY <1>1, <1>2, <1>3, SizesAssumption
  <1>5. IsFiniteSet(WorkLeft) /\ Cardinality(WorkLeft) <= Cardinality(Tasks \X (1 .. 11))
    BY <1>3, FS_Subset DEF WorkLeft
  <1>. QED
    BY <1>4, <1>5, FS_CardinalityType, SizesAssumption

\* Work that is done and not to be done again lowers the count.
LEMMA LessWork ==
  ASSUME WorkLeft' \subseteq WorkLeft, NEW w \in WorkLeft, w \notin WorkLeft'
  PROVE  Progress
  <1>1. IsFiniteSet(WorkLeft)
    BY WorkFinite
  <1>2. WorkLeft' # WorkLeft /\ WorkLeft' \in SUBSET WorkLeft
    OBVIOUS
  <1>3. /\ IsFiniteSet(WorkLeft')
        /\ Cardinality(WorkLeft') <= Cardinality(WorkLeft)
        /\ Cardinality(WorkLeft) # Cardinality(WorkLeft')
    BY <1>1, <1>2, FS_Subset
  <1>4. Cardinality(WorkLeft) \in Nat /\ Cardinality(WorkLeft') \in Nat
    BY <1>1, <1>3, FS_CardinalityType
  <1>. QED
    BY <1>3, <1>4 DEF Progress

LEMMA DistanceType == \A l \in Labels : Distance[l] \in 0 .. 10
  BY DEF Distance, Labels, ReaderLabels, WriterLabels

\* A task that moves closer to the end of its block leaves less work.
LEMMA Closer ==
  ASSUME TypeOK, NEW k \in Tasks, NEW label \in Labels, Goto(k, label),
         Distance[label] < Distance[pc[k]], UNCHANGED submitted
  PROVE  Progress
  <1>1. pc' = [pc EXCEPT ![k] = label] /\ pc \in [Tasks -> Labels]
    BY DEF Goto, TypeOK
  <1>2. /\ pc'[k] = label /\ \A j \in Tasks : j # k => pc'[j] = pc[j]
        /\ Distance[pc[k]] \in 0 .. 10 /\ Distance[label] \in 0 .. 10
    BY <1>1, DistanceType
  <1>. DEFINE w == <<k, Distance[pc[k]]>>
  <1>3. w \in WorkLeft /\ w \notin WorkLeft'
    BY <1>2 DEF WorkLeft
  <1>4. WorkLeft' \subseteq WorkLeft
    <2>. SUFFICES ASSUME NEW j \in Tasks, NEW i \in 1 .. 11, <<j, i>> \in WorkLeft'
         PROVE  <<j, i>> \in WorkLeft
      BY DEF WorkLeft
    <2>. QED
      BY <1>2 DEF WorkLeft
  <1>. QED
    BY <1>3, <1>4, LessWork

\* Every step of the demo uses up a piece of work and creates none.
LEMMA StepProgresses ==
  ASSUME IInv, Next
  PROVE  Progress
  <1>. USE DEF Labels, ReaderLabels, WriterLabels
  <1>0. TypeOK
    BY DEF IInv
  <1>1. CASE Submit
    <2>1. submitted + 1 \in Tasks /\ submitted \in Nat
      BY <1>0, <1>1, SizesAssumption DEF Submit, TypeOK, Tasks
    <2>2. \A k \in Tasks : Distance[pc[k]] \in 0 .. 10
      BY <1>0, DistanceType DEF TypeOK
    <2>3. submitted' = submitted + 1 /\ pc' = pc
      BY <1>1 DEF Submit
    <2>. DEFINE w == <<submitted + 1, 11>>
    <2>4. w \in WorkLeft /\ w \notin WorkLeft'
      BY <2>1, <2>2, <2>3 DEF WorkLeft
    <2>5. WorkLeft' \subseteq WorkLeft
      BY <2>1, <2>3, SizesAssumption DEF WorkLeft, Tasks
    <2>. QED
      BY <2>4, <2>5, LessWork
  <1>2. CASE Start
    <2>1. started + 1 \in Tasks /\ pc[started + 1] = "queued"
      BY <1>2, StartedIsTask, StartStep DEF Start, IInv
    <2>2. PICK label \in {"waitMutexIn", "waitWrt"} : Goto(started + 1, label)
      BY <1>2 DEF Start, Goto
    <2>3. Distance[label] < Distance[pc[started + 1]]
      BY <2>1 DEF Distance
    <2>. QED
      BY <1>0, <1>2, <2>1, <2>2, <2>3, Closer DEF Start
  <1>3. ASSUME NEW k \in Readers, Read(k)
        PROVE  Progress
    <2>0. k \in Tasks /\ UNCHANGED submitted
      BY <1>3, Division
         DEF Read, ReaderWaitMutexIn, ReaderCount, ReaderWaitWrt, ReaderSignalMutexIn,
             ReaderPrint, ReaderWaitMutexOut, ReaderUncount, ReaderSignalWrt,
             ReaderSignalMutexOut
    <2>1. PICK label \in Labels : Goto(k, label) /\ Distance[label] < Distance[pc[k]]
      <3>1. CASE ReaderWaitMutexIn(k)
        BY <3>1 DEF ReaderWaitMutexIn, At, Distance
      <3>2. CASE ReaderCount(k)
        BY <3>2 DEF ReaderCount, At, Distance
      <3>3. CASE ReaderWaitWrt(k)
        BY <3>3 DEF ReaderWaitWrt, At, Distance
      <3>4. CASE ReaderSignalMutexIn(k)
        BY <3>4 DEF ReaderSignalMutexIn, At, Distance
      <3>5. CASE ReaderPrint(k)
        BY <3>5 DEF ReaderPrint, At, Distance
      <3>6. CASE ReaderWaitMutexOut(k)
        BY <3>6 DEF ReaderWaitMutexOut, At, Distance
      <3>7. CASE ReaderUncount(k)
        BY <3>7 DEF ReaderUncount, At, Distance
      <3>8. CASE ReaderSignalWrt(k)
        BY <3>8 DEF ReaderSignalWrt, At, Distance
      <3>9. CASE ReaderSignalMutexOut(k)
        BY <3>9 DEF ReaderSignalMutexOut, At, Distance
      <3>. QED
        BY <1>3, <3>1, <3>2, <3>3, <3>4, <3>5, <3>6, <3>7, <3>8, <3>9 DEF Read
    <2>. QED
      BY <1>0, <2>0, <2>1, Closer
  <1>4. ASSUME NEW k \in Writers, Write(k)
        PROVE  Progress
    <2>0. k \in Tasks /\ UNCHANGED submitted
      BY <1>4, Division DEF Write, WriterWaitWrt, WriterSignalWrt
    <2>1. PICK label \in Labels : Goto(k, label) /\ Distance[label] < Distance[pc[k]]
      BY <1>4 DEF Write, WriterWaitWrt, WriterSignalWrt, At, Distance
    <2>. QED
      BY <1>0, <2>0, <2>1, Closer
  <1>. QED
    BY <1>1, <1>2, <1>3, <1>4 DEF Next

\* No block runs a statement twice and no step is idle: each uses up one of at
\* most 22 * Rounds pieces of work.  With LockNeverStuck, the demo can only stop
\* when every block has returned.
THEOREM LockProgress ==
    Spec => EveryStepProgresses /\ [](Cardinality(WorkLeft) \in 0 .. 22 * Rounds)
  <1>1. IInv /\ [Next \/ Terminating]_vars => [Progress]_vars
    BY StepProgresses DEF Terminating
  <1>2. Spec => EveryStepProgresses
    BY <1>1, Invariance, PTL DEF Spec, EveryStepProgresses
  <1>3. Cardinality(WorkLeft) \in 0 .. 22 * Rounds
    BY WorkFinite
  <1>. QED
    BY <1>2, <1>3, PTL

-----------------------------------------------------------------------------
(* Implementation of the abstract lock.                                      *)

\* A step that moves only task k, within one phase, is invisible.
LEMMA Invisible ==
  ASSUME NEW k \in Tasks, \A j \in Tasks \ {k} : pc'[j] = pc[j],
         phaseBar'[k] = phaseBar[k]
  PROVE  phaseBar' = phaseBar
  BY Division DEF phaseBar, Reading, Writing, Over

\* A step that moves task k to phase x updates the abstract phase of k alone.
LEMMA Visible ==
  ASSUME NEW k \in Tasks, NEW x, \A j \in Tasks \ {k} : pc'[j] = pc[j],
         phaseBar'[k] = x
  PROVE  phaseBar' = [phaseBar EXCEPT ![k] = x]
  BY Division DEF phaseBar, Reading, Writing, Over

\* Each step of the demo is a step of the abstract lock or invisible to it:
\* a reader begins when it signals `mutex' and ends when it waits for it again.
LEMMA StepImplements ==
  ASSUME IInv, [Next \/ Terminating]_vars
  PROVE  [Abstract!Next]_phaseBar
  <1>. USE Division DEF IInv, TypeOK, Goto, At, Reading, Writing, Over
  <1>1. CASE Submit \/ UNCHANGED vars
    BY <1>1 DEF Submit, vars, phaseBar
  <1>2. CASE Start
    <2>1. started + 1 \in Tasks /\ pc[started + 1] = "queued"
      BY <1>2, StartedIsTask, StartStep DEF Start
    <2>2. phaseBar'[started + 1] = phaseBar[started + 1]
      BY <1>2, <2>1 DEF Start, phaseBar
    <2>. QED
      BY <1>2, <2>1, <2>2, Invisible DEF Start
  <1>3. ASSUME NEW k \in Readers, Read(k)
        PROVE  [Abstract!Next]_phaseBar
    <2>. k \in Tasks
      OBVIOUS
    <2>1. \A j \in Tasks \ {k} : pc'[j] = pc[j]
      BY <1>3 DEF Read, ReaderWaitMutexIn, ReaderCount, ReaderWaitWrt, ReaderSignalMutexIn,
                  ReaderPrint, ReaderWaitMutexOut, ReaderUncount, ReaderSignalWrt,
                  ReaderSignalMutexOut
    <2>2. CASE ReaderSignalMutexIn(k)
      <3>1. phaseBar[k] = "waiting" /\ phaseBar'[k] = "active"
        BY <2>2 DEF ReaderSignalMutexIn, phaseBar
      <3>2. Abstract!Active \subseteq Readers
        BY <2>2 DEF ReaderSignalMutexIn, WrtInv, Shares, Abstract!Active, Abstract!Clients,
                    phaseBar
      <3>3. Abstract!BeginRead(k)
        BY <2>1, <3>1, <3>2, Visible DEF Abstract!BeginRead
      <3>. QED
        BY <3>3 DEF Abstract!Next
    <2>3. CASE ReaderWaitMutexOut(k)
      <3>1. phaseBar[k] = "active" /\ phaseBar'[k] = "finished"
        BY <2>3 DEF ReaderWaitMutexOut, phaseBar
      <3>2. Abstract!End(k)
        BY <2>1, <3>1, Visible DEF Abstract!End
      <3>. QED
        BY <3>2 DEF Abstract!Next, Abstract!Clients
    <2>4. CASE ~ReaderSignalMutexIn(k) /\ ~ReaderWaitMutexOut(k)
      <3>1. phaseBar'[k] = phaseBar[k]
        BY <1>3, <2>4
           DEF Read, ReaderWaitMutexIn, ReaderCount, ReaderWaitWrt, ReaderPrint,
               ReaderUncount, ReaderSignalWrt, ReaderSignalMutexOut, phaseBar
      <3>. QED
        BY <2>1, <3>1, Invisible
    <2>. QED
      BY <2>2, <2>3, <2>4
  <1>4. ASSUME NEW k \in Writers, Write(k)
        PROVE  [Abstract!Next]_phaseBar
    <2>. k \in Tasks
      OBVIOUS
    <2>1. \A j \in Tasks \ {k} : pc'[j] = pc[j]
      BY <1>4 DEF Write, WriterWaitWrt, WriterSignalWrt
    <2>2. CASE WriterWaitWrt(k)
      <3>1. phaseBar[k] = "waiting" /\ phaseBar'[k] = "active"
        BY <2>2 DEF WriterWaitWrt, phaseBar
      <3>2. Abstract!Active = {}
        BY <2>2 DEF WriterWaitWrt, WaitWrt, WrtInv, Shares, Abstract!Active,
                    Abstract!Clients, phaseBar
      <3>3. Abstract!BeginWrite(k)
        BY <2>1, <3>1, <3>2, Visible DEF Abstract!BeginWrite
      <3>. QED
        BY <3>3 DEF Abstract!Next
    <2>3. CASE WriterSignalWrt(k)
      <3>1. phaseBar[k] = "active" /\ phaseBar'[k] = "finished"
        BY <2>3 DEF WriterSignalWrt, phaseBar
      <3>2. Abstract!End(k)
        BY <2>1, <3>1, Visible DEF Abstract!End
      <3>. QED
        BY <3>2 DEF Abstract!Next, Abstract!Clients
    <2>. QED
      BY <1>4, <2>2, <2>3 DEF Write
  <1>. QED
    BY <1>1, <1>2, <1>3, <1>4 DEF Next, Terminating

\* The two semaphores and the counter implement a readers-writer lock (its
\* safety part; the liveness part is checked by TLC).
THEOREM Implementation == Spec => Abstract!Safe
  <1>1. Init => Abstract!Init
    BY Division DEF Init, Abstract!Init, Abstract!Clients, phaseBar, Reading, Writing, Over
  <1>2. IInv /\ [Next \/ Terminating]_vars => [Abstract!Next]_phaseBar
    BY StepImplements
  <1>. QED
    BY <1>1, <1>2, Invariance, PTL DEF Spec, Abstract!Safe
=============================================================================
