---------------------------- MODULE ReadWriteLock ----------------------------
(***************************************************************************)
(* The readers-writer lock of the GCDReadWriteLock demo.                   *)
(*                                                                         *)
(* viewDidLoad submits, Rounds times, a writer block and then a reader     *)
(* block to the global concurrent queue; the queue starts blocks in the    *)
(* order of submission on at most Workers threads.  The blocks synchronise *)
(* with two counting semaphores, `wrt' and `mutex', and a plain counter,   *)
(* `readCount'.  Task k of 1..2*Rounds is the k-th block submitted: odd    *)
(* ones write, even ones read.  pc[k] names the statement the task runs    *)
(* next; a statement that waits for a semaphore is a guard.                *)
(***************************************************************************)
EXTENDS Integers, FiniteSets

CONSTANTS Rounds,   \* iterations of the loop in viewDidLoad (21 in the code)
          Workers   \* threads of the global queue

ASSUME SizesAssumption == /\ Rounds \in Nat \ {0}
                          /\ Workers \in Nat \ {0}

VARIABLES wrt, mutex, readCount, \* the view controller's fields
          submitted, started,    \* the queue: tasks started+1 .. submitted wait in it
          pc,                    \* each task's next statement
          printed                \* what each reader's line 49 printed (0: nothing yet)

vars == <<wrt, mutex, readCount, submitted, started, pc, printed>>

Tasks == 1 .. 2 * Rounds
IsReader(k) == k % 2 = 0
Readers == {k \in Tasks : IsReader(k)}
Writers == {k \in Tasks : ~IsReader(k)}

ReaderLabels == {"waitMutexIn", "count", "waitWrt", "signalMutexIn", "print",
                 "waitMutexOut", "uncount", "signalWrt", "signalMutexOut"}
WriterLabels == {"waitWrt", "writing"}
Labels == {"queued", "done"} \cup ReaderLabels \cup WriterLabels

Idle(k) == pc[k] \in {"queued", "done"}
Running == {k \in Tasks : ~Idle(k)}

Init ==
    /\ wrt = 1
    /\ mutex = 1
    /\ readCount = 0
    /\ submitted = 0
    /\ started = 0
    /\ pc = [k \in Tasks |-> "queued"]
    /\ printed = [k \in Tasks |-> 0]

-----------------------------------------------------------------------------
(* The main thread and the queue.                                          *)

\* One dispatch_async of the loop.
Submit ==
    /\ submitted < 2 * Rounds
    /\ submitted' = submitted + 1
    /\ UNCHANGED <<wrt, mutex, readCount, started, pc, printed>>

\* A free worker takes the oldest block of the queue.
Start ==
    /\ started < submitted
    /\ Cardinality(Running) < Workers
    /\ started' = started + 1
    /\ pc' = [pc EXCEPT ![started + 1] =
                 IF IsReader(started + 1) THEN "waitMutexIn" ELSE "waitWrt"]
    /\ UNCHANGED <<wrt, mutex, readCount, submitted, printed>>

Goto(k, label) == pc' = [pc EXCEPT ![k] = label]
At(k, label) == pc[k] = label

\* dispatch_semaphore_wait: blocks while the value is 0.
WaitMutex == mutex > 0 /\ mutex' = mutex - 1
WaitWrt == wrt > 0 /\ wrt' = wrt - 1

-----------------------------------------------------------------------------
(* A reader block.                                                         *)

ReaderWaitMutexIn(k) ==
    /\ At(k, "waitMutexIn")
    /\ WaitMutex
    /\ Goto(k, "count")
    /\ UNCHANGED <<wrt, readCount, submitted, started, printed>>

\* Mutant: the second reader, not the first, claims `wrt'.
CountOffByOne(k) ==
    /\ At(k, "count")
    /\ readCount' = readCount + 1
    /\ Goto(k, IF readCount' = 2 THEN "waitWrt" ELSE "signalMutexIn")
    /\ UNCHANGED <<wrt, mutex, submitted, started, printed>>

\* The first reader goes on to claim `wrt' for all of them.
ReaderCount(k) ==
    /\ At(k, "count")
    /\ readCount' = readCount + 1
    /\ Goto(k, IF readCount' = 1 THEN "waitWrt" ELSE "signalMutexIn")
    /\ UNCHANGED <<wrt, mutex, submitted, started, printed>>

\* Waits with `mutex' held, so later readers queue behind it.
ReaderWaitWrt(k) ==
    /\ At(k, "waitWrt")
    /\ WaitWrt
    /\ Goto(k, "signalMutexIn")
    /\ UNCHANGED <<mutex, readCount, submitted, started, printed>>

ReaderSignalMutexIn(k) ==
    /\ At(k, "signalMutexIn")
    /\ mutex' = mutex + 1
    /\ Goto(k, "print")
    /\ UNCHANGED <<wrt, readCount, submitted, started, printed>>

\* Reads readCount without `mutex': any value it has between two steps of others.
ReaderPrint(k) ==
    /\ At(k, "print")
    /\ printed' = [printed EXCEPT ![k] = readCount]
    /\ Goto(k, "waitMutexOut")
    /\ UNCHANGED <<wrt, mutex, readCount, submitted, started>>

ReaderWaitMutexOut(k) ==
    /\ At(k, "waitMutexOut")
    /\ WaitMutex
    /\ Goto(k, "uncount")
    /\ UNCHANGED <<wrt, readCount, submitted, started, printed>>

\* Mutants: the count is reset, not decremented; the last but one gives `wrt' back.
UncountResets(k) ==
    /\ At(k, "uncount")
    /\ readCount' = 0
    /\ Goto(k, "signalWrt")
    /\ UNCHANGED <<wrt, mutex, submitted, started, printed>>
UncountOffByOne(k) ==
    /\ At(k, "uncount")
    /\ readCount' = readCount - 1
    /\ Goto(k, IF readCount' = 1 THEN "signalWrt" ELSE "signalMutexOut")
    /\ UNCHANGED <<wrt, mutex, submitted, started, printed>>

\* The last reader goes on to give `wrt' back.
ReaderUncount(k) ==
    /\ At(k, "uncount")
    /\ readCount' = readCount - 1
    /\ Goto(k, IF readCount' = 0 THEN "signalWrt" ELSE "signalMutexOut")
    /\ UNCHANGED <<wrt, mutex, submitted, started, printed>>

ReaderSignalWrt(k) ==
    /\ At(k, "signalWrt")
    /\ wrt' = wrt + 1
    /\ Goto(k, "signalMutexOut")
    /\ UNCHANGED <<mutex, readCount, submitted, started, printed>>

\* Mutant: the reader returns with `mutex' held.
ReturnHoldingMutex(k) ==
    /\ At(k, "signalMutexOut")
    /\ Goto(k, "done")
    /\ UNCHANGED <<wrt, mutex, readCount, submitted, started, printed>>

ReaderSignalMutexOut(k) ==
    /\ At(k, "signalMutexOut")
    /\ mutex' = mutex + 1
    /\ Goto(k, "done")
    /\ UNCHANGED <<wrt, readCount, submitted, started, printed>>

Read(k) ==
    \/ ReaderWaitMutexIn(k)
    \/ ReaderCount(k)
    \/ ReaderWaitWrt(k)
    \/ ReaderSignalMutexIn(k)
    \/ ReaderPrint(k)
    \/ ReaderWaitMutexOut(k)
    \/ ReaderUncount(k)
    \/ ReaderSignalWrt(k)
    \/ ReaderSignalMutexOut(k)

-----------------------------------------------------------------------------
(* A writer block.                                                         *)

\* Mutant: the writer takes a unit without waiting for one.
WriteUnlocked(k) ==
    /\ At(k, "waitWrt")
    /\ Goto(k, "writing")
    /\ UNCHANGED <<wrt, mutex, readCount, submitted, started, printed>>

WriterWaitWrt(k) ==
    /\ At(k, "waitWrt")
    /\ WaitWrt
    /\ Goto(k, "writing")
    /\ UNCHANGED <<mutex, readCount, submitted, started, printed>>

WriterSignalWrt(k) ==
    /\ At(k, "writing")
    /\ wrt' = wrt + 1
    /\ Goto(k, "done")
    /\ UNCHANGED <<mutex, readCount, submitted, started, printed>>

Write(k) == WriterWaitWrt(k) \/ WriterSignalWrt(k)

-----------------------------------------------------------------------------
Finished == \A k \in Tasks : At(k, "done")

Next ==
    \/ Submit
    \/ Start
    \/ \E k \in Readers : Read(k)
    \/ \E k \in Writers : Write(k)

\* The demo ends when every block has; a stop anywhere else is a deadlock.
Terminating == Finished /\ UNCHANGED vars

Spec == Init /\ [][Next \/ Terminating]_vars

\* The process as a whole keeps executing: some thread that can step does.
FairSpec == Spec /\ WF_vars(Next)

-----------------------------------------------------------------------------
(* Properties.                                                             *)

TypeOK ==
    /\ wrt \in {0, 1}
    /\ mutex \in {0, 1}
    /\ readCount \in Nat
    /\ submitted \in 0 .. 2 * Rounds
    /\ started \in 0 .. submitted
    /\ pc \in [Tasks -> Labels]
    /\ \A k \in Readers : pc[k] \in {"queued", "done"} \cup ReaderLabels
    /\ \A k \in Writers : pc[k] \in {"queued", "done"} \cup WriterLabels
    /\ printed \in [Tasks -> Nat]

\* A reader between the two mutex sections, a writer between its wait and signal.
Reading(k) == IsReader(k) /\ pc[k] \in {"print", "waitMutexOut"}
Writing(k) == ~IsReader(k) /\ pc[k] = "writing"

\* Nobody reads or writes while a writer writes (lines 38-71: `wrt' is held by
\* one writer or by the readers together).
Exclusion ==
    \A w, k \in Tasks : Writing(w) /\ w # k => ~Writing(k) /\ ~Reading(k)

\* The number a reader prints without the lock still counts that reader itself,
\* whatever the others did between its signal (line 47) and its print (line 49).
PrintedCountsItself ==
    \A k \in Readers :
        pc[k] \in {"waitMutexOut", "uncount", "signalWrt", "signalMutexOut", "done"}
            => printed[k] \in 1 .. Cardinality(Readers)

\* The lock is back in its initial state when the last block returns: no
\* semaphore unit was lost or invented and every reader was uncounted.
Restored == Finished => wrt = 1 /\ mutex = 1 /\ readCount = 0

\* While the main thread has submitted them, every block returns, even when all
\* worker threads are blocked inside semaphore waits.
AllReturn == <>Finished

-----------------------------------------------------------------------------
(* The inductive invariant: who holds what.                                *)

\* The reader is between its wait for and its signal of `mutex'.
InMutex(k) == k \in Readers /\ pc[k] \in {"count", "waitWrt", "signalMutexIn",
                                         "uncount", "signalWrt", "signalMutexOut"}
\* The reader is included in readCount.
Counted == {k \in Readers : pc[k] \in {"waitWrt", "signalMutexIn", "print",
                                       "waitMutexOut", "uncount"}}
\* The reader is one of those for whom `wrt' is held.
Shares(k) == k \in Readers /\ pc[k] \in {"signalMutexIn", "print", "waitMutexOut",
                                        "uncount", "signalWrt"}

MutexInv ==
    /\ mutex = 0 <=> \E k \in Tasks : InMutex(k)
    /\ \A j, k \in Tasks : InMutex(j) /\ InMutex(k) => j = k

WrtInv ==
    /\ wrt = 0 <=> \E k \in Tasks : Writing(k) \/ Shares(k)
    /\ \A j, k \in Tasks : Writing(j) => ~Shares(k) /\ (Writing(k) => j = k)

CountInv ==
    /\ readCount = Cardinality(Counted)
    /\ \A k \in Readers : pc[k] = "waitWrt" => Counted = {k}
    /\ \A k \in Readers : pc[k] = "signalWrt" => Counted = {}

QueueInv == \A k \in Tasks : pc[k] = "queued" <=> k > started

\* The locks and the counter agree with where the tasks are (checked by TLC,
\* proved inductive in ReadWriteLock_proofs).
IInv == TypeOK /\ MutexInv /\ WrtInv /\ CountInv /\ QueueInv /\ PrintedCountsItself

-----------------------------------------------------------------------------
(* Implementation of the abstract lock.                                    *)

\* The task's reading or writing is behind it.
Over(k) == pc[k] \in {"uncount", "signalWrt", "signalMutexOut", "done"}

phaseBar == [k \in Readers \cup Writers |->
    IF Reading(k) \/ Writing(k) THEN "active" ELSE IF Over(k) THEN "finished" ELSE "waiting"]

Abstract == INSTANCE SharedExclusive WITH phase <- phaseBar

\* Every behaviour is one of a readers-writer lock that lets everyone through.
ImplementsSharedExclusive == Abstract!Spec
=============================================================================
