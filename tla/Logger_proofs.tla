--------------------------- MODULE Logger_proofs ---------------------------
(***************************************************************************)
(* Proofs about Logger for any number of threads and items: the types, and *)
(* that the signal to the logging thread is never lost.                    *)
(***************************************************************************)
EXTENDS Logger, SequenceTheorems, TLAPS

\* The labels between the lock and the unlock of mxChain.
CallerInChain == {"p_link", "p_start", "p_unlock"}
WriterInChain == {"w_head", "w_end", "w_unlock", "w_quiet"}

\* The labels at which the logging thread and a caller hold an item.
WriterHolds == {"w_end", "w_unlock", "w_write"}
CallerHolds == {"p_state", "p_alloc", "p_sync", "p_print", "p_flush", "p_item",
                "p_lock", "p_link", "p_start", "p_unlock", "p_trigger"}

Hands == /\ wpc \in WriterHolds => pLI \in Item
         /\ \A t \in Thread : pc[t] \in CallerHolds => own[t] \in Item

\* mxChain is held by the thread that is between its lock and its unlock, and by
\* no other.
ChainExclusive ==
  /\ wpc \in WriterInChain => "mxChain" \in locked
  /\ \A t \in Thread : pc[t] \in CallerInChain =>
       /\ "mxChain" \in locked
       /\ wpc \notin WriterInChain
       /\ \A u \in Thread : pc[u] \in CallerInChain => u = t

QuietIsEmpty == wpc = "w_quiet" => QueueStart = NULL

\* Somebody is going to unlock mxRun.
Signaller(t) == \/ pc[t] \in {"p_unlock", "p_trigger"} /\ trigger[t]
                \/ pc[t] = "s_run"

\* From the moment the logging thread has seen an empty queue, an item in the
\* queue means that the signal is given or on its way.
Signalled == wpc \in {"w_state", "w_run"} /\ QueueStart # NULL =>
               "mxRun" \notin locked \/ \E t \in Thread : Signaller(t)

IInv == TypeOK /\ Hands /\ ChainExclusive /\ QuietIsEmpty /\ Signalled

-----------------------------------------------------------------------------
\* Integer division does not leave the range of the time stamps.
LEMMA QuotientBounded ==
  ASSUME NEW a \in Nat, NEW b \in Nat \ {0}
  PROVE  a \div b \in 0 .. a
<1> DEFINE q == a \div b
<1>1. q \in Int /\ b * q <= a /\ a < b * (q + 1)
  BY Z3
<1>2. q >= 0
  BY <1>1, Z3
<1>3. q <= a
  BY <1>1, <1>2, Z3
<1> QED
  BY <1>1, <1>2, <1>3

LEMMA IntervalType ==
  ASSUME NEW time \in 0 .. MaxTime
  PROVE  Interval(time) \in 0 .. MaxTime
<1>1. CASE TimeSpan = 0
  BY <1>1, LoggerAssumption DEF Interval
<1>2. CASE TimeSpan # 0
  <2>1. time \div TimeSpan \in 0 .. time
    BY <1>2, LoggerAssumption, QuotientBounded
  <2> QED
    BY <1>2, <2>1, LoggerAssumption DEF Interval
<1> QED
  BY <1>1, <1>2

\* What the parts of IInv say of the state that the invariant is about.
LEMMA IInvImplies == IInv => TypeOK /\ NoLostSignal
BY DEF IInv, NoLostSignal, Signalled, Signaller

LEMMA IInvInit == Init => IInv
<1> SUFFICES ASSUME Init PROVE IInv
  OBVIOUS
<1> USE LoggerAssumption DEF Init
<1>1. TypeOK
  <2>1. 0 \in 0 .. MaxTime
    OBVIOUS
  <2>2. <<>> \in Seq(0 .. MaxTime) /\ <<0>> \in Seq(0 .. MaxTime)
    BY <2>1
  <2>3. fp \in Seq(0 .. MaxTime)
    BY <2>2
  <2>4. log \in Seq([item : Item, file : 0 .. MaxTime])
    OBVIOUS
  <2>5. /\ locked \subseteq {"mxRun", "mxChain"}
        /\ Time \in [Item -> 0 .. MaxTime]
        /\ LastTime \in 0 .. MaxTime /\ clock \in 0 .. MaxTime
        /\ shutdowns \in 0 .. MaxShutdowns
    BY <2>1
  <2>6. /\ state \in {"normal", "shutting", "dead"}
        /\ wpc \in WriterLabels /\ pLI \in Item \cup {NULL}
        /\ accepted \subseteq Item /\ shut \in BOOLEAN
    BY DEF WriterLabels
  <2>7. /\ QueueStart \in Item \cup {NULL} /\ QueueEnd \in Item \cup {NULL}
        /\ n \in [Item -> Item \cup {NULL}]
        /\ heap \in [Item -> {"unused", "live", "freed"}]
        /\ text \subseteq Item /\ closed \in BOOLEAN
    OBVIOUS
  <2>8. /\ pc \in [Thread -> Labels]
        /\ own \in [Thread -> Item \cup {NULL}]
        /\ call \in [Thread -> {"none", "log_printf", "log_shutdown"}]
        /\ trigger \in [Thread -> BOOLEAN]
    BY DEF Labels
  <2> QED
    BY <2>3, <2>4, <2>5, <2>6, <2>7, <2>8 DEF TypeOK
<1>2. Hands
  BY DEF Hands, WriterHolds, CallerHolds
<1>3. ChainExclusive
  BY DEF ChainExclusive, WriterInChain, CallerInChain
<1>4. QuietIsEmpty /\ Signalled
  BY DEF QuietIsEmpty, Signalled
<1> QED
  BY <1>1, <1>2, <1>3, <1>4 DEF IInv

-----------------------------------------------------------------------------
\* The types survive a step of the logging thread,
LEMMA WriterType ==
  ASSUME IInv, log_thread
  PROVE  TypeOK'
<1> USE DEF IInv, TypeOK, GoW, WriterLabels, LockMutex, UnlockMutex,
            UnchangedByWriter, queueVars, memoryVars, threadVars, history
<1>1. CASE WaitRun
  BY <1>1 DEF log_thread, WaitRun
<1>2. CASE LockChain
  BY <1>2 DEF log_thread, LockChain
<1>3. CASE TakeFirst
  BY <1>3 DEF log_thread, TakeFirst
<1>4. CASE TakeLast
  BY <1>4 DEF log_thread, TakeLast
<1>5. CASE UnlockChain
  BY <1>5 DEF log_thread, UnlockChain
<1>6. CASE WriteItem
  <2>1. pLI \in Item /\ Time[pLI] \in 0 .. MaxTime
    BY <1>6 DEF WriteItem, Hands, WriterHolds
  <2>2. Interval(Time[pLI]) \in 0 .. MaxTime
    BY <2>1, IntervalType
  <2>3. fp' \in Seq(0 .. MaxTime)
    <3>1. <<Time[pLI]>> \in Seq(0 .. MaxTime) /\ <<>> \in Seq(0 .. MaxTime)
      BY <2>1
    <3>2. fp' \in {<<Time[pLI]>>, <<>>, fp}
      BY <1>6 DEF WriteItem
    <3> QED
      BY <3>1, <3>2
  <2>4. LastTime' \in 0 .. MaxTime
    BY <1>6, <2>2 DEF WriteItem
  <2>5. log' \in Seq([item : Item, file : 0 .. MaxTime])
    <3>1. CASE fp' = <<>>
      BY <3>1, <1>6 DEF WriteItem
    <3>2. CASE fp' # <<>>
      <4>1. 1 \in 1 .. Len(fp')
        BY <3>2, <2>3, EmptySeq
      <4>2. fp'[1] \in 0 .. MaxTime
        BY <4>1, <2>3, ElementOfSeq
      <4> QED
        BY <4>2, <3>2, <2>1, <1>6 DEF WriteItem
    <3> QED
      BY <3>1, <3>2
  <2>6. heap' \in [Item -> {"unused", "live", "freed"}]
    BY <1>6 DEF WriteItem
  <2> QED
    BY <1>6, <2>3, <2>4, <2>5, <2>6 DEF log_thread, WriteItem
<1>7. CASE SeeState
  BY <1>7 DEF log_thread, SeeState
<1>8. CASE SetDead
  BY <1>8 DEF log_thread, SetDead
<1>9. CASE CloseFile
  BY <1>9 DEF log_thread, CloseFile
<1> QED
  BY <1>1, <1>2, <1>3, <1>4, <1>5, <1>6, <1>7, <1>8, <1>9 DEF log_thread

\* and of a caller.
LEMMA CallerType ==
  ASSUME IInv, NEW t \in Thread, Caller(t)
  PROVE  TypeOK'
<1> USE DEF IInv, TypeOK, Go, Labels, LockMutex, UnlockMutex, UnchangedByCaller,
            Unaccepting, Return, queueVars, memoryVars, fileVars, threadVars
<1>1. CASE CallPrintf(t) \/ CallShutdown(t)
  <2>1. PICK i \in Item, f \in {"log_printf", "log_shutdown"} :
          Call(t, f, i) /\ (f = "log_shutdown" => shutdowns < MaxShutdowns)
    BY <1>1 DEF CallPrintf, CallShutdown
  <2>2. /\ pc' \in [Thread -> Labels]
        /\ own' \in [Thread -> Item \cup {NULL}]
        /\ call' \in [Thread -> {"none", "log_printf", "log_shutdown"}]
    BY <2>1 DEF Call
  <2>3. shutdowns' \in 0 .. MaxShutdowns
    BY <2>1, LoggerAssumption DEF Call
  <2> QED
    BY <2>1, <2>2, <2>3 DEF Caller, Call
<1>2. CASE CheckState(t)
  <2>1. pc' \in [Thread -> Labels] /\ own' \in [Thread -> Item \cup {NULL}]
    BY <1>2 DEF CheckState
  <2> QED
    BY <1>2, <2>1 DEF Caller, CheckState
<1>3. CASE Allocate(t)
  <2>1. pc' \in [Thread -> Labels] /\ own' \in [Thread -> Item \cup {NULL}]
    BY <1>3 DEF Allocate
  <2>2. text' \subseteq Item
    BY <1>3 DEF Allocate, Hands, CallerHolds
  <2> QED
    BY <1>3, <2>1, <2>2 DEF Caller, Allocate
<1>4. CASE AllocateItem(t)
  <2>1. pc' \in [Thread -> Labels] /\ own' \in [Thread -> Item \cup {NULL}]
    BY <1>4 DEF AllocateItem
  <2>2. Time' \in [Item -> 0 .. MaxTime]
    BY <1>4 DEF AllocateItem
  <2>3. heap' \in [Item -> {"unused", "live", "freed"}]
    BY <1>4 DEF AllocateItem
  <2>4. trigger' \in [Thread -> BOOLEAN] /\ text' \subseteq Item
    BY <1>4 DEF AllocateItem
  <2> QED
    BY <1>4, <2>1, <2>2, <2>3, <2>4 DEF Caller, AllocateItem
<1>5. CASE DevNull(t)
  <2>1. pc' \in [Thread -> Labels] /\ own' \in [Thread -> Item \cup {NULL}]
    BY <1>5 DEF DevNull
  <2>2. call' \in [Thread -> {"none", "log_printf", "log_shutdown"}]
    BY <1>5 DEF DevNull
  <2>3. own[t] \in Item
    BY <1>5 DEF DevNull, Hands, CallerHolds
  <2>4. accepted' \subseteq Item /\ shut' \in BOOLEAN
    BY <1>5, <2>3 DEF DevNull
  <2> QED
    BY <1>5, <2>1, <2>2, <2>4 DEF Caller, DevNull
<1>6. CASE TestFile(t)
  BY <1>6 DEF Caller, TestFile
<1>7. CASE PrintSync(t)
  <2>1. own[t] \in Item
    BY <1>7 DEF PrintSync, Hands, CallerHolds
  <2>2. log' \in Seq([item : Item, file : 0 .. MaxTime])
    <3>1. CASE fp = <<>> \/ closed
      BY <3>1, <1>7 DEF PrintSync
    <3>2. CASE ~ (fp = <<>> \/ closed)
      <4>1. 1 \in 1 .. Len(fp)
        BY <3>2, EmptySeq
      <4>2. fp[1] \in 0 .. MaxTime
        BY <4>1, ElementOfSeq
      <4> QED
        BY <4>2, <3>2, <2>1, <1>7 DEF PrintSync
    <3> QED
      BY <3>1, <3>2
  <2> QED
    BY <1>7, <2>1, <2>2 DEF Caller, PrintSync
<1>8. CASE FlushSync(t)
  BY <1>8 DEF Caller, FlushSync, Hands, CallerHolds
<1>9. CASE Enqueue(t)
  BY <1>9 DEF Caller, Enqueue
<1>10. CASE Link(t)
  BY <1>10 DEF Caller, Link
<1>11. CASE Start(t)
  BY <1>11 DEF Caller, Start
<1>12. CASE Unlock(t)
  BY <1>12 DEF Caller, Unlock
<1>13. CASE Trigger(t)
  BY <1>13 DEF Caller, Trigger, Hands, CallerHolds
<1>14. CASE ShutdownSync(t)
  <2>1. <<>> \in Seq(0 .. MaxTime)
    OBVIOUS
  <2> QED
    BY <1>14, <2>1 DEF Caller, ShutdownSync
<1>15. CASE SetShutting(t)
  BY <1>15 DEF Caller, SetShutting
<1>16. CASE ShutdownTrigger(t)
  BY <1>16 DEF Caller, ShutdownTrigger
<1> QED
  BY <1>1, <1>2, <1>3, <1>4, <1>5, <1>6, <1>7, <1>8, <1>9, <1>10, <1>11, <1>12,
     <1>13, <1>14, <1>15, <1>16
  DEF Caller, Proceed

-----------------------------------------------------------------------------
\* How a caller changes what the other parts of IInv depend on, whichever of its
\* statements it executes.
LEMMA CallerEffect ==
  ASSUME IInv, NEW t \in Thread, Caller(t)
  PROVE  /\ wpc' = wpc /\ pLI' = pLI
         /\ \A u \in Thread \ {t} : /\ pc'[u] = pc[u]
                                    /\ own'[u] = own[u]
                                    /\ trigger'[u] = trigger[u]
         /\ pc'[t] \in CallerHolds =>
              (own'[t] = own[t] /\ pc[t] \in CallerHolds) \/ own'[t] \in Item
<1> USE DEF IInv, TypeOK, Go, Labels, UnchangedByCaller, Return, threadVars,
            CallerHolds
<1>1. CASE CallPrintf(t) \/ CallShutdown(t)
  BY <1>1 DEF Caller, CallPrintf, CallShutdown, Call
<1>2. CASE CheckState(t) \/ DevNull(t) \/ Allocate(t) \/ AllocateItem(t)
  BY <1>2 DEF Caller, CheckState, DevNull, Allocate, AllocateItem
<1>3. CASE TestFile(t) \/ PrintSync(t) \/ FlushSync(t)
  BY <1>3 DEF Caller, TestFile, PrintSync, FlushSync
<1>4. CASE Enqueue(t) \/ Link(t) \/ Start(t) \/ Unlock(t) \/ Trigger(t)
  BY <1>4 DEF Caller, Enqueue, Link, Start, Unlock, Trigger
<1>5. CASE ShutdownSync(t) \/ SetShutting(t) \/ ShutdownTrigger(t)
  BY <1>5 DEF Caller, ShutdownSync, SetShutting, ShutdownTrigger
<1> QED
  BY <1>1, <1>2, <1>3, <1>4, <1>5 DEF Caller, Proceed

LEMMA HandsNext ==
  ASSUME IInv, [Next]_vars
  PROVE  Hands'
<1> USE DEF IInv, TypeOK, Hands
<1>1. CASE UNCHANGED vars
  BY <1>1 DEF vars, writerVars, threadVars
<1>2. CASE Tick
  BY <1>2 DEF Tick, writerVars, threadVars
<1>3. ASSUME NEW t \in Thread, Caller(t)
      PROVE  Hands'
  BY <1>3, CallerEffect
<1>4. CASE log_thread
  <2> USE DEF log_thread, GoW, WriterHolds, UnchangedByWriter, threadVars
  <2>1. CASE WaitRun \/ LockChain \/ UnlockChain
    BY <1>4, <2>1 DEF WaitRun, LockChain, UnlockChain
  <2>2. CASE TakeFirst \/ TakeLast
    BY <1>4, <2>2 DEF TakeFirst, TakeLast
  <2>3. CASE WriteItem \/ SeeState \/ SetDead \/ CloseFile
    BY <1>4, <2>3 DEF WriteItem, SeeState, SetDead, CloseFile
  <2> QED
    BY <1>4, <2>1, <2>2, <2>3
<1> QED
  BY <1>1, <1>2, <1>3, <1>4 DEF Next

LEMMA ChainNext ==
  ASSUME IInv, [Next]_vars
  PROVE  ChainExclusive'
<1> USE DEF IInv, TypeOK, ChainExclusive, CallerInChain, WriterInChain,
            LockMutex, UnlockMutex
<1>1. CASE UNCHANGED vars
  BY <1>1 DEF vars, writerVars
<1>2. CASE Tick
  BY <1>2 DEF Tick, writerVars
<1>3. ASSUME NEW t \in Thread, Caller(t)
      PROVE  ChainExclusive'
  <2>1. wpc' = wpc /\ \A u \in Thread \ {t} : pc'[u] = pc[u]
    BY <1>3, CallerEffect
  <2> USE DEF Go, Return
  <2>2. CASE Enqueue(t)
    BY <2>1, <2>2 DEF Enqueue
  <2>3. CASE Link(t)
    BY <2>1, <2>3 DEF Link
  <2>4. CASE Start(t)
    BY <2>1, <2>4 DEF Start
  <2>5. CASE Unlock(t)
    BY <2>1, <2>5 DEF Unlock
  <2>6. ASSUME ~ (Enqueue(t) \/ Link(t) \/ Start(t) \/ Unlock(t))
        PROVE  ChainExclusive'
    <3>1. /\ pc'[t] \notin CallerInChain
          /\ "mxChain" \in locked => "mxChain" \in locked'
      <4>1. CASE CallPrintf(t) \/ CallShutdown(t)
        BY <4>1 DEF CallPrintf, CallShutdown, Call
      <4>2. CASE CheckState(t) \/ DevNull(t)
        BY <4>2 DEF CheckState, DevNull
      <4>3. CASE Allocate(t) \/ AllocateItem(t)
        BY <4>3 DEF Allocate, AllocateItem
      <4>4. CASE TestFile(t) \/ PrintSync(t) \/ FlushSync(t)
        BY <4>4 DEF TestFile, PrintSync, FlushSync
      <4>5. CASE Trigger(t) \/ ShutdownTrigger(t)
        BY <4>5 DEF Trigger, ShutdownTrigger
      <4>6. CASE ShutdownSync(t) \/ SetShutting(t)
        BY <4>6 DEF ShutdownSync, SetShutting
      <4> QED
        BY <1>3, <2>6, <4>1, <4>2, <4>3, <4>4, <4>5, <4>6 DEF Caller, Proceed
    <3> QED
      BY <2>1, <3>1
  <2> QED
    BY <2>2, <2>3, <2>4, <2>5, <2>6
<1>4. CASE log_thread
  <2> USE DEF log_thread, GoW, UnchangedByWriter
  <2>1. CASE WaitRun \/ LockChain \/ UnlockChain
    BY <1>4, <2>1 DEF WaitRun, LockChain, UnlockChain
  <2>2. CASE TakeFirst \/ TakeLast
    BY <1>4, <2>2 DEF TakeFirst, TakeLast
  <2>3. CASE WriteItem \/ SeeState \/ SetDead \/ CloseFile
    BY <1>4, <2>3 DEF WriteItem, SeeState, SetDead, CloseFile
  <2> QED
    BY <1>4, <2>1, <2>2, <2>3
<1> QED
  BY <1>1, <1>2, <1>3, <1>4 DEF Next

\* The start of the queue changes in the hands of the holder of mxChain only.
LEMMA QuietNext ==
  ASSUME IInv, [Next]_vars
  PROVE  QuietIsEmpty'
<1> USE DEF IInv, QuietIsEmpty, ChainExclusive, CallerInChain, WriterInChain,
            queueVars
<1>1. CASE UNCHANGED vars
  BY <1>1 DEF vars, writerVars
<1>2. CASE Tick
  BY <1>2 DEF Tick, writerVars
<1>3. ASSUME NEW t \in Thread, Caller(t)
      PROVE  QuietIsEmpty'
  <2>1. wpc' = wpc
    BY <1>3 DEF Caller, UnchangedByCaller
  <2>2. CASE Start(t)
    BY <2>1, <2>2 DEF Start, Go
  <2>3. CASE ~Start(t)
    BY <1>3, <2>1, <2>3
    DEF Caller, Proceed, CallPrintf, CallShutdown, Call, CheckState, DevNull,
        Allocate, AllocateItem, TestFile, PrintSync, FlushSync, Enqueue, Link,
        Unlock, Trigger, ShutdownSync, SetShutting, ShutdownTrigger
  <2> QED
    BY <2>2, <2>3
<1>4. CASE log_thread
  BY <1>4
  DEF log_thread, GoW, WaitRun, LockChain, TakeFirst, TakeLast, UnlockChain,
      WriteItem, SeeState, SetDead, CloseFile
<1> QED
  BY <1>1, <1>2, <1>3, <1>4 DEF Next

LEMMA SignalledNext ==
  ASSUME IInv, [Next]_vars
  PROVE  Signalled'
<1> USE DEF IInv, TypeOK, Signalled, Signaller, queueVars, threadVars
<1>1. CASE UNCHANGED vars
  BY <1>1 DEF vars, writerVars
<1>2. CASE Tick
  BY <1>2 DEF Tick, writerVars
<1>3. ASSUME NEW t \in Thread, Caller(t)
      PROVE  Signalled'
  <2>1. wpc' = wpc /\ \A u \in Thread \ {t} : Signaller(u) => Signaller(u)'
    BY <1>3, CallerEffect
  <2> USE DEF Go, Return, LockMutex, UnlockMutex
  <2>2. CASE CallPrintf(t) \/ CallShutdown(t)
    BY <2>1, <2>2 DEF CallPrintf, CallShutdown, Call
  <2>3. CASE CheckState(t) \/ DevNull(t) \/ Allocate(t) \/ AllocateItem(t)
    BY <2>1, <2>3 DEF CheckState, DevNull, Allocate, AllocateItem
  <2>4. CASE TestFile(t) \/ PrintSync(t) \/ FlushSync(t)
    BY <2>1, <2>4 DEF TestFile, PrintSync, FlushSync
  <2>5. CASE Enqueue(t) \/ Link(t) \/ Unlock(t)
    BY <2>1, <2>5 DEF Enqueue, Link, Unlock, Unaccepting
  <2>6. CASE Start(t)
    BY <2>1, <2>6 DEF Start
  <2>7. CASE Trigger(t)
    BY <2>1, <2>7 DEF Trigger
  <2>8. CASE ShutdownSync(t) \/ SetShutting(t)
    BY <2>1, <2>8 DEF ShutdownSync, SetShutting
  <2>9. CASE ShutdownTrigger(t)
    BY <2>1, <2>9 DEF ShutdownTrigger
  <2> QED
    BY <1>3, <2>2, <2>3, <2>4, <2>5, <2>6, <2>7, <2>8, <2>9 DEF Caller, Proceed
<1>4. CASE log_thread
  <2> USE DEF log_thread, GoW, UnchangedByWriter
  <2>1. CASE WaitRun
    BY <1>4, <2>1 DEF WaitRun
  <2>2. CASE UnlockChain
    BY <1>4, <2>2 DEF UnlockChain, UnlockMutex, QuietIsEmpty
  <2>3. CASE LockChain \/ TakeFirst \/ TakeLast \/ WriteItem
    BY <1>4, <2>3 DEF LockChain, TakeFirst, TakeLast, WriteItem
  <2>4. CASE SeeState
    BY <1>4, <2>4 DEF SeeState
  <2>5. CASE SetDead \/ CloseFile
    BY <1>4, <2>5 DEF SetDead, CloseFile
  <2> QED
    BY <1>4, <2>1, <2>2, <2>3, <2>4, <2>5
<1> QED
  BY <1>1, <1>2, <1>3, <1>4 DEF Next

LEMMA TypeNext ==
  ASSUME IInv, [Next]_vars
  PROVE  TypeOK'
<1>1. CASE UNCHANGED vars
  BY <1>1
  DEF IInv, TypeOK, vars, queueVars, memoryVars, writerVars, threadVars, history
<1>2. CASE Tick
  BY <1>2, LoggerAssumption
  DEF IInv, TypeOK, Tick, queueVars, memoryVars, writerVars, threadVars
<1> QED
  BY <1>1, <1>2, WriterType, CallerType DEF Next

-----------------------------------------------------------------------------
\* IInv is an invariant of the logger.
THEOREM Inductive == Spec => []IInv
<1>1. IInv /\ [Next]_vars => IInv'
  BY TypeNext, HandsNext, ChainNext, QuietNext, SignalledNext DEF IInv
<1> QED
  BY <1>1, IInvInit, PTL DEF Spec

\* The state stays in its types for any number of threads and items.
THEOREM TypeCorrect == Spec => []TypeOK
BY Inductive, IInvImplies, PTL

\* The logging thread never sleeps over a queue that nobody is going to signal.
THEOREM SignalKept == Spec => []NoLostSignal
BY Inductive, IInvImplies, PTL
=============================================================================
