------------------------------- MODULE Logger -------------------------------
(***************************************************************************)
(* The logger of logger.c.  Any number of threads call log_printf and      *)
(* log_shutdown; an asynchronous log has a thread of its own, log_thread,  *)
(* that writes what they put on the queue.  One step per mutex call, per   *)
(* access of the queue and per call on the file that another thread may    *)
(* close.  One step each are: log_state and the store of a state, alone in *)
(* their critical sections of mxState, and the write of an item, whose     *)
(* file only the logging thread touches.                                   *)
(*                                                                         *)
(* Writing to, or closing, a FILE that is closed or NULL is undefined.     *)
(* Here the call does nothing; a process that dies of it stops, which no   *)
(* safety property notices.                                                *)
(*                                                                         *)
(* mxRun is a signal: it is locked by default and unlocked by whoever has  *)
(* something for the logging thread to do.                                 *)
(***************************************************************************)
EXTENDS Integers, Sequences, FiniteSets, Mutex

CONSTANTS
  Thread,        \* the threads that use the log
  Item,          \* the log items: bounds the number of calls
  NULL,
  Types,         \* the logs to try: "normal" and "synchronous" as iLogType, and
                 \* "none" for a log that was given no file name
  TimeSpan,      \* the time interval after which the file changes, 0 for never
  MaxTime,       \* bound: the last time stamp
  MaxShutdowns,  \* bound: calls of log_shutdown
  MayFail        \* whether allocations and fopen may fail

ASSUME LoggerAssumption ==
  /\ IsFiniteSet(Thread) /\ IsFiniteSet(Item)
  /\ NULL \notin Item
  /\ Types \subseteq {"normal", "synchronous", "none"}
  /\ TimeSpan \in Nat /\ MaxTime \in Nat /\ MaxShutdowns \in Nat
  /\ MayFail \in BOOLEAN

VARIABLES
  type,        \* pLOG->type, or that pszFileName is NULL; never changed
  state,       \* pLOG->state
  QueueStart, QueueEnd,
  n,           \* the field n of each item
  Time,        \* the field Time of each item
  heap,        \* whether the memory of an item is in use
  text,        \* the items whose pszMessage is allocated
  fp,          \* pLOG->fp: <<t>> for the file of time t, <<>> for NULL
  closed,      \* the FILE of fp is closed, and fp still points to it
  LastTime,
  wpc, pLI,    \* the logging thread: its next statement, and its local pLI
  pc,          \* pc[t]: the statement that thread t executes next
  own,         \* own[t]: the item of thread t, its pLI or its message
  call,        \* call[t]: the function that thread t called
  trigger,     \* trigger[t]: the local of log_printf
  clock,       \* time()
  shutdowns,   \* the number of calls of log_shutdown so far
  log,         \* the lines in the files, as written
  accepted,    \* the items for which log_printf returned 0
  shut         \* whether a log_shutdown returned

queueVars == <<QueueStart, QueueEnd, n>>
memoryVars == <<heap, text>>
fileVars == <<fp, closed>>
threadVars == <<own, call, trigger>>
writerVars == <<wpc, pLI, fp, LastTime, log>>
history == <<clock, shutdowns, accepted, shut>>
vars == <<locked, type, state, queueVars, Time, memoryVars, closed, writerVars,
          pc, threadVars, history>>

WriterLabels == {"w_run", "w_lock", "w_head", "w_end", "w_unlock", "w_write",
                 "w_quiet", "w_state", "w_dead", "w_close", "ended"}

Labels == {"idle", "p_state", "p_alloc", "p_sync", "p_print", "p_flush",
           "p_item", "p_lock", "p_link", "p_start", "p_unlock", "p_trigger",
           "s_type", "s_run", "s_close", "s_null"}

TypeOK ==
  /\ locked \subseteq {"mxRun", "mxChain"}
  /\ type \in Types /\ state \in {"normal", "shutting", "dead"}
  /\ QueueStart \in Item \cup {NULL} /\ QueueEnd \in Item \cup {NULL}
  /\ n \in [Item -> Item \cup {NULL}]
  /\ Time \in [Item -> 0 .. MaxTime]
  /\ heap \in [Item -> {"unused", "live", "freed"}]
  /\ text \subseteq Item
  /\ fp \in Seq(0 .. MaxTime) /\ closed \in BOOLEAN
  /\ LastTime \in 0 .. MaxTime
  /\ wpc \in WriterLabels /\ pLI \in Item \cup {NULL}
  /\ pc \in [Thread -> Labels]
  /\ own \in [Thread -> Item \cup {NULL}]
  /\ call \in [Thread -> {"none", "log_printf", "log_shutdown"}]
  /\ trigger \in [Thread -> BOOLEAN]
  /\ clock \in 0 .. MaxTime /\ shutdowns \in 0 .. MaxShutdowns
  /\ log \in Seq([item : Item, file : 0 .. MaxTime])
  /\ accepted \subseteq Item /\ shut \in BOOLEAN

\* log_init.  A synchronous log may have failed to open its file, and go on.
Init ==
  /\ locked = {"mxRun"}
  /\ type \in Types /\ state = "normal"
  /\ QueueStart = NULL /\ QueueEnd = NULL
  /\ n = [i \in Item |-> NULL]
  /\ Time = [i \in Item |-> 0]
  /\ heap = [i \in Item |-> "unused"]
  /\ text = {}
  /\ \/ type = "synchronous" /\ fp = <<0>>
     \/ (type = "synchronous" => MayFail) /\ fp = <<>>
  /\ closed = FALSE
  /\ LastTime = 0
  /\ wpc = (IF type = "normal" THEN "w_run" ELSE "ended") /\ pLI = NULL
  /\ pc = [t \in Thread |-> "idle"]
  /\ own = [t \in Thread |-> NULL]
  /\ call = [t \in Thread |-> "none"]
  /\ trigger = [t \in Thread |-> FALSE]
  /\ clock = 0 /\ shutdowns = 0
  /\ log = <<>> /\ accepted = {} /\ shut = FALSE

-----------------------------------------------------------------------------
\* log_thread

GoW(from, to) == wpc = from /\ wpc' = to

UnchangedByWriter == UNCHANGED <<type, closed, pc, threadVars, Time, history>>

WaitRun == /\ GoW("w_run", "w_lock")
           /\ LockMutex("mxRun")
           /\ UNCHANGED <<state, queueVars, memoryVars, pLI, fp, LastTime, log>>

LockChain == /\ GoW("w_lock", "w_head")
             /\ LockMutex("mxChain")
             /\ UNCHANGED <<state, queueVars, memoryVars, pLI, fp, LastTime, log>>

\* The queue is empty, or its first item is taken.
TakeFirst ==
  /\ wpc = "w_head"
  /\ IF QueueStart = NULL
     THEN /\ wpc' = "w_quiet"
          /\ UNCHANGED <<pLI, QueueStart>>
     ELSE /\ wpc' = "w_end"
          /\ pLI' = QueueStart
          /\ QueueStart' = n[QueueStart]
  /\ UNCHANGED <<locked, state, QueueEnd, n, memoryVars, fp, LastTime, log>>

\* Bug: the end of the queue still points to the item that is taken.
TakeLastKeepsEnd == /\ GoW("w_end", "w_unlock")
                    /\ UNCHANGED <<locked, state, queueVars, memoryVars, pLI, fp,
                                   LastTime, log>>

TakeLast == /\ GoW("w_end", "w_unlock")
            /\ QueueEnd' = IF QueueStart = NULL THEN NULL ELSE QueueEnd
            /\ UNCHANGED <<locked, state, QueueStart, n, memoryVars, pLI, fp, LastTime,
                           log>>

UnlockChain == /\ GoW("w_unlock", "w_write") \/ GoW("w_quiet", "w_state")
               /\ UnlockMutex("mxChain")
               /\ UNCHANGED <<state, queueVars, memoryVars, pLI, fp, LastTime, log>>

\* Bug: the interval is rounded up.
IntervalUp(time) == IF TimeSpan = 0 THEN 0 ELSE (time \div TimeSpan) + 1

Interval(time) == IF TimeSpan = 0 THEN 0 ELSE time \div TimeSpan

\* Bug: the file is changed only when none is open.
NeedsFileOnce(time) == fp = <<>>

\* No file is open, or the item is of another time interval than the last one.
NeedsFile(time) ==
  \/ fp = <<>>
  \/ TimeSpan # 0 /\ LastTime # Interval(time)

\* The item is written to its file and released.
WriteItem ==
  /\ GoW("w_write", "w_lock")
  /\ LET time == Time[pLI]
     IN /\ IF NeedsFile(time)
           THEN /\ fp' = <<time>> \/ (MayFail /\ fp' = <<>>)
                /\ LastTime' = IF TimeSpan # 0 THEN Interval(time) ELSE LastTime
           ELSE UNCHANGED <<fp, LastTime>>
        /\ log' = IF fp' = <<>> THEN log
                  ELSE Append(log, [item |-> pLI, file |-> fp'[1]])
  /\ heap' = [heap EXCEPT ![pLI] = "freed"]
  /\ text' = text \ {pLI}
  /\ pLI' = NULL
  /\ UNCHANGED <<locked, state, queueVars>>

\* The queue was empty: is the log shutting down?
SeeState == /\ GoW("w_state", IF state = "shutting" THEN "w_dead" ELSE "w_run")
            /\ UNCHANGED <<locked, state, queueVars, memoryVars, pLI, fp, LastTime, log>>

SetDead == /\ GoW("w_dead", "w_close")
           /\ state' = "dead"
           /\ UNCHANGED <<locked, queueVars, memoryVars, pLI, fp, LastTime, log>>

CloseFile == /\ GoW("w_close", "ended")
             /\ fp' = <<>>
             /\ UNCHANGED <<locked, state, queueVars, memoryVars, pLI, LastTime, log>>

log_thread == /\ \/ WaitRun \/ LockChain \/ TakeFirst \/ TakeLast \/ UnlockChain
                 \/ WriteItem \/ SeeState \/ SetDead \/ CloseFile
              /\ UnchangedByWriter

-----------------------------------------------------------------------------
\* log_printf and log_shutdown in thread t.

Go(t, from, to) == pc[t] = from /\ pc' = [pc EXCEPT ![t] = to]

UnchangedByCaller == UNCHANGED <<type, wpc, pLI, LastTime>>

Call(t, f, i) ==
  /\ Go(t, "idle", "p_state")
  /\ heap[i] = "unused" /\ \A u \in Thread : own[u] # i
  /\ i \notin accepted
  /\ own' = [own EXCEPT ![t] = i]
  /\ call' = [call EXCEPT ![t] = f]
  /\ shutdowns' = IF f = "log_shutdown" THEN shutdowns + 1 ELSE shutdowns
  /\ UNCHANGED <<locked, state, queueVars, memoryVars, Time, trigger, fileVars, log, clock,
                 accepted, shut>>

\* Any thread of the program writes to the log or shuts it down.
CallPrintf(t) == \E i \in Item : Call(t, "log_printf", i)

CallShutdown(t) == /\ shutdowns < MaxShutdowns
                   /\ \E i \in Item : Call(t, "log_shutdown", i)

\* log_printf returns: to its caller, or into log_shutdown.
Return(t, from) ==
  /\ Go(t, from, IF call[t] = "log_shutdown" THEN "s_type" ELSE "idle")
  /\ own' = [own EXCEPT ![t] = NULL]
  /\ UNCHANGED <<call, shut>>

Unaccepting == UNCHANGED <<accepted, log, memoryVars>>

\* log_printf asks log_state whether items are accepted.
CheckState(t) ==
  /\ \/ /\ type # "none" /\ (type = "normal" => state = "normal")
        /\ Go(t, "p_state", "p_alloc")
        /\ UNCHANGED <<own, call, shut>>
     \/ /\ type = "normal" /\ state # "normal"
        /\ Return(t, "p_state")
  /\ Unaccepting
  /\ UNCHANGED <<locked, state, queueVars, Time, trigger, fileVars, clock,
                 shutdowns>>

\* Without a file name both functions return 0 at once.
DevNull(t) ==
  /\ type = "none"
  /\ Go(t, "p_state", "idle")
  /\ own' = [own EXCEPT ![t] = NULL]
  /\ call' = [call EXCEPT ![t] = "none"]
  /\ IF call[t] = "log_shutdown"
     THEN shut' = TRUE /\ UNCHANGED accepted
     ELSE accepted' = accepted \cup {own[t]} /\ UNCHANGED shut
  /\ UNCHANGED <<locked, state, queueVars, memoryVars, Time, trigger, fileVars,
                 log, clock, shutdowns>>

\* The memory of the message.
Allocate(t) ==
  /\ \/ /\ Go(t, "p_alloc", IF type = "synchronous" THEN "p_sync" ELSE "p_item")
        /\ text' = text \cup {own[t]}
        /\ UNCHANGED <<own, call, shut>>
     \/ /\ MayFail
        /\ Return(t, "p_alloc")
        /\ UNCHANGED text
  /\ UNCHANGED <<locked, state, queueVars, heap, Time, trigger, fileVars, log,
                 clock, shutdowns, accepted>>

\* Bug: the message is not given back when there is no memory for the item.
AllocateItemLeaks(t) ==
  /\ \/ /\ Go(t, "p_item", "p_lock")
        /\ heap' = [heap EXCEPT ![own[t]] = "live"]
        /\ Time' = [Time EXCEPT ![own[t]] = clock]
        /\ UNCHANGED <<text, own, call, shut>>
     \/ /\ MayFail
        /\ Return(t, "p_item")
        /\ UNCHANGED <<text, heap, Time>>
  /\ trigger' = [trigger EXCEPT ![t] = FALSE]
  /\ UNCHANGED <<locked, state, queueVars, fileVars, log, clock, shutdowns,
                 accepted>>

\* The memory of the item, which is then filled, the time included.
AllocateItem(t) ==
  /\ \/ /\ Go(t, "p_item", "p_lock")
        /\ heap' = [heap EXCEPT ![own[t]] = "live"]
        /\ Time' = [Time EXCEPT ![own[t]] = clock]
        /\ UNCHANGED <<text, own, call, shut>>
     \/ /\ MayFail
        /\ Return(t, "p_item")
        /\ text' = text \ {own[t]}
        /\ UNCHANGED <<heap, Time>>
  /\ trigger' = [trigger EXCEPT ![t] = FALSE]
  /\ UNCHANGED <<locked, state, queueVars, fileVars, log, clock, shutdowns,
                 accepted>>

\* A synchronous log: is a file open?
TestFile(t) ==
  /\ Go(t, "p_sync", IF fp = <<>> THEN "p_flush" ELSE "p_print")
  /\ Unaccepting
  /\ UNCHANGED <<locked, state, queueVars, Time, threadVars, fileVars, clock,
                 shutdowns, shut>>

\* If so the message is written, to what is fp by now.
PrintSync(t) ==
  /\ Go(t, "p_print", "p_flush")
  /\ log' = IF fp = <<>> \/ closed THEN log
            ELSE Append(log, [item |-> own[t], file |-> fp[1]])
  /\ UNCHANGED <<locked, state, queueVars, memoryVars, Time, threadVars, fileVars,
                 clock, shutdowns, accepted, shut>>

\* The file is flushed, the message released, and log_printf returns 0.
FlushSync(t) ==
  /\ Return(t, "p_flush")
  /\ text' = text \ {own[t]}
  /\ accepted' = accepted \cup {own[t]}
  /\ UNCHANGED <<locked, state, queueVars, heap, Time, trigger, fileVars, log,
                 clock, shutdowns>>

\* Bug: the queue is not locked.
EnqueueUnlocked(t) ==
  /\ Go(t, "p_lock", "p_link")
  /\ UNCHANGED locked
  /\ Unaccepting
  /\ UNCHANGED <<state, queueVars, Time, threadVars, fileVars, clock, shutdowns, shut>>

Enqueue(t) ==
  /\ Go(t, "p_lock", "p_link")
  /\ LockMutex("mxChain")
  /\ Unaccepting
  /\ UNCHANGED <<state, queueVars, Time, threadVars, fileVars, clock, shutdowns, shut>>

\* The item becomes the end of the queue,
Link(t) ==
  /\ Go(t, "p_link", "p_start")
  /\ n' = [i \in Item |-> IF i = own[t] THEN NULL
                          ELSE IF i = QueueEnd THEN own[t] ELSE n[i]]
  /\ QueueEnd' = own[t]
  /\ Unaccepting
  /\ UNCHANGED <<locked, state, QueueStart, Time, threadVars, fileVars, clock,
                 shutdowns, shut>>

\* Bug: the logging thread is woken up only for the first item of a log.
StartQuiet(t) ==
  /\ Go(t, "p_start", "p_unlock")
  /\ QueueStart' = IF QueueStart = NULL THEN own[t] ELSE QueueStart
  /\ trigger' = [trigger EXCEPT ![t] = QueueStart = NULL /\ accepted = {}]
  /\ Unaccepting
  /\ UNCHANGED <<locked, state, QueueEnd, n, Time, own, call, fileVars, clock,
                 shutdowns, shut>>

\* and its start if it is the only one.
Start(t) ==
  /\ Go(t, "p_start", "p_unlock")
  /\ QueueStart' = IF QueueStart = NULL THEN own[t] ELSE QueueStart
  /\ trigger' = [trigger EXCEPT ![t] = QueueStart = NULL]
  /\ Unaccepting
  /\ UNCHANGED <<locked, state, QueueEnd, n, Time, own, call, fileVars, clock,
                 shutdowns, shut>>

Unlock(t) ==
  /\ Go(t, "p_unlock", "p_trigger")
  /\ UnlockMutex("mxChain")
  /\ Unaccepting
  /\ UNCHANGED <<state, queueVars, Time, threadVars, fileVars, clock, shutdowns, shut>>

\* The logging thread gets its signal, and log_printf returns 0.
Trigger(t) ==
  /\ Return(t, "p_trigger")
  /\ IF trigger[t] THEN UnlockMutex("mxRun") ELSE UNCHANGED locked
  /\ accepted' = accepted \cup {own[t]}
  /\ UNCHANGED <<state, queueVars, memoryVars, Time, trigger, fileVars, log, clock, shutdowns>>

\* The rest of log_shutdown, which for a synchronous log closes the file, and
\* then says so in fp.
ShutdownSync(t) ==
  /\ \/ /\ type = "synchronous"
        /\ Go(t, "s_type", "s_close")
        /\ state' = "dead"
        /\ UNCHANGED <<call, fileVars, shut>>
     \/ /\ Go(t, "s_close", "s_null")
        /\ closed' = (fp # <<>>)
        /\ UNCHANGED <<state, call, fp, shut>>
     \/ /\ Go(t, "s_null", "idle")
        /\ fp' = <<>> /\ closed' = FALSE
        /\ shut' = TRUE
        /\ call' = [call EXCEPT ![t] = "none"]
        /\ UNCHANGED state
  /\ Unaccepting
  /\ UNCHANGED <<locked, queueVars, Time, own, trigger, clock, shutdowns>>

SetShutting(t) ==
  /\ type = "normal"
  /\ Go(t, "s_type", "s_run")
  /\ state' = "shutting"
  /\ Unaccepting
  /\ UNCHANGED <<locked, queueVars, Time, threadVars, fileVars, clock, shutdowns, shut>>

\* Bug: the logging thread is not told.
ShutdownQuiet(t) ==
  /\ Go(t, "s_run", "idle")
  /\ UNCHANGED locked
  /\ shut' = TRUE
  /\ call' = [call EXCEPT ![t] = "none"]
  /\ Unaccepting
  /\ UNCHANGED <<state, queueVars, Time, own, trigger, fileVars, clock, shutdowns>>

\* The queue is triggered to perform the final flush.
ShutdownTrigger(t) ==
  /\ Go(t, "s_run", "idle")
  /\ UnlockMutex("mxRun")
  /\ shut' = TRUE
  /\ call' = [call EXCEPT ![t] = "none"]
  /\ Unaccepting
  /\ UNCHANGED <<state, queueVars, Time, own, trigger, fileVars, clock, shutdowns>>

Proceed(t) == \/ CheckState(t) \/ DevNull(t) \/ Allocate(t) \/ AllocateItem(t)
              \/ TestFile(t) \/ PrintSync(t) \/ FlushSync(t) \/ Enqueue(t)
              \/ Link(t) \/ Start(t) \/ Unlock(t) \/ Trigger(t)
              \/ ShutdownSync(t) \/ SetShutting(t) \/ ShutdownTrigger(t)

Caller(t) == /\ CallPrintf(t) \/ CallShutdown(t) \/ Proceed(t)
             /\ UnchangedByCaller

Tick == /\ clock < MaxTime
        /\ clock' = clock + 1
        /\ UNCHANGED <<locked, type, state, queueVars, Time, memoryVars, closed, writerVars,
                       pc, threadVars, shutdowns, accepted, shut>>

Next == (\E t \in Thread : Caller(t)) \/ log_thread \/ Tick

Spec == Init /\ [][Next]_vars

\* The scheduler runs the logging thread, and every thread that is inside a
\* function of the logger; nobody has to call one.
FairSpec == /\ Spec
            /\ WF_vars(log_thread)
            /\ \A t \in Thread : WF_vars(Proceed(t) /\ UnchangedByCaller)

-----------------------------------------------------------------------------
\* The queue as a sequence: the items that can be reached from QueueStart.
Waiting ==
  LET N == Cardinality(Item)
      nth[k \in 1 .. N] == IF k = 1 THEN QueueStart
                           ELSE IF nth[k - 1] = NULL THEN NULL ELSE n[nth[k - 1]]
  IN [k \in 1 .. Cardinality({k \in 1 .. N : nth[k] # NULL}) |-> nth[k]]

Queue == INSTANCE LogQueue WITH
           queue <- Waiting,
           taken <- IF pLI = NULL THEN <<>> ELSE <<pLI>>,
           written <- IF type = "synchronous" THEN <<>>
                      ELSE [k \in 1 .. Len(log) |-> log[k].item],
           open <- type = "normal" /\ fp # <<>>

\* The linked list that the callers and the logging thread share is a queue:
\* items are written in the order they were linked, each at most once, and none
\* is lost on the way unless its file cannot be opened (logger.c:63-66).
QueueSpec == Queue!Spec

\* Nobody follows a pointer into an item that was released: when a caller writes
\* QueueEnd->n, and as long as an item can still be reached.
NoDanglingItem ==
  /\ \A t \in Thread : pc[t] = "p_link" /\ QueueEnd # NULL
                         => heap[QueueEnd] = "live"
  /\ \A k \in DOMAIN Waiting : heap[Waiting[k]] = "live"

\* The logging thread does not sleep while items wait, unless somebody is on the
\* way to wake it up: the signal of a full queue is not lost, though mxRun keeps
\* no count and only the caller that finds the queue empty sends it.
NoLostSignal ==
  wpc = "w_run" /\ "mxRun" \in locked /\ QueueStart # NULL =>
    \E t \in Thread : \/ pc[t] \in {"p_unlock", "p_trigger"} /\ trigger[t]
                      \/ pc[t] = "s_run"

\* Log rotation of an asynchronous log: an item is written to the file of its own
\* time interval, in whatever order the threads queued their items
\* (logger.c:196-200).
OwnFile ==
  type = "normal" /\ TimeSpan # 0 => \A k \in 1 .. Len(log) :
    Interval(log[k].file) = Interval(Time[log[k].item])

\* The memory of a message and of an item is in the hands of the thread that
\* allocated it, in the queue or in the hands of the logging thread: no error
\* path and no race on the ends of the list loses it.
NoLeak ==
  \A i \in Item : i \in text \/ heap[i] = "live" =>
    \/ \E t \in Thread : own[t] = i /\ pc[t] # "p_state"
    \/ \E k \in DOMAIN Waiting : Waiting[k] = i
    \/ pLI = i

\* Unless the log is shut down, every item that is accepted leaves the queue, and
\* its memory is released.
EveryItemLeaves ==
  \A i \in Item :
    i \in accepted ~> (heap[i] # "live" /\ i \notin text) \/ shutdowns # 0

\* "When all logs are written the logging thread terminates" (logger.c:75): after
\* a shutdown it ends and the file is closed, both for good, however often the log
\* is shut down.  That log_state tells so (logger.c:356-357) is true of an
\* asynchronous log that is shut down once: a second log_shutdown makes it
\* LOGSTATE_SHUTTING again, and the state of a synchronous log is never told.
ShutdownEnds ==
  /\ shut ~> [](wpc = "ended" /\ fp = <<>>)
  /\ shut /\ type = "normal" ~> state = "dead" \/ shutdowns > 1

-----------------------------------------------------------------------------
\* What the documentation says and the code does not keep.

\* "When shutting down all waiting logs are written to the file" (logger.c:74).
AllWaitingWritten == wpc = "ended" => QueueStart = NULL

\* In a synchronous log "the caller has to wait until the logging is performed and
\* written to a file", it "is a safe logging" (logger.c:60-61): a caller that found
\* the file open writes its line.
SafeLogging ==
  [][\A t \in Thread : pc[t] = "p_print" /\ pc'[t] # "p_print" =>
       \E k \in DOMAIN log' : log'[k].item = own[t]]_vars
=============================================================================
