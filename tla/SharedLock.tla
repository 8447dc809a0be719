----------------------------- MODULE SharedLock -----------------------------
(***************************************************************************)
(* The shareable lock of thread.c (SHAREDLOCK), one atomic step per call   *)
(* of a mutex function and per access of the shared counter dwReaders.     *)
(* The lock is built of three mutexes: mxWrite is the entrance room of the *)
(* story at thread.c:234-268, mxRead the light of the reading room and     *)
(* mxCounter guards the box of reader cards.                               *)
(*                                                                         *)
(* A thread uses the lock as its documentation asks: it unlocks what it    *)
(* locked, and does not lock again before that.                            *)
(***************************************************************************)
EXTENDS Integers, FiniteSets, Mutex

CONSTANT Thread

ASSUME ThreadAssumption == IsFiniteSet(Thread)

VARIABLES pc,        \* pc[t]: the statement thread t executes next
          dwReaders, \* the field of SHAREDLOCK
          iReaders   \* iReaders[t]: the local of LockRead and UnlockRead

vars == <<locked, pc, dwReaders, iReaders>>

Mutexes == {"mxWrite", "mxRead", "mxCounter"}

\* idle, reading and writing are outside the functions of thread.c; the other
\* labels name the statement a thread is about to execute.
Labels == {"idle",
           "r_lockWrite", "r_lockCounter", "r_fetch", "r_store",
           "r_lockRead", "r_unlockCounter", "r_unlockWrite", "reading",
           "u_lockCounter", "u_fetch", "u_store",
           "u_unlockRead", "u_unlockCounter",
           "w_lockWrite", "w_lockRead", "w_unlockWrite", "writing"}

TypeOK == /\ locked \subseteq Mutexes
          /\ pc \in [Thread -> Labels]
          /\ dwReaders \in Nat
          /\ iReaders \in [Thread -> Int]

\* shared_InitLock
Init == /\ locked = {}
        /\ pc = [t \in Thread |-> "idle"]
        /\ dwReaders = 0
        /\ iReaders = [t \in Thread |-> 0]

-----------------------------------------------------------------------------
Goto(t, from, to) == /\ pc[t] = from
                     /\ pc' = [pc EXCEPT ![t] = to]

\* One statement that locks or unlocks mutex m and falls through to the next.
LockStep(t, from, m, to) == /\ Goto(t, from, to)
                            /\ LockMutex(m)
                            /\ UNCHANGED <<dwReaders, iReaders>>

UnlockStep(t, from, m, to) == /\ Goto(t, from, to)
                              /\ UnlockMutex(m)
                              /\ UNCHANGED <<dwReaders, iReaders>>

\* The thread decides to use the lock.
CallLockRead(t) == /\ Goto(t, "idle", "r_lockWrite")
                   /\ UNCHANGED <<locked, dwReaders, iReaders>>

CallLockWrite(t) == /\ Goto(t, "idle", "w_lockWrite")
                    /\ UNCHANGED <<locked, dwReaders, iReaders>>

\* shared_LockRead: dwReaders++; iReaders = dwReaders; if( iReaders == 1 ).
\* The counter is fetched and stored in two steps.
FetchIn(t) == /\ Goto(t, "r_fetch", "r_store")
              /\ iReaders' = [iReaders EXCEPT ![t] = dwReaders + 1]
              /\ UNCHANGED <<locked, dwReaders>>

StoreIn(t) == /\ Goto(t, "r_store", IF iReaders[t] = 1 THEN "r_lockRead"
                                                     ELSE "r_unlockCounter")
              /\ dwReaders' = iReaders[t]
              /\ UNCHANGED <<locked, iReaders>>

\* Bug: the readers do not stop at the entrance.
LockReadNoEntrance(t) ==
    \/ /\ Goto(t, "r_lockWrite", "r_lockCounter")
       /\ UNCHANGED <<locked, dwReaders, iReaders>>
    \/ LockStep(t, "r_lockCounter", "mxCounter", "r_fetch")
    \/ FetchIn(t)
    \/ StoreIn(t)
    \/ LockStep(t, "r_lockRead", "mxRead", "r_unlockCounter")
    \/ UnlockStep(t, "r_unlockCounter", "mxCounter", "reading")

\* Bug: the counter is incremented without its mutex.
LockReadNoCounter(t) ==
    \/ LockStep(t, "r_lockWrite", "mxWrite", "r_fetch")
    \/ FetchIn(t)
    \/ StoreIn(t)
    \/ LockStep(t, "r_lockRead", "mxRead", "r_unlockWrite")
    \/ UnlockStep(t, "r_unlockCounter", "mxWrite", "reading")
    \/ UnlockStep(t, "r_unlockWrite", "mxWrite", "reading")

LockRead(t) == \/ LockStep(t, "r_lockWrite", "mxWrite", "r_lockCounter")
               \/ LockStep(t, "r_lockCounter", "mxCounter", "r_fetch")
               \/ FetchIn(t)
               \/ StoreIn(t)
               \/ LockStep(t, "r_lockRead", "mxRead", "r_unlockCounter")
               \/ UnlockStep(t, "r_unlockCounter", "mxCounter", "r_unlockWrite")
               \/ UnlockStep(t, "r_unlockWrite", "mxWrite", "reading")

\* Bug: the entrance is opened before the light is on.
LockWriteOpenEntrance(t) ==
    \/ LockStep(t, "w_lockWrite", "mxWrite", "w_unlockWrite")
    \/ UnlockStep(t, "w_unlockWrite", "mxWrite", "w_lockRead")
    \/ LockStep(t, "w_lockRead", "mxRead", "writing")

\* Bug: the writer does not wait for the readers to leave.
LockWriteNoLight(t) ==
    \/ LockStep(t, "w_lockWrite", "mxWrite", "w_unlockWrite")
    \/ UnlockStep(t, "w_unlockWrite", "mxWrite", "writing")

LockWrite(t) == \/ LockStep(t, "w_lockWrite", "mxWrite", "w_lockRead")
                \/ LockStep(t, "w_lockRead", "mxRead", "w_unlockWrite")
                \/ UnlockStep(t, "w_unlockWrite", "mxWrite", "writing")

\* The thread leaves the section it read and calls shared_UnlockRead.
CallUnlockRead(t) == /\ Goto(t, "reading", "u_lockCounter")
                     /\ UNCHANGED <<locked, dwReaders, iReaders>>

\* shared_UnlockRead: dwReaders--; iReaders = dwReaders; if( ! iReaders )
FetchOut(t) == /\ Goto(t, "u_fetch", "u_store")
               /\ iReaders' = [iReaders EXCEPT ![t] = dwReaders - 1]
               /\ UNCHANGED <<locked, dwReaders>>

\* Bug: every reader that leaves switches the light off.
StoreOutAlwaysOff(t) == /\ Goto(t, "u_store", "u_unlockRead")
                        /\ dwReaders' = iReaders[t]
                        /\ UNCHANGED <<locked, iReaders>>

StoreOut(t) == /\ Goto(t, "u_store", IF iReaders[t] = 0 THEN "u_unlockRead"
                                                      ELSE "u_unlockCounter")
               /\ dwReaders' = iReaders[t]
               /\ UNCHANGED <<locked, iReaders>>

\* Bug: the counter is decremented without its mutex.
UnlockReadNoCounter(t) ==
    \/ /\ Goto(t, "u_lockCounter", "u_fetch")
       /\ UNCHANGED <<locked, dwReaders, iReaders>>
    \/ FetchOut(t)
    \/ StoreOut(t)
    \/ UnlockStep(t, "u_unlockRead", "mxRead", "idle")
    \/ /\ Goto(t, "u_unlockCounter", "idle")
       /\ UNCHANGED <<locked, dwReaders, iReaders>>

UnlockRead(t) == \/ LockStep(t, "u_lockCounter", "mxCounter", "u_fetch")
                 \/ FetchOut(t)
                 \/ StoreOut(t)
                 \/ UnlockStep(t, "u_unlockRead", "mxRead", "u_unlockCounter")
                 \/ UnlockStep(t, "u_unlockCounter", "mxCounter", "idle")

\* shared_UnlockWrite is a single statement.
UnlockWrite(t) == UnlockStep(t, "writing", "mxRead", "idle")

\* The statements of thread t that the scheduler runs once t is inside a
\* function of thread.c or holds the lock.
Step(t) == \/ LockRead(t) \/ CallUnlockRead(t) \/ UnlockRead(t)
           \/ LockWrite(t) \/ UnlockWrite(t)

Next == \E t \in Thread : CallLockRead(t) \/ CallLockWrite(t) \/ Step(t)

Spec == Init /\ [][Next]_vars

\* A runnable thread runs on, and a holder of the lock lets it go in the end.
\* Nothing is assumed of the order in which waiters get a mutex.
FairSpec == Spec /\ \A t \in Thread : WF_vars(Step(t))

\* "a random thread will get the lock" (thread.c:130): a waiter that
\* meets the mutex free again and again gets it in the end.
RandomChoice == \A t \in Thread : SF_vars(Step(t))

-----------------------------------------------------------------------------
\* A write lock is exclusive (thread.c:231): nobody reads or writes beside
\* a writer, however the steps of the two lock functions interleave.
WriteExclusive ==
    \A t, u \in Thread : pc[t] = "writing" /\ pc[u] \in {"reading", "writing"}
                         => t = u

Counted == {t \in Thread : pc[t] \in {"r_lockRead", "r_unlockCounter",
                                      "r_unlockWrite", "reading",
                                      "u_lockCounter", "u_fetch", "u_store"}}

\* "if there is no card in it you took your one then you are the last"
\* (thread.c:250-252): the light of the reading room is off only when nobody is
\* counted in and nobody writes, and dwReaders counts exactly the readers
\* whose card is in the box, so that it never wraps below zero.
LightOff ==
    /\ dwReaders = Cardinality(Counted)
    /\ "mxRead" \notin locked =>
          /\ \A t \in Counted : pc[t] = "r_lockRead"
          /\ \A t \in Thread : pc[t] \notin {"w_unlockWrite", "writing"}

\* A librarian in the entrance room keeps new readers out (thread.c:259-263):
\* while a thread waits for the light in shared_LockWrite, nobody starts
\* to read who was not past the entrance before.
WriterShutsEntrance ==
    [][\A w \in Thread : pc[w] = "w_lockRead" /\ pc'[w] = "w_lockRead"
          => {t \in Thread : pc'[t] = "reading"}
                \subseteq {t \in Thread : pc[t] = "reading"}]_vars

\* Whoever got through the entrance gets in, with no assumption on the order in
\* which the mutexes are granted.
EntranceLeadsIn ==
    \A t \in Thread :
      /\ pc[t] = "w_lockRead" ~> pc[t] = "writing"
      /\ pc[t] = "r_lockCounter" ~> pc[t] = "reading"

\* If the mutexes choose among their waiters at random, every thread that asks
\* for the lock gets it, and is rid of it again (thread.c:266-268, "he has equal
\* chance as any of the readers").
EveryoneServed ==
    RandomChoice => \A t \in Thread :
      /\ pc[t] = "w_lockWrite" ~> pc[t] = "writing"
      /\ pc[t] = "r_lockWrite" ~> pc[t] = "reading"
      /\ pc[t] = "u_lockCounter" ~> pc[t] = "idle"

\* The lock is the abstract read/write lock, seen when its functions return.
holdBar == [t \in Thread |-> CASE pc[t] = "reading" -> "read"
                               [] pc[t] = "writing" -> "write"
                               [] OTHER -> "none"]

RW == INSTANCE RWLock WITH hold <- holdBar

RWLockSpec == RW!Spec
=============================================================================
