------------------------- MODULE SharedLock_proofs -------------------------
(***************************************************************************)
(* Proofs about SharedLock for any finite set of threads: the inductive    *)
(* invariant IInv, the three invariants that follow from it, and the       *)
(* refinement of RWLock.                                                   *)
(***************************************************************************)
EXTENDS SharedLock, FiniteSetTheorems, TLAPS

\* The labels between the lock and the unlock of mxWrite, and of mxCounter.
Entrance == {"r_lockCounter", "r_fetch", "r_store", "r_lockRead",
             "r_unlockCounter", "r_unlockWrite",
             "w_lockRead", "w_unlockWrite"}

AtCounter == {"r_fetch", "r_store", "r_lockRead", "r_unlockCounter",
              "u_fetch", "u_store", "u_unlockRead", "u_unlockCounter"}

\* The labels of a thread that needs the light on: as a reader, as a writer.
ReaderIn == {"r_unlockCounter", "r_unlockWrite", "reading",
             "u_lockCounter", "u_fetch", "u_store", "u_unlockRead"}

WriterIn == {"w_unlockWrite", "writing"}

\* The program text between lock and unlock of m holds one thread at most.
Guarded(m, labels) == \A t \in Thread :
                        pc[t] \in labels
                        => /\ m \in locked
                           /\ \A u \in Thread : pc[u] \in labels => u = t

Registers == \A t \in Thread :
               /\ pc[t] = "r_store" => iReaders[t] = dwReaders + 1
               /\ pc[t] = "u_store" => iReaders[t] = dwReaders - 1
               /\ pc[t] = "u_unlockRead" => dwReaders = 0

Light == \A t \in Thread :
           pc[t] \in ReaderIn => /\ "mxRead" \in locked
                                /\ \A u \in Thread : pc[u] \notin WriterIn

PCTypeOK == /\ locked \subseteq Mutexes
            /\ pc \in [Thread -> Labels]
            /\ dwReaders \in Int
            /\ iReaders \in [Thread -> Int]

IInv == /\ PCTypeOK
        /\ Guarded("mxWrite", Entrance)
        /\ Guarded("mxCounter", AtCounter)
        /\ Guarded("mxRead", WriterIn)
        /\ Light
        /\ Registers
        /\ dwReaders = Cardinality(Counted)

-----------------------------------------------------------------------------
\* The box of reader cards is a finite set.
LEMMA CountedFinite == IsFiniteSet(Counted) /\ Cardinality(Counted) \in Nat
<1>1. Counted \subseteq Thread
  BY DEF Counted
<1>2. IsFiniteSet(Counted)
  BY <1>1, ThreadAssumption, FS_Subset
<1> QED
  BY <1>2, FS_CardinalityType

\* The three invariants are consequences of IInv.
LEMMA IInvImplies == IInv => TypeOK /\ WriteExclusive /\ LightOff
<1> SUFFICES ASSUME IInv PROVE TypeOK /\ WriteExclusive /\ LightOff
  OBVIOUS
<1>1. TypeOK
  BY CountedFinite DEF IInv, PCTypeOK, TypeOK
<1>2. WriteExclusive
  BY DEF IInv, WriteExclusive, Guarded, Light, ReaderIn, WriterIn
<1>3. LightOff
  <2>1. ASSUME "mxRead" \notin locked, NEW t \in Thread
        PROVE  pc[t] \notin ReaderIn /\ pc[t] \notin WriterIn
    BY <2>1 DEF IInv, Light, Guarded
  <2>2. \A t \in Counted : pc[t] \in ReaderIn \cup {"r_lockRead"}
    BY DEF Counted, ReaderIn
  <2> QED
    BY <2>1, <2>2 DEF IInv, LightOff, Counted, WriterIn
<1> QED
  BY <1>1, <1>2, <1>3

LEMMA IInvInit == Init => IInv
<1> SUFFICES ASSUME Init PROVE IInv
  OBVIOUS
<1> USE DEF Init
<1>1. Counted = {}
  BY DEF Counted
<1>2. dwReaders = Cardinality(Counted)
  BY <1>1, FS_EmptySet
<1>3. PCTypeOK
  BY DEF PCTypeOK, Labels, Mutexes
<1>4. /\ Guarded("mxWrite", Entrance)
      /\ Guarded("mxCounter", AtCounter)
      /\ Guarded("mxRead", WriterIn)
      /\ Light
      /\ Registers
  BY DEF Guarded, Entrance, AtCounter, WriterIn, ReaderIn, Light, Registers
<1> QED
  BY <1>2, <1>3, <1>4 DEF IInv

-----------------------------------------------------------------------------
\* The types survive every step.
LEMMA PCTypeNext ==
  ASSUME IInv, [Next]_vars
  PROVE  PCTypeOK'
<1> USE DEF IInv, PCTypeOK, Goto, LockStep, UnlockStep, LockMutex, UnlockMutex,
            Labels, Mutexes
<1>1. CASE UNCHANGED vars
  BY <1>1 DEF vars
<1>2. ASSUME NEW t \in Thread, CallLockRead(t) \/ CallLockWrite(t)
      PROVE  PCTypeOK'
  BY <1>2 DEF CallLockRead, CallLockWrite
<1>3. ASSUME NEW t \in Thread, LockRead(t)
      PROVE  PCTypeOK'
  <2>1. CASE FetchIn(t)
    BY <2>1 DEF FetchIn
  <2>2. CASE StoreIn(t)
    BY <2>2 DEF StoreIn
  <2> QED
    BY <1>3, <2>1, <2>2 DEF LockRead
<1>4. ASSUME NEW t \in Thread, CallUnlockRead(t) \/ UnlockRead(t)
      PROVE  PCTypeOK'
  <2>1. CASE FetchOut(t)
    BY <2>1 DEF FetchOut
  <2>2. CASE StoreOut(t)
    BY <2>2 DEF StoreOut
  <2> QED
    BY <1>4, <2>1, <2>2 DEF CallUnlockRead, UnlockRead
<1>5. ASSUME NEW t \in Thread, LockWrite(t) \/ UnlockWrite(t)
      PROVE  PCTypeOK'
  BY <1>5 DEF LockWrite, UnlockWrite
<1> QED
  BY <1>1, <1>2, <1>3, <1>4, <1>5 DEF Next, Step

\* So does the exclusion in the entrance,
LEMMA EntranceNext ==
  ASSUME IInv, [Next]_vars
  PROVE  Guarded("mxWrite", Entrance)'
<1> USE DEF IInv, PCTypeOK, Goto, LockStep, UnlockStep, LockMutex, UnlockMutex,
            Guarded, Entrance
<1>1. CASE UNCHANGED vars
  BY <1>1 DEF vars
<1>2. ASSUME NEW t \in Thread, CallLockRead(t) \/ CallLockWrite(t)
      PROVE  Guarded("mxWrite", Entrance)'
  BY <1>2 DEF CallLockRead, CallLockWrite
<1>3. ASSUME NEW t \in Thread, LockRead(t)
      PROVE  Guarded("mxWrite", Entrance)'
  BY <1>3 DEF LockRead, FetchIn, StoreIn
<1>4. ASSUME NEW t \in Thread, CallUnlockRead(t) \/ UnlockRead(t)
      PROVE  Guarded("mxWrite", Entrance)'
  BY <1>4 DEF CallUnlockRead, UnlockRead, FetchOut, StoreOut
<1>5. ASSUME NEW t \in Thread, LockWrite(t) \/ UnlockWrite(t)
      PROVE  Guarded("mxWrite", Entrance)'
  BY <1>5 DEF LockWrite, UnlockWrite
<1> QED
  BY <1>1, <1>2, <1>3, <1>4, <1>5 DEF Next, Step

\* and at the counter.
LEMMA AtCounterNext ==
  ASSUME IInv, [Next]_vars
  PROVE  Guarded("mxCounter", AtCounter)'
<1> USE DEF IInv, PCTypeOK, Goto, LockStep, UnlockStep, LockMutex, UnlockMutex,
            Guarded, AtCounter
<1>1. CASE UNCHANGED vars
  BY <1>1 DEF vars
<1>2. ASSUME NEW t \in Thread, CallLockRead(t) \/ CallLockWrite(t)
      PROVE  Guarded("mxCounter", AtCounter)'
  BY <1>2 DEF CallLockRead, CallLockWrite
<1>3. ASSUME NEW t \in Thread, LockRead(t)
      PROVE  Guarded("mxCounter", AtCounter)'
  BY <1>3 DEF LockRead, FetchIn, StoreIn
<1>4. ASSUME NEW t \in Thread, CallUnlockRead(t) \/ UnlockRead(t)
      PROVE  Guarded("mxCounter", AtCounter)'
  BY <1>4 DEF CallUnlockRead, UnlockRead, FetchOut, StoreOut
<1>5. ASSUME NEW t \in Thread, LockWrite(t) \/ UnlockWrite(t)
      PROVE  Guarded("mxCounter", AtCounter)'
  BY <1>5 DEF LockWrite, UnlockWrite
<1> QED
  BY <1>1, <1>2, <1>3, <1>4, <1>5 DEF Next, Step

\* The register of a thread at the counter keeps the value it fetched: the
\* counter changes only in the hands of the holder of mxCounter.
LEMMA RegistersNext ==
  ASSUME IInv, [Next]_vars
  PROVE  Registers'
<1> USE DEF IInv, PCTypeOK, Guarded, AtCounter, Registers,
            Goto, LockStep, UnlockStep
<1>1. CASE UNCHANGED vars
  BY <1>1 DEF vars
<1>2. ASSUME NEW t \in Thread, CallLockRead(t) \/ CallLockWrite(t)
      PROVE  Registers'
  BY <1>2 DEF CallLockRead, CallLockWrite
<1>3. ASSUME NEW t \in Thread, LockRead(t)
      PROVE  Registers'
  <2>1. CASE FetchIn(t)
    BY <2>1 DEF FetchIn
  <2>2. CASE StoreIn(t)
    BY <2>2 DEF StoreIn
  <2> QED
    BY <1>3, <2>1, <2>2 DEF LockRead
<1>4. ASSUME NEW t \in Thread, CallUnlockRead(t) \/ UnlockRead(t)
      PROVE  Registers'
  <2>1. CASE FetchOut(t)
    BY <2>1 DEF FetchOut
  <2>2. CASE StoreOut(t)
    BY <2>2 DEF StoreOut
  <2> QED
    BY <1>4, <2>1, <2>2 DEF CallUnlockRead, UnlockRead
<1>5. ASSUME NEW t \in Thread, LockWrite(t) \/ UnlockWrite(t)
      PROVE  Registers'
  BY <1>5 DEF LockWrite, UnlockWrite
<1> QED
  BY <1>1, <1>2, <1>3, <1>4, <1>5 DEF Next, Step

-----------------------------------------------------------------------------
\* dwReaders goes on counting the cards in the box: StoreIn puts one in,
\* StoreOut takes one out, no other step touches either.
LEMMA CountNext ==
  ASSUME IInv, [Next]_vars
  PROVE  (dwReaders = Cardinality(Counted))'
<1> USE DEF IInv, PCTypeOK
<1>1. ASSUME NEW t \in Thread, StoreIn(t)
      PROVE  (dwReaders = Cardinality(Counted))'
  <2>1. Counted' = Counted \cup {t} /\ t \notin Counted
    BY <1>1 DEF StoreIn, Goto, Counted
  <2>2. Cardinality(Counted') = Cardinality(Counted) + 1
    BY <2>1, CountedFinite, FS_AddElement
  <2> QED
    BY <1>1, <2>2 DEF StoreIn, Goto, Registers
<1>2. ASSUME NEW t \in Thread, StoreOut(t)
      PROVE  (dwReaders = Cardinality(Counted))'
  <2>1. Counted' = Counted \ {t} /\ t \in Counted
    BY <1>2 DEF StoreOut, Goto, Counted
  <2>2. Cardinality(Counted') = Cardinality(Counted) - 1
    BY <2>1, CountedFinite, FS_RemoveElement
  <2> QED
    BY <1>2, <2>2 DEF StoreOut, Goto, Registers
<1>3. ASSUME Counted' = Counted, dwReaders' = dwReaders
      PROVE  (dwReaders = Cardinality(Counted))'
  BY <1>3
<1>4. CASE UNCHANGED vars
  BY <1>3, <1>4 DEF vars, Counted
<1>5. ASSUME NEW t \in Thread, CallLockRead(t) \/ CallLockWrite(t)
      PROVE  Counted' = Counted /\ dwReaders' = dwReaders
  BY <1>5 DEF CallLockRead, CallLockWrite, Goto, Counted
<1>6. ASSUME NEW t \in Thread, LockRead(t), ~StoreIn(t)
      PROVE  Counted' = Counted /\ dwReaders' = dwReaders
  BY <1>6 DEF LockRead, FetchIn, LockStep, UnlockStep, Goto, Counted
<1>7. ASSUME NEW t \in Thread, CallUnlockRead(t) \/ UnlockRead(t), ~StoreOut(t)
      PROVE  Counted' = Counted /\ dwReaders' = dwReaders
  BY <1>7 DEF CallUnlockRead, UnlockRead, FetchOut, LockStep, UnlockStep,
              Goto, Counted
<1>8. ASSUME NEW t \in Thread, LockWrite(t) \/ UnlockWrite(t)
      PROVE  Counted' = Counted /\ dwReaders' = dwReaders
  BY <1>8 DEF LockWrite, UnlockWrite, LockStep, UnlockStep, Goto, Counted
<1> QED
  BY <1>1, <1>2, <1>3, <1>4, <1>5, <1>6, <1>7, <1>8 DEF Next, Step

-----------------------------------------------------------------------------
\* Where the light is off nobody needs it.
LEMMA DarkIsEmpty ==
  ASSUME IInv, "mxRead" \notin locked, NEW t \in Thread
  PROVE  pc[t] \notin ReaderIn /\ pc[t] \notin WriterIn
BY DEF IInv, Light, Guarded

\* A reader that finds another card in the box finds the light on, and no
\* writer: the card belongs to a reader that is already in.
LEMMA SecondReader ==
  ASSUME IInv, NEW t \in Thread, StoreIn(t), iReaders[t] # 1
  PROVE  "mxRead" \in locked /\ \A u \in Thread : pc[u] \notin WriterIn
<1>1. Cardinality(Counted) # 0
  BY DEF IInv, PCTypeOK, Registers, StoreIn, Goto
<1>2. PICK u \in Counted : TRUE
  BY <1>1, FS_EmptySet
<1>3. pc[t] = "r_store" /\ pc[u] # "r_lockRead"
  BY <1>2 DEF IInv, Guarded, AtCounter, StoreIn, Goto, Counted
<1>4. pc[u] \in ReaderIn
  BY <1>2, <1>3 DEF Counted, ReaderIn
<1> QED
  BY <1>2, <1>4 DEF IInv, Light, Counted

\* The last reader to leave has the room for itself.
LEMMA LastReader ==
  ASSUME IInv, NEW t \in Thread, pc[t] = "u_unlockRead", NEW u \in Thread,
         u # t
  PROVE  pc[u] \notin ReaderIn
<1>1. Counted = {}
  BY CountedFinite, FS_EmptySet DEF IInv, Registers
<1>2. pc[u] # "u_unlockRead"
  BY DEF IInv, Guarded, AtCounter
<1> QED
  BY <1>1, <1>2 DEF Counted, ReaderIn

LEMMA LightNext ==
  ASSUME IInv, [Next]_vars
  PROVE  Guarded("mxRead", WriterIn)' /\ Light'
<1> USE DEF Goto, LockStep, UnlockStep, LockMutex, UnlockMutex,
            Guarded, Light, WriterIn, ReaderIn
<1>1. CASE UNCHANGED vars
  BY <1>1 DEF vars, IInv
<1>2. ASSUME NEW t \in Thread, CallLockRead(t) \/ CallLockWrite(t)
      PROVE  Guarded("mxRead", WriterIn)' /\ Light'
  BY <1>2 DEF CallLockRead, CallLockWrite, IInv, PCTypeOK
<1>3. ASSUME NEW t \in Thread, LockRead(t)
      PROVE  Guarded("mxRead", WriterIn)' /\ Light'
  <2>1. CASE StoreIn(t)
    BY <2>1, SecondReader DEF StoreIn, IInv, PCTypeOK
  <2>2. CASE LockStep(t, "r_lockRead", "mxRead", "r_unlockCounter")
    BY <2>2, DarkIsEmpty DEF IInv, PCTypeOK
  <2> QED
    BY <1>3, <2>1, <2>2 DEF LockRead, FetchIn, IInv, PCTypeOK
<1>4. ASSUME NEW t \in Thread, CallUnlockRead(t) \/ UnlockRead(t)
      PROVE  Guarded("mxRead", WriterIn)' /\ Light'
  <2>1. CASE StoreOut(t)
    BY <2>1 DEF StoreOut, IInv, PCTypeOK
  <2>2. CASE UnlockStep(t, "u_unlockRead", "mxRead", "u_unlockCounter")
    BY <2>2, LastReader DEF IInv, PCTypeOK
  <2> QED
    BY <1>4, <2>1, <2>2 DEF CallUnlockRead, UnlockRead, FetchOut,
                            IInv, PCTypeOK
<1>5. ASSUME NEW t \in Thread, LockWrite(t)
      PROVE  Guarded("mxRead", WriterIn)' /\ Light'
  <2>1. CASE LockStep(t, "w_lockRead", "mxRead", "w_unlockWrite")
    BY <2>1, DarkIsEmpty DEF IInv, PCTypeOK
  <2> QED
    BY <1>5, <2>1 DEF LockWrite, IInv, PCTypeOK
<1>6. ASSUME NEW t \in Thread, UnlockWrite(t)
      PROVE  Guarded("mxRead", WriterIn)' /\ Light'
  BY <1>6 DEF UnlockWrite, IInv, PCTypeOK
<1> QED
  BY <1>1, <1>2, <1>3, <1>4, <1>5, <1>6 DEF Next, Step

-----------------------------------------------------------------------------
\* IInv is an invariant of the lock.
THEOREM Inductive == Spec => []IInv
<1>1. IInv /\ [Next]_vars => IInv'
  BY PCTypeNext, EntranceNext, AtCounterNext, RegistersNext, CountNext,
     LightNext DEF IInv
<1> QED
  BY <1>1, IInvInit, PTL DEF Spec

\* The state stays in its types for any finite set of threads: the count of
\* the readers never falls below zero.
THEOREM TypeCorrect == Spec => []TypeOK
BY Inductive, IInvImplies, PTL

\* A writer is alone in the lock, whatever the number of threads.
THEOREM WritersExclude == Spec => []WriteExclusive
BY Inductive, IInvImplies, PTL

\* The light is off only in an empty room, and the box holds one card for
\* each reader.
THEOREM LightAndBox == Spec => []LightOff
BY Inductive, IInvImplies, PTL

-----------------------------------------------------------------------------
\* Every step of thread.c is a step of the abstract lock, or changes nothing
\* that the callers of the lock can see.
LEMMA StepRefines ==
  ASSUME IInv, [Next]_vars
  PROVE  [RW!Next]_holdBar
<1> USE DEF Goto, LockStep, UnlockStep, holdBar, IInv, PCTypeOK
<1> HIDE DEF IInv
<1>1. CASE UNCHANGED vars
  BY <1>1 DEF vars
<1>2. ASSUME NEW t \in Thread, CallLockRead(t) \/ CallLockWrite(t)
      PROVE  UNCHANGED holdBar
  BY <1>2 DEF CallLockRead, CallLockWrite, IInv
<1>3. ASSUME NEW t \in Thread, LockRead(t)
      PROVE  RW!AcquireRead(t) \/ UNCHANGED holdBar
  <2>1. CASE UnlockStep(t, "r_unlockWrite", "mxWrite", "reading")
    <3>1. \A u \in Thread : pc[u] # "writing"
      BY <2>1 DEF IInv, Light, ReaderIn, WriterIn
    <3> QED
      BY <2>1, <3>1 DEF RW!AcquireRead, IInv
  <2> QED
    BY <1>3, <2>1 DEF LockRead, FetchIn, StoreIn, IInv
<1>4. ASSUME NEW t \in Thread, CallUnlockRead(t)
      PROVE  RW!Release(t)
  BY <1>4 DEF CallUnlockRead, RW!Release, IInv
<1>5. ASSUME NEW t \in Thread, UnlockRead(t)
      PROVE  UNCHANGED holdBar
  BY <1>5 DEF UnlockRead, FetchOut, StoreOut, IInv
<1>6. ASSUME NEW t \in Thread, LockWrite(t)
      PROVE  RW!AcquireWrite(t) \/ UNCHANGED holdBar
  <2>1. CASE UnlockStep(t, "w_unlockWrite", "mxWrite", "writing")
    <3>1. \A u \in Thread : pc[u] \notin {"reading", "writing"}
      BY <2>1 DEF IInv, Light, Guarded, ReaderIn, WriterIn
    <3> QED
      BY <2>1, <3>1 DEF RW!AcquireWrite, IInv
  <2> QED
    BY <1>6, <2>1 DEF LockWrite, IInv
<1>7. ASSUME NEW t \in Thread, UnlockWrite(t)
      PROVE  RW!Release(t)
  BY <1>7 DEF UnlockWrite, RW!Release, IInv
<1> QED
  BY <1>1, <1>2, <1>3, <1>4, <1>5, <1>6, <1>7 DEF Next, Step, RW!Next

\* The lock of three mutexes and a counter implements the read/write lock
\* that the comment of thread.c describes.
THEOREM Refinement == Spec => RWLockSpec
<1>1. Init => RW!Init
  BY DEF Init, RW!Init, holdBar
<1> QED
  BY <1>1, StepRefines, Inductive, PTL DEF Spec, RWLockSpec, RW!Spec

-----------------------------------------------------------------------------
\* A thread that starts to read comes from the entrance, so that it cannot do
\* so while a writer stands there.
LEMMA ReadersComeIn ==
  ASSUME IInv, Next, NEW t \in Thread, pc[t] # "reading", pc'[t] = "reading"
  PROVE  pc[t] = "r_unlockWrite"
<1> USE DEF Goto, LockStep, UnlockStep, IInv, PCTypeOK
<1>1. PICK u \in Thread : CallLockRead(u) \/ CallLockWrite(u) \/ Step(u)
  BY DEF Next
<1>2. CASE CallLockRead(u) \/ CallLockWrite(u)
  BY <1>2 DEF CallLockRead, CallLockWrite
<1>3. CASE LockRead(u)
  BY <1>3 DEF LockRead, FetchIn, StoreIn
<1>4. CASE CallUnlockRead(u) \/ UnlockRead(u)
  BY <1>4 DEF CallUnlockRead, UnlockRead, FetchOut, StoreOut
<1>5. CASE LockWrite(u) \/ UnlockWrite(u)
  BY <1>5 DEF LockWrite, UnlockWrite
<1> QED
  BY <1>1, <1>2, <1>3, <1>4, <1>5 DEF Step

\* While a writer waits for the light nobody starts to read.
THEOREM EntranceShut == Spec => WriterShutsEntrance
<1> DEFINE A == \A w \in Thread : pc[w] = "w_lockRead" /\ pc'[w] = "w_lockRead"
                  => {t \in Thread : pc'[t] = "reading"}
                        \subseteq {t \in Thread : pc[t] = "reading"}
<1>1. ASSUME IInv, Next PROVE A
  <2> SUFFICES ASSUME NEW w \in Thread, pc[w] = "w_lockRead",
                      NEW t \in Thread, pc'[t] = "reading", pc[t] # "reading"
               PROVE  FALSE
    OBVIOUS
  <2>1. pc[t] = "r_unlockWrite"
    BY <1>1, ReadersComeIn
  <2> QED
    BY <1>1, <2>1 DEF IInv, Guarded, Entrance
<1>2. IInv /\ [Next]_vars => [A]_vars
  BY <1>1
<1> QED
  BY <1>2, Inductive, PTL DEF Spec, WriterShutsEntrance
=============================================================================
