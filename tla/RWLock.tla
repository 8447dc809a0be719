------------------------------- MODULE RWLock -------------------------------
(***************************************************************************)
(* What the comment at thread.c:224-232 promises of a shareable lock: a    *)
(* thread that READ locks it shares it with other readers, and "a write    *)
(* lock is exclusive.  A write lock can appear when there is no read lock  *)
(* on a shareable lock and not write lock either".                         *)
(***************************************************************************)
CONSTANT Thread

VARIABLE hold       \* hold[t]: how thread t holds the lock

Mode == {"none", "read", "write"}

RWTypeOK == hold \in [Thread -> Mode]

Init == hold = [t \in Thread |-> "none"]

AcquireRead(t) == /\ hold[t] = "none"
                  /\ \A u \in Thread : hold[u] # "write"
                  /\ hold' = [hold EXCEPT ![t] = "read"]

AcquireWrite(t) == /\ \A u \in Thread : hold[u] = "none"
                   /\ hold' = [hold EXCEPT ![t] = "write"]

Release(t) == /\ hold[t] # "none"
              /\ hold' = [hold EXCEPT ![t] = "none"]

Next == \E t \in Thread : AcquireRead(t) \/ AcquireWrite(t) \/ Release(t)

Spec == Init /\ [][Next]_hold
=============================================================================
