------------------------------- MODULE Mutex -------------------------------
(***************************************************************************)
(* The mutex of thread.c: CreateSemaphore(NULL,1,1,NULL) on Windows and a  *)
(* default pthread mutex elsewhere.  Neither build records an owner, so    *)
(* any thread may unlock.  Releasing a mutex that nobody holds leaves it   *)
(* free: ReleaseSemaphore fails at the maximum count, and the pthread      *)
(* mutex is stored as unlocked.                                            *)
(***************************************************************************)
VARIABLE locked      \* the set of the mutexes now held by some thread

\* thread_LockMutex: the caller waits until m is free, then takes it.
LockMutex(m) == /\ m \notin locked
                /\ locked' = locked \cup {m}

\* thread_UnlockMutex.
UnlockMutex(m) == locked' = locked \ {m}
=============================================================================
