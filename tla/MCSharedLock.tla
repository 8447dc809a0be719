---------------------------- MODULE MCSharedLock ----------------------------
(* Model-checking instance of SharedLock: the threads are model values. *)
EXTENDS SharedLock
=============================================================================
