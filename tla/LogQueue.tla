------------------------------ MODULE LogQueue ------------------------------
(***************************************************************************)
(* What logger.c:63-66 says of an asynchronous log: the caller passes a    *)
(* log item, the logger puts it on a queue and sends it to the log file in *)
(* another thread.  Items reach the file in the order they were put on the *)
(* queue, each at most once; an item is lost only if its file cannot be    *)
(* opened.                                                                 *)
(***************************************************************************)
EXTENDS Sequences, Naturals

CONSTANTS Item,
          MayFail   \* whether a file may fail to open

VARIABLES queue,    \* the items that wait, oldest first
          taken,    \* the item in the hand of the logging thread, as <<i>>
          written,  \* the items in the log files, oldest first
          open      \* whether a log file is open

vars == <<queue, taken, written, open>>

Init == queue = <<>> /\ taken = <<>> /\ written = <<>> /\ open = FALSE

Elements(s) == {s[k] : k \in 1 .. Len(s)}

Put(i) == /\ i \notin Elements(queue) \cup Elements(taken) \cup Elements(written)
          /\ queue' = Append(queue, i)
          /\ UNCHANGED <<taken, written, open>>

Take == /\ taken = <<>>
        /\ queue # <<>>
        /\ taken' = <<Head(queue)>>
        /\ queue' = Tail(queue)
        /\ UNCHANGED <<written, open>>

\* The item is written to an open file, or lost and none is open.
Write == /\ taken # <<>>
         /\ \/ open' /\ written' = written \o taken
            \/ MayFail /\ ~ open' /\ UNCHANGED written
         /\ open' \in BOOLEAN
         /\ taken' = <<>>
         /\ UNCHANGED queue

Close == /\ taken = <<>>
         /\ open' = FALSE
         /\ UNCHANGED <<queue, taken, written>>

Next == (\E i \in Item : Put(i)) \/ Take \/ Write \/ Close

Spec == Init /\ [][Next]_vars
=============================================================================
