--------------------------- MODULE MCTransferTask ---------------------------
(* Constants for checking TransferTask; workers are interchangeable. *)
EXTENDS TransferTask, TLC

CONSTANTS w1, w2, r1, r2

OneWorker   == {w1}
TwoWorkers  == {w1, w2}
OneRequest  == {r1}
TwoRequests == {r1, r2}
AnyWorker   == Permutations(TwoWorkers)

\* Two workers and one row of any kind; or two rows, both of dump imports, with one
\* worker at a time, no crash, no deadline and the connections in place.
TwoRows  == task[2].status # "none"
Narrowed == TwoRows =>
    /\ \E w \in Workers : worker[w] = Idle
    /\ connections /\ crashes = 0
    /\ \A t \in Tasks : task[t].kind = "dump" /\ ~task[t].overdue /\ ~task[t].due
=============================================================================
