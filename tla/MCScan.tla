-------------------------------- MODULE MCScan --------------------------------
(* Constants for checking ScanTask. *)
EXTENDS ScanTask

CONSTANTS t1, r1, r2, v1, v2

OneScan    == {t1}
TwoThreads == {r1, r2}
TwoViews   == {v1, v2}

Undisturbed(t) == scanCrashes = 0 /\ ~scan[t].cancel /\ scanView[v1].pc # "cancel"

\* One retry beside cancellations and a stop, or beside a removed host; or two
\* retries, by two requests or one.  After two overlapping preparations, of
\* which the properties promise nothing, the task is not followed further.
Narrowed == \A t \in Scans :
    /\ ~overlapped[t]
    /\ scanView[v2].pc # "cancel"
    /\ IF retries[t] > 1 THEN gone = {} /\ Undisturbed(t) ELSE scanView[v2].pc = "idle"
    /\ gone = {} \/ Undisturbed(t)
=============================================================================
