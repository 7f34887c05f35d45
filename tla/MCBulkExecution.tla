-------------------------- MODULE MCBulkExecution --------------------------
(* Constants for checking BulkExecution; hosts are interchangeable. *)
EXTENDS BulkExecution, TLC

CONSTANTS t1, h1, h2, v1

OneTask  == {t1}
OneHost  == {h1}
TwoHosts == {h1, h2}
OneView  == {v1}
AnyHost  == Permutations(TwoHosts)
=============================================================================
