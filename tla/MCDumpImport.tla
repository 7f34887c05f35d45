---------------------------- MODULE MCDumpImport ----------------------------
(* Bounded instances of DumpImport for TLC. *)
EXTENDS DumpImport

AllPolicies == {"append", "overwrite", "skip"}
Skipping == {"skip"}
Overwriting == {"overwrite"}
Second == {2}
None == {}
=============================================================================
