-------------------------- MODULE TransferPromise --------------------------
(***************************************************************************)
(* What the user of a transfer task is promised, without workers, sweeps   *)
(* or files: a task runs at most once, only after its confirmation, and a  *)
(* task whose cancellation was answered "cancelled" never runs at all.     *)
(***************************************************************************)
EXTENDS Naturals

CONSTANT PromisedTasks

VARIABLE phase   \* "absent", "pending", "approved", "revoked", "started"

Phases == {"absent", "pending", "approved", "revoked", "started"}

PromiseInit == phase \in [PromisedTasks -> {"absent", "approved"}]

\* One task moves on; the others keep their phase.
Move(t, from, to) == /\ phase[t] \in from
                     /\ phase' = [phase EXCEPT ![t] = to]

\* An export, and a retry the user confirmed again, are born approved.
Submit(t)  == \/ Move(t, {"absent"}, "pending")
              \/ Move(t, {"absent"}, "approved")
Approve(t) == Move(t, {"pending"}, "approved")
Revoke(t)  == Move(t, {"pending", "approved"}, "revoked")
Start(t)   == Move(t, {"approved"}, "started")

PromiseNext == \E t \in PromisedTasks :
                  Submit(t) \/ Approve(t) \/ Revoke(t) \/ Start(t)

Promise == PromiseInit /\ [][PromiseNext]_phase
=============================================================================
