------------------------------- MODULE Portal -------------------------------
(***************************************************************************)
(* The parts of the portal that keep their state in rows of its own          *)
(* database: login and lock, the second factor, users and roles, the         *)
(* cleanup of logs and audits, and the log of operations.  They run side by  *)
(* side and share no variable.                                               *)
(***************************************************************************)
EXTENDS Login, SecondFactor, Administration, Retention, OperationAudit

PortalSpec == LoginSpec /\ FactorSpec /\ AdminSpec /\ RetentionSpec /\ AuditSpec
----------------------------------------------------------------------------
(* What the parts promise together. *)

\* Every variable of every part keeps its type.
TypesOK == LoginTypeOK /\ FactorTypeOK /\ AdminTypeOK /\ RetentionTypeOK /\ AuditTypeOK

\* Access: a lock holds, a logout is final, a second factor that is on can be shown.
AccessHolds == LockHolds /\ LogoutIsFinal /\ FactorUsable

\* Administration: users have the roles that were asked for, the built-in administrator
\* is in charge, and new actions reach the roles of their page.
RolesHold == RolesAsAsked /\ AdminInCharge /\ ActionsInherited

\* Logs: what was stored is logged once, and a pass of the cleanup removes what it has to.
LogsHold == LoggedOnce /\ PassCleans
=============================================================================
