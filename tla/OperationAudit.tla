--------------------------- MODULE OperationAudit ---------------------------
(* backend/system_management/middleware.py and record_operation_log of services.py:
   every request that stores something leaves one operation log, by its view or else
   by the middleware, and login logs are written likewise by the views.  Nothing
   holds a view's change and its log together. *)
EXTENDS Naturals, FiniteSets

CONSTANT Writes   \* bound: requests

VARIABLES
    write,     \* requests: how far, answer, what was stored
    written    \* operation logs of each request

auditVars == <<write, written>>

WriteRow == [pc : {"new", "view", "log", "answered", "end"}, code : {"none", "ok", "refused", "error"},
             rule : BOOLEAN, own : BOOLEAN, stored : BOOLEAN, marked : BOOLEAN, failed : BOOLEAN]

AuditTypeOK == write \in [Writes -> WriteRow] /\ written \in [Writes -> 0..2]

\* Paths outside of AUDIT_RULES are left alone; bound: writes by a user who is logged in.
AuditInit ==
    /\ write \in [Writes -> {[pc |-> "new", code |-> "none", rule |-> rule, own |-> own, stored |-> FALSE,
                              marked |-> FALSE, failed |-> FALSE] : rule, own \in BOOLEAN}]
    /\ written = [w \in Writes |-> 0]

Turns(w, row) == write' = [write EXCEPT ![w] = row]
Add(w) == written' = [written EXCEPT ![w] = @ + 1]
----------------------------------------------------------------------------
\* The view refuses, or does what was asked and goes on to its log, if it has one of its
\* own; there may be nothing to do.  It may also fail, or answer an error, when it has
\* stored a part of what was asked: views hold no transaction around their steps.
View(w) ==
    /\ write[w].pc = "new" /\ UNCHANGED written
    /\ \/ Turns(w, [write[w] EXCEPT !.pc = "answered", !.code = "refused"])
       \/ Turns(w, [write[w] EXCEPT !.pc = IF write[w].own THEN "log" ELSE "answered", !.code = "ok",
                                   !.stored = TRUE])
       \/ Turns(w, [write[w] EXCEPT !.pc = "answered", !.code = "ok"])
       \/ \E part \in BOOLEAN :
            Turns(w, [write[w] EXCEPT !.pc = "answered", !.code = "error", !.stored = part])

\* Mutant: the mark stays on the view's request, the middleware has the one below it.
MarkAbove(row) == row
\* record_operation_log marks both requests.
Mark(row) == [row EXCEPT !.marked = TRUE]

\* A log that cannot be stored makes the answer of a view an error, though it has stored
\* what was asked.
OwnLog(w) ==
    /\ write[w].pc = "log"
    /\ \/ Add(w) /\ Turns(w, [Mark(write[w]) EXCEPT !.pc = "answered"])
       \/ /\ UNCHANGED written
          /\ Turns(w, [write[w] EXCEPT !.pc = "answered", !.code = "error", !.failed = TRUE])

\* _record_if_needed: a log that cannot be stored is passed over.
Middleware(w) ==
    /\ write[w].pc = "answered"
    /\ IF write[w].code = "ok" /\ ~write[w].marked /\ write[w].rule
       THEN \/ Add(w) /\ Turns(w, [write[w] EXCEPT !.pc = "end"])
            \/ UNCHANGED written /\ Turns(w, [write[w] EXCEPT !.pc = "end", !.failed = TRUE])
       ELSE UNCHANGED written /\ Turns(w, [write[w] EXCEPT !.pc = "end"])

AuditNext == \E w \in Writes : View(w) \/ OwnLog(w) \/ Middleware(w)
AuditSpec == AuditInit /\ [][AuditNext]_auditVars
----------------------------------------------------------------------------
\* A request that did what was asked has one log, its view's or the middleware's, unless
\* that log could not be stored; none has two, and what was refused has none.  A view that
\* fails after it has stored a part leaves no log: the middleware passes over errors.
LoggedOnce == \A w \in Writes : write[w].pc = "end" =>
    /\ written[w] <= 1 /\ (written[w] = 1 => write[w].code = "ok")
    /\ write[w].code = "ok" /\ (write[w].rule \/ (write[w].own /\ write[w].stored)) => written[w] = 1 \/ write[w].failed
=============================================================================
