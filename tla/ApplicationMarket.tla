------------------------- MODULE ApplicationMarket -------------------------
(* backend/application_market: plans.py, runner.py, targets.py, and the preview, tasks
   and cancel requests of views.py, for one application on one target.

   A plan is built from the definition in the catalogue and shown; the request to run
   it builds it again and compares.  A thread runs the plan's command on the machine
   the target leads to by then, and records the installation.  A cancel reads the
   task, then stores two columns.  Threads end with the process.  A plan is its action
   and the version of its definition; texts, configuration and logs are left out. *)
EXTENDS Naturals, FiniteSets

CONSTANTS
    MarketMachines, NoMachine,
    MarketActions,     \* bound: the actions asked for
    LastMarketTask,    \* bound: tasks are 1..LastMarketTask
    LastVersion        \* bound: versions of the definition are 1..LastVersion

ASSUME MarketAssumption ==
    /\ LastMarketTask \in Nat /\ LastVersion \in Nat \ {0}
    /\ MarketMachines # {} /\ NoMachine \notin MarketMachines
    /\ MarketActions \subseteq {"install", "update", "uninstall", "start", "stop", "restart"}

VARIABLES
    leadsTo,     \* the machine the target leads to: the local one, or that of a ManagedHost row
    isLocal,     \* the target is the machine of the server
    version,     \* the version of the definition the catalogue has
    box,         \* external: what docker compose has on each machine
    lingering,   \* external: commands that were given up on and may still act
    installed,   \* the ApplicationInstallation row
    shown,       \* the plan that was shown last, and the machine it was shown for
    mtask,       \* ApplicationTask rows
    mrunner,     \* the thread of each task
    canceler,    \* per task, the status a cancel has read
    tale         \* history: why the row of the installation may not be true

marketVars == <<leadsTo, isLocal, version, box, lingering, installed, shown, mtask, mrunner, canceler, tale>>

MarketTasks == 1..LastMarketTask
Versions    == 1..LastVersion
Plans       == [action : MarketActions, version : Versions]
OpenStatuses        == {"queued", "running"}
EndedStatuses       == {"success", "failed", "canceled", "unknown"}
Box         == [up : {"none", "running", "stopped"}, version : Versions \cup {0}, file : Versions \cup {0}]
NotInstalled == [is |-> FALSE, status |-> "none", version |-> 0]
NoPlan      == [is |-> FALSE]
NoTask      == [is |-> FALSE]
NoRunner    == [pc |-> "none", sent |-> FALSE, told |-> "none", heeds |-> FALSE, late |-> FALSE, at |-> NoMachine]
NoCancel    == "none"
Tales       == {"overlapped", "given up", "moved", "stopped", "blind", "renewed", "half done", "unrecorded"}

\* What the rows are.
Installation == [is : {TRUE}, status : {"running", "stopped"}, version : Versions]
ShownPlan    == [is : {TRUE}, plan : Plans, at : MarketMachines]
TaskRow      == [is : {TRUE}, status : OpenStatuses \cup EndedStatuses, cancel : BOOLEAN, plan : Plans, seen : ShownPlan]
RunnerRow    == [pc : {"none", "ready", "read", "running", "told", "done", "dead"}, sent : BOOLEAN,
                 told : EndedStatuses \cup {"none"}, heeds : BOOLEAN, late : BOOLEAN,
                 at : MarketMachines \cup {NoMachine}]

MarketTypeOK ==
    /\ leadsTo \in MarketMachines \cup {NoMachine} /\ isLocal \in BOOLEAN /\ version \in Versions
    /\ box \in [MarketMachines -> Box] /\ lingering \subseteq MarketMachines \X Plans
    /\ installed \in Installation \cup {NotInstalled} /\ shown \in ShownPlan \cup {NoPlan}
    /\ mtask \in [MarketTasks -> TaskRow \cup {NoTask}]
    /\ mrunner \in [MarketTasks -> RunnerRow]
    /\ canceler \in [MarketTasks -> OpenStatuses \cup {NoCancel}]
    /\ tale \subseteq Tales

Working(t) == mrunner[t].pc \in {"read", "running", "told"}
Others(t) == {u \in MarketTasks \ {t} : Working(u)}
NoFaultYet == tale \cap {"given up", "moved", "stopped", "half done", "unrecorded"} = {}   \* bound: none of these after another
Runs(t, r) == mrunner' = [mrunner EXCEPT ![t] = r]
Stays == UNCHANGED <<leadsTo, isLocal, version>>
----------------------------------------------------------------------------
(* Requests. *)

\* preview, build_plan: the target is there and has docker and compose.  Bound: while a
\* task may come.
Preview ==
    /\ leadsTo # NoMachine /\ \E t \in MarketTasks : ~mtask[t].is
    /\ \E a \in MarketActions : shown' = [is |-> TRUE, plan |-> [action |-> a, version |-> version], at |-> leadsTo]
    /\ Stays /\ UNCHANGED <<box, lingering, installed, mtask, mrunner, canceler, tale>>

\* assert_digest: the plan that is built now is the one that was shown.
DigestOfAction(plan) == shown.is /\ shown.plan.action = plan.action   \* mutant
DigestMatches(plan) == shown.is /\ shown.plan = plan

\* tasks_view POST: the task is stored and its thread is started; nothing looks at
\* the task in between that it would not find the same after.
ConfirmPlan ==
    /\ leadsTo # NoMachine
    /\ \E t \in MarketTasks, a \in MarketActions :
         LET plan == [action |-> a, version |-> version] IN
         /\ ~mtask[t].is /\ \A u \in 1..t - 1 : mtask[u].is
         /\ DigestMatches(plan)
         /\ mtask' = [mtask EXCEPT ![t] = [is |-> TRUE, status |-> "queued", cancel |-> FALSE,
                                           plan |-> plan, seen |-> shown]]
         /\ Runs(t, [NoRunner EXCEPT !.pc = "ready"])
    /\ Stays /\ UNCHANGED <<box, lingering, installed, shown, canceler, tale>>

\* task_cancel reads the task; then it stores the mark, and the status it read, or canceled.
ReadForCancel(t) ==
    /\ mtask[t].is /\ mtask[t].status \in OpenStatuses
    /\ \A u \in MarketTasks : canceler[u] = NoCancel /\ (mtask[u].is => ~mtask[u].cancel)   \* bound: one cancel
    /\ canceler' = [canceler EXCEPT ![t] = mtask[t].status]
    /\ Stays /\ UNCHANGED <<box, lingering, installed, shown, mtask, mrunner, tale>>
StoreCancel(t) ==
    /\ canceler[t] # NoCancel
    /\ mtask' = [mtask EXCEPT ![t].cancel = TRUE,
                              ![t].status = IF canceler[t] = "queued" THEN "canceled" ELSE canceler[t]]
    /\ Runs(t, [mrunner[t] EXCEPT !.heeds = @ \/ mrunner[t].pc = "ready",
                                  !.late = @ \/ mrunner[t].pc # "ready"])
    /\ canceler' = [canceler EXCEPT ![t] = NoCancel]
    /\ Stays /\ UNCHANGED <<box, lingering, installed, shown, tale>>
----------------------------------------------------------------------------
(* run_application_task *)

Heedless(row) == TRUE   \* mutant: the mark of a cancel is not looked at
MayRun(row) == ~row.cancel

ReadTask(t) ==
    /\ mrunner[t].pc = "ready"
    /\ IF MayRun(mtask[t])
       THEN Runs(t, [mrunner[t] EXCEPT !.pc = "read"]) /\ UNCHANGED mtask
       ELSE /\ mtask' = [mtask EXCEPT ![t].status = "canceled"]
            /\ Runs(t, [mrunner[t] EXCEPT !.pc = "done", !.told = "canceled"])
    /\ tale' = IF Others(t) # {} THEN tale \cup {"overlapped"} ELSE tale
    /\ Stays /\ UNCHANGED <<box, lingering, installed, shown, canceler>>
MarkRunning(t) ==
    /\ mrunner[t].pc = "read"
    /\ mtask' = [mtask EXCEPT ![t].status = "running"]
    /\ Runs(t, [mrunner[t] EXCEPT !.pc = "running"])
    /\ Stays /\ UNCHANGED <<box, lingering, installed, shown, canceler, tale>>

\* External: docker compose.  up writes the file and starts; the others need the file, and
\* act on the containers that are there.
ComposeActs(b, plan) ==
    CASE plan.action \in {"install", "update"} -> [up |-> "running", version |-> plan.version, file |-> plan.version]
      [] plan.action = "uninstall" -> [b EXCEPT !.up = "none", !.version = 0]
      [] plan.action = "stop" -> [b EXCEPT !.up = IF @ = "none" THEN @ ELSE "stopped"]
      [] OTHER -> [b EXCEPT !.up = IF @ = "none" THEN @ ELSE "running"]
Possible(b, plan) == plan.action \in {"install", "update"} \/ b.file # 0
Blind(b, plan) == plan.action \in {"start", "stop", "restart"} /\ b.up = "none"

\* update_installation_from_plan
RecordsStopped(plan) ==   \* mutant: an application that is removed is recorded as stopped
    [is |-> TRUE, status |-> IF plan.action \in {"uninstall", "stop"} THEN "stopped" ELSE "running", version |-> plan.version]
Records(plan) ==
    IF plan.action = "uninstall" THEN NotInstalled
    ELSE [is |-> TRUE, status |-> IF plan.action = "stop" THEN "stopped" ELSE "running", version |-> plan.version]

Ends(t, told) == Runs(t, [mrunner[t] EXCEPT !.pc = "told", !.sent = TRUE, !.told = told, !.at = leadsTo])
CommandActs(t) ==
    LET b == box[leadsTo] IN
    /\ mrunner[t].pc = "running" /\ leadsTo # NoMachine /\ Possible(b, mtask[t].plan)
    /\ box' = [box EXCEPT ![leadsTo] = ComposeActs(b, mtask[t].plan)]
    /\ Stays /\ UNCHANGED <<lingering, shown, mtask, canceler>>
\* The command ended well and the row of the installation is stored ...
CommandSucceeds(t) ==
    LET plan == mtask[t].plan
        b == box[leadsTo] IN
    /\ CommandActs(t) /\ Ends(t, "success")
    /\ installed' = Records(plan)
    /\ tale' = tale \cup (IF Blind(b, plan) THEN {"blind"} ELSE {})
                    \cup (IF plan.version # b.version /\ plan.action \in {"start", "stop", "restart"} THEN {"renewed"} ELSE {})
\* ... or storing it raises: what the machine has now has no row.
RecordFails(t) ==
    /\ NoFaultYet /\ CommandActs(t) /\ Ends(t, "unknown")
    /\ tale' = tale \cup {"unrecorded"} /\ UNCHANGED installed

\* External: what a machine may have after a command that failed.  The command of an
\* install writes the file before compose begins; compose may have replaced, stopped or
\* removed containers.
HalfDone(b, plan) ==
    LET renews == plan.action \in {"install", "update"}
        file   == IF renews THEN plan.version ELSE b.file
        after  == {c \in [up : {"none", "running", "stopped"}, version : {0, b.version, plan.version}, file : {file}] :
                     /\ c.up = "none" <=> c.version = 0
                     /\ ~renews => c.version \in {0, b.version}
                     /\ ~renews /\ plan.action # "uninstall" => (c.up = "none" <=> b.up = "none")}
    IN {b} \cup IF Possible(b, plan) THEN after ELSE {}
\* It ended with an error: the row stays as it was.
CommandFails(t) ==
    /\ mrunner[t].pc = "running" /\ leadsTo # NoMachine
    /\ \E c \in HalfDone(box[leadsTo], mtask[t].plan) :
         /\ c = box[leadsTo] \/ NoFaultYet
         /\ box' = [box EXCEPT ![leadsTo] = c]
         /\ tale' = IF c.up # box[leadsTo].up \/ c.version # box[leadsTo].version THEN tale \cup {"half done"} ELSE tale
    /\ Ends(t, "failed")
    /\ Stays /\ UNCHANGED <<lingering, installed, shown, mtask, canceler>>
\* There is no such host any more.
TargetGone(t) ==
    /\ mrunner[t].pc = "running" /\ leadsTo = NoMachine
    /\ Runs(t, [mrunner[t] EXCEPT !.pc = "told", !.told = "unknown"])
    /\ Stays /\ UNCHANGED <<box, lingering, installed, shown, mtask, canceler, tale>>
\* It took longer than the runner waits, or the connection broke: that is a failure on a
\* host, unknown on the local machine; the command may still act.
CommandGivenUp(t) ==
    /\ NoFaultYet /\ mrunner[t].pc = "running" /\ leadsTo # NoMachine
    /\ lingering' = lingering \cup {<<leadsTo, mtask[t].plan>>}
    /\ Ends(t, IF isLocal THEN "unknown" ELSE "failed")
    /\ tale' = tale \cup {"given up"}
    /\ Stays /\ UNCHANGED <<box, installed, shown, mtask, canceler>>
ActsLate == \E c \in lingering :
    /\ box' = IF Possible(box[c[1]], c[2]) THEN [box EXCEPT ![c[1]] = ComposeActs(@, c[2])] ELSE box
    /\ lingering' = lingering \ {c}
    /\ Stays /\ UNCHANGED <<installed, shown, mtask, mrunner, canceler, tale>>

\* Mutant: the last status is not stored.
LeavesStatus(status, told) == status
LastStatus(status, told) == told
SaveOutcome(t) ==
    /\ mrunner[t].pc = "told"
    /\ mtask' = [mtask EXCEPT ![t].status = LastStatus(@, mrunner[t].told)]
    /\ Runs(t, [mrunner[t] EXCEPT !.pc = "done", !.late = @ \/ canceler[t] # NoCancel])
    /\ Stays /\ UNCHANGED <<box, lingering, installed, shown, canceler, tale>>
----------------------------------------------------------------------------
(* Around the market. *)

\* A sync of the sources brings a newer definition.
Redefine ==
    /\ NoFaultYet /\ version < LastVersion /\ version' = version + 1
    /\ UNCHANGED <<leadsTo, isLocal, box, lingering, installed, shown, mtask, mrunner, canceler, tale>>
\* An operator edits the host of the target: another machine, or none.  The
\* installation goes with its host.
EditTarget ==
    /\ NoFaultYet /\ ~isLocal /\ leadsTo # NoMachine
    /\ leadsTo' \in (MarketMachines \cup {NoMachine}) \ {leadsTo}
    /\ installed' = IF leadsTo' = NoMachine THEN NotInstalled ELSE installed
    /\ tale' = tale \cup {"moved"}
    /\ UNCHANGED <<isLocal, version, box, lingering, shown, mtask, mrunner, canceler>>
\* The process ends: its threads and requests with it; what was sent may still act.
RestartMarket ==
    /\ NoFaultYet /\ \E t \in MarketTasks : mtask[t].is
    /\ mrunner' = [t \in MarketTasks |->
                     IF mtask[t].is /\ mrunner[t].pc # "done" THEN [mrunner[t] EXCEPT !.pc = "dead"] ELSE mrunner[t]]
    /\ lingering' = lingering \cup
         {<<leadsTo, mtask[t].plan>> : t \in {u \in MarketTasks : mrunner[u].pc = "running" /\ leadsTo # NoMachine}}
    /\ canceler' = [t \in MarketTasks |-> NoCancel]
    /\ tale' = tale \cup {"stopped"}
    /\ Stays /\ UNCHANGED <<box, installed, shown, mtask>>
----------------------------------------------------------------------------
MarketInit ==
    /\ leadsTo = (CHOOSE m \in MarketMachines : TRUE) /\ isLocal \in BOOLEAN /\ version = 1
    /\ box = [m \in MarketMachines |-> [up |-> "none", version |-> 0, file |-> 0]]
    /\ lingering = {} /\ installed = NotInstalled /\ shown = NoPlan
    /\ mtask = [t \in MarketTasks |-> NoTask] /\ mrunner = [t \in MarketTasks |-> NoRunner]
    /\ canceler = [t \in MarketTasks |-> NoCancel] /\ tale = {}

MarketNext ==
    \/ Preview \/ ConfirmPlan \/ ActsLate \/ Redefine \/ EditTarget \/ RestartMarket
    \/ \E t \in MarketTasks :
         \/ ReadForCancel(t) \/ StoreCancel(t) \/ ReadTask(t) \/ MarkRunning(t)
         \/ CommandSucceeds(t) \/ RecordFails(t) \/ CommandFails(t) \/ TargetGone(t) \/ CommandGivenUp(t)
         \/ SaveOutcome(t)

MarketSpec == MarketInit /\ [][MarketNext]_marketVars
----------------------------------------------------------------------------
(* Properties. *)

\* What a task runs is the plan its user saw, on the machine it was shown for unless the
\* host was edited meanwhile: the plan names the target, not its address.
ConfirmedRuns == \A t \in MarketTasks : mtask[t].is =>
    /\ mtask[t].plan = mtask[t].seen.plan
    /\ mrunner[t].sent => mrunner[t].at = mtask[t].seen.at \/ "moved" \in tale

\* A cancel that was stored before the thread read the task is heeded: nothing is sent.
CancelHeeded == \A t \in MarketTasks : mrunner[t].heeds => ~mrunner[t].sent

\* A task whose thread ended tells how: unless a cancel that had read the task before
\* stored its status after, and the task stays running, or canceled, for ever.
OutcomeTold == \A t \in MarketTasks :
    mrunner[t].pc = "done" /\ ~mrunner[t].late => mtask[t].status = mrunner[t].told

\* When no task is at work, the row of the installation says what is on the machine: if
\* tasks did not overlap, were answered, acted on containers that were there and were
\* planned for the version that runs, no failed command had changed containers, every
\* row could be stored, and the host stayed the same.
InstalledTrue == tale = {} /\ (\A t \in MarketTasks : ~Working(t)) => LET b == box[leadsTo] IN
    /\ installed.is <=> b.up # "none"
    /\ installed.is => installed.status = b.up /\ installed.version = b.version
=============================================================================
