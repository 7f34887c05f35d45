---------------------------- MODULE HostReadings ----------------------------
(***************************************************************************)
(* What is read from a host by one-shot commands: container logs, read piece *)
(* by piece within a limit and a time; CPU, memory and swap figures computed *)
(* from counters the host reports; and the paths of a file listing.          *)
(*                                                                         *)
(* Shares are in tenths of a percent.  A path is the kind of its first part  *)
(* ("/", "~", "." or a name) and the names below it.                         *)
(***************************************************************************)
EXTENDS Integers, Sequences, FiniteSets, SequencesExt, FiniteSetsExt

CONSTANTS
    LogLimit,      \* MAX_LOG_BYTES
    MaxWritten,    \* bound: bytes of log the host writes
    Counters       \* values of the host's counters

ASSUME ReadingsAssumption ==
    LogLimit \in Nat /\ MaxWritten \in Nat /\ Counters \subseteq Nat /\ Counters # {}

VARIABLES
    logs,       \* the host: bytes written, exit status; the reader: bytes got, pc, result
    sample,     \* counters of the host, chosen once
    listing     \* a directory and a name in it, chosen once

readingVars == <<logs, sample, listing>>

LogPC == {"look", "exit?", "done"}
LogResult == {"none", "whole", "cut", "failed", "late"}

ReadingsTypeOK ==
    /\ logs.written \in 0..MaxWritten /\ logs.got \in 0..MaxWritten /\ logs.got <= logs.written
    /\ logs.exit \in {"running", "ok", "bad"} /\ logs.pc \in LogPC /\ logs.result \in LogResult
    /\ logs.missed \in BOOLEAN
    /\ logs.got <= LogLimit + 1
----------------------------------------------------------------------------
(* read_bounded_logs *)

LogsInit == logs = [written |-> 0, exit |-> "running", got |-> 0, pc |-> "look",
                    result |-> "none", missed |-> FALSE]

\* docker logs writes, then exits.
WriteLog ==
    /\ logs.exit = "running" /\ logs.written < MaxWritten
    /\ logs' = [logs EXCEPT !.written = @ + 1, !.missed = @ \/ logs.pc = "exit?"]
Exit ==
    /\ logs.exit = "running"
    /\ \E status \in {"ok", "bad"} : logs' = [logs EXCEPT !.exit = status]

\* What is there is taken, at most one byte over the limit.
TakePiece ==
    /\ logs.pc = "look" /\ logs.got < logs.written
    /\ \E n \in 1..Min({logs.written - logs.got, LogLimit + 1 - logs.got}) :
         LET got == logs.got + n IN
         logs' = [logs EXCEPT !.got = got,
                              !.pc = IF got > LogLimit THEN "done" ELSE "look",
                              !.result = IF got > LogLimit THEN "cut" ELSE "none",
                              !.missed = FALSE]

\* Nothing was there ...
FindNothing ==
    /\ logs.pc = "look" /\ logs.got = logs.written
    /\ logs' = [logs EXCEPT !.pc = "exit?"]

\* Mutant: an exit is believed before the output is looked at.
BelieveExit ==
    /\ logs.pc \in {"look", "exit?"}
    /\ logs' = IF logs.exit = "running" THEN [logs EXCEPT !.pc = "look"]
               ELSE [logs EXCEPT !.pc = "done", !.result = IF logs.exit = "ok" THEN "whole" ELSE "failed"]

\* ... and then the exit is looked at: output that came in between is not read.
LookAtExit ==
    /\ logs.pc = "exit?"
    /\ logs' = IF logs.exit = "running" THEN [logs EXCEPT !.pc = "look"]
               ELSE [logs EXCEPT !.pc = "done", !.result = IF logs.exit = "ok" THEN "whole" ELSE "failed"]

\* Thirty seconds are over.
LogsLate ==
    /\ logs.pc = "look"
    /\ logs' = [logs EXCEPT !.pc = "done", !.result = "late"]
----------------------------------------------------------------------------
(* Figures of the host monitor. *)

Clamp(low, high, n) == Max({low, Min({high, n})})

\* Mutant: a negative share is not raised to zero.
CpuUnclamped(before, after) ==
    LET idle == after.idle + after.wait - before.idle - before.wait
        total == idle + after.busy - before.busy
    IN  IF total <= 0 THEN 0 ELSE Min({1000, 1000 - (1000 * idle) \div total})

\* calculate_monitor_cpu_usage of two samples
CpuUsage(before, after) ==
    LET idle == after.idle + after.wait - before.idle - before.wait
        total == idle + after.busy - before.busy
    IN  IF total <= 0 THEN 0 ELSE Clamp(0, 1000, 1000 - (1000 * idle) \div total)

\* parse_monitor_memory: without MemAvailable, free memory, buffers and cache.
Memory(m) ==
    LET available == IF m.available > 0 THEN m.available ELSE m.free + m.cached
        used == Max({0, m.total - available})
    IN  [used |-> used, share |-> (1000 * used) \div m.total]

\* Swap: used is what is not free, within the total.
Swap(m) == LET used == Max({0, Min({m.total, m.total - m.free})}) IN
           [used |-> used, share |-> IF m.total = 0 THEN 0 ELSE (1000 * used) \div m.total]

\* parse_monitor_network_rates: a counter that went back counts as no traffic.
Rate(before, after) == Max({0, after - before})
----------------------------------------------------------------------------
(* Paths of a listing. *)

Roots == {"/", "~", ".", "name"}
Path == [root : Roots, names : SeqOf({"a", "b"}, 2)]

\* join_remote_path of a directory and a name; a relative name stays relative.
Join(dir, name) ==
    IF dir.root = "." /\ dir.names = <<>> THEN [root |-> "name", names |-> <<name>>]
    ELSE [dir EXCEPT !.names = Append(@, name)]

\* Mutant: a name alone has no parent.
ParentOfRooted(path) ==
    IF path.names = <<>> THEN path ELSE [path EXCEPT !.names = Front(@)]

\* parent_remote_path; of "/" it is ".", for the last slash is taken off first.
Parent(path) ==
    CASE path.names = <<>> -> IF path.root = "~" THEN path ELSE [root |-> ".", names |-> <<>>]
      [] path.root = "name" /\ Len(path.names) = 1 -> [root |-> ".", names |-> <<>>]
      [] OTHER -> [path EXCEPT !.names = Front(@)]
----------------------------------------------------------------------------
CpuSample == [idle : Counters, wait : Counters, busy : Counters]
ReadingsInit ==
    /\ LogsInit
    /\ \/ /\ sample \in [before : CpuSample, after : CpuSample] /\ listing = <<>>
       \/ /\ sample \in [total : Counters, available : Counters, free : Counters, cached : Counters]
          /\ listing = <<>>
       \/ /\ sample = <<>>
          /\ listing \in {p \in Path : p.root = "name" => p.names # <<>>}

\* Logs are read for one listing only: they have nothing to do with the rest.
ReadingsNext ==
    /\ listing = [root |-> "/", names |-> <<>>]
    /\ \/ WriteLog \/ Exit \/ TakePiece \/ FindNothing \/ LookAtExit \/ LogsLate
    /\ UNCHANGED <<sample, listing>>
ReadingsSpec == ReadingsInit /\ [][ReadingsNext]_readingVars
----------------------------------------------------------------------------
(* Properties. *)

\* Logs given as whole are all that was written, unless output came between the
\* look for output and the look at the exit; logs given as cut are longer than
\* the limit, by no more than one byte that is dropped.
LogsHonest ==
    /\ logs.result = "whole" /\ ~logs.missed => logs.got = logs.written /\ logs.got <= LogLimit
    /\ logs.result = "cut" => logs.got = LogLimit + 1

\* Whatever the counters do, shares stay within a hundred percent, use within the
\* total, and rates are not negative.
FiguresInRange ==
    /\ listing = <<>> /\ "before" \in DOMAIN sample =>
         /\ CpuUsage(sample.before, sample.after) \in 0..1000
         /\ Rate(sample.before.busy, sample.after.busy) >= 0
    /\ listing = <<>> /\ "total" \in DOMAIN sample =>
         /\ sample.total > 0 => Memory(sample).used \in 0..sample.total /\ Memory(sample).share \in 0..1000
         /\ Swap(sample).used \in 0..sample.total /\ Swap(sample).share \in 0..1000

\* The parent of an entry of a directory is the directory.
ParentUndoesJoin ==
    listing # <<>> => \A name \in {"a", "b"} : Parent(Join(listing, name)) = listing
=============================================================================
