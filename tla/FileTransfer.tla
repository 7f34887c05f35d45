---------------------------- MODULE FileTransfer ----------------------------
(***************************************************************************)
(* Copying or moving remote files and directories over one SFTP session:   *)
(* every source is first copied into a new directory beside its target,     *)
(* then all are renamed into place, old targets and moved sources being     *)
(* kept until the end; a failure renames everything back.                   *)
(*                                                                         *)
(* A file or directory is a function from entry names to versions.  A call  *)
(* fails without an effect, or the connection is lost before or after it.   *)
(***************************************************************************)
EXTENDS Naturals

CONSTANTS
    MaxItems     \* bound: sources of one operation

ASSUME TransferAssumption == MaxItems \in Nat \ {0}

Items == 1..MaxItems   \* in the order of the list

VARIABLES
    place,     \* what is at the paths of every item
    item,      \* records of staged_transfer
    op,        \* the operation: request, progress, outcome
    link,      \* the SFTP session works
    meddled    \* history: somebody else changed a path of the operation

fileVars == <<place, item, op, link, meddled>>

Gone == [n \in {} |-> "none"]
SourceOf(kind) == [n \in IF kind = "file" THEN {"f"} ELSE {"a", "b"} |-> "new"]
TargetOf(kind) == [n \in IF kind = "file" THEN {"f"} ELSE {"b", "c"} |-> "old"]
\* What copy_entry leaves at a destination: files are replaced, directories merged.
Merged(source, dest) == [n \in DOMAIN source \cup DOMAIN dest |->
                           IF n \in DOMAIN source THEN source[n] ELSE dest[n]]

Spots    == {"source", "held", "target", "backup", "stage"}
Content  == UNION {[S -> {"new", "old", "late"}] : S \in SUBSET {"a", "b", "c", "f"}}
Outcomes == {"none", "done", "refused", "failed", "rollback_failed", "cleanup_failed"}
OpPC     == {"idle", "mkdir", "merge", "stage", "hold", "backup", "publish",
             "undoPublish", "undoBackup", "undoHold", "scrap", "drop", "clean", "end"}
NoItem   == [kind |-> "file", exists |-> FALSE, published |-> FALSE, backedUp |-> FALSE,
             sourceHeld |-> FALSE]

FileTypeOK ==
    /\ place \in [Items -> [Spots -> Content]]
    /\ item \in [Items -> [kind : {"file", "directory"}, exists : BOOLEAN,
                   published : BOOLEAN, backedUp : BOOLEAN, sourceHeld : BOOLEAN]]
    /\ op \in [pc : OpPC, move : BOOLEAN, overwrite : BOOLEAN, at : Items, existed : SUBSET Items,
               errors : BOOLEAN, outcome : Outcomes]
    /\ link \in BOOLEAN /\ meddled \in BOOLEAN

FileInit ==
    /\ item \in [Items -> {[NoItem EXCEPT !.kind = k] : k \in {"file", "directory"}}]
    /\ \E existing \in SUBSET Items, move, overwrite \in BOOLEAN :
         /\ place = [i \in Items |-> [s \in Spots |->
                       CASE s = "source" -> SourceOf(item[i].kind)
                         [] s = "target" /\ i \in existing -> TargetOf(item[i].kind)
                         [] OTHER -> Gone]]
         /\ op = [pc |-> "idle", move |-> move, overwrite |-> overwrite, at |-> 1,
                  existed |-> existing, errors |-> FALSE, outcome |-> "none"]
    /\ link = TRUE /\ meddled = FALSE

----------------------------------------------------------------------------
(* Calls of the SFTP session. *)

Move(p, from, to) == [p EXCEPT ![to] = p[from], ![from] = Gone]

\* The call takes effect and is answered.
Answered == link /\ link' = TRUE
\* It fails: refused, or the connection is lost.
Fails == link' \in {FALSE, link}
\* It takes effect and the connection is lost before the answer.
Unanswered == link /\ link' = FALSE

GoTo(pc) == [op EXCEPT !.pc = pc]
\* The exception handler starts with the last record.
RollBack == [op EXCEPT !.pc = "undoPublish", !.at = MaxItems, !.errors = FALSE]

\* Mutant: posix_rename, which replaces what is there.
RenamesOver(i, from, to) == place[i][from] # Gone

\* A rename of item i inside the operation: it refuses to replace what is there.
Renames(i, from, to) == place[i][from] # Gone /\ place[i][to] = Gone

----------------------------------------------------------------------------
\* transfer_files: the request is refused when a target exists and may not be
\* replaced, or a call fails before anything was changed.
CheckTransfer ==
    /\ op.pc = "idle"
    /\ item' = [i \in Items |-> [item[i] EXCEPT !.exists = place[i]["target"] # Gone]]
    /\ IF \E i \in Items : place[i]["target"] # Gone /\ ~op.overwrite
       THEN op' = [op EXCEPT !.pc = "end", !.outcome = "refused"]
       ELSE op' = GoTo("mkdir")
    /\ UNCHANGED <<place, link, meddled>>

RefuseTransfer ==
    /\ op.pc \in {"idle", "mkdir"} /\ Fails
    /\ op' = [op EXCEPT !.pc = "end", !.outcome = "refused"]
    /\ UNCHANGED <<place, item, meddled>>

MakeTransaction ==
    /\ op.pc = "mkdir" /\ Answered /\ op' = GoTo("merge")
    /\ UNCHANGED <<place, item, meddled>>

\* An existing target directory is copied first ...
StageTarget ==
    LET i == op.at IN
    /\ op.pc = "merge"
    /\ \/ /\ ~(item[i].exists /\ item[i].kind = "directory")
          /\ op' = GoTo("stage") /\ UNCHANGED <<place, link>>
       \/ /\ item[i].exists /\ item[i].kind = "directory" /\ Answered
          /\ place' = [place EXCEPT ![i]["stage"] = place[i]["target"]]
          /\ op' = GoTo("stage")
       \/ /\ item[i].exists /\ item[i].kind = "directory" /\ Fails
          /\ \E part \in {Gone, place[i]["target"]} :
               place' = [place EXCEPT ![i]["stage"] = part]
          /\ op' = RollBack
    /\ UNCHANGED <<item, meddled>>

\* Mutant: the target is staged over the source.
StageUnder ==
    LET i == op.at IN
    /\ op.pc = "stage"
    /\ \/ /\ Answered
          /\ place' = [place EXCEPT ![i]["stage"] = Merged(@, place[i]["source"])]
          /\ op' = IF i = MaxItems THEN [op EXCEPT !.pc = "hold", !.at = 1]
                   ELSE [op EXCEPT !.pc = "merge", !.at = i + 1]
       \/ /\ Fails /\ op' = RollBack /\ UNCHANGED place
    /\ UNCHANGED <<item, meddled>>

\* ... then the source over it; a copy that fails leaves a part of it.
StageSource ==
    LET i == op.at IN
    /\ op.pc = "stage"
    /\ \/ /\ Answered
          /\ place' = [place EXCEPT ![i]["stage"] = Merged(place[i]["source"], @)]
          /\ op' = IF i = MaxItems THEN [op EXCEPT !.pc = "hold", !.at = 1]
                   ELSE [op EXCEPT !.pc = "merge", !.at = i + 1]
       \/ /\ Fails /\ op' = RollBack
          /\ \E S \in SUBSET DOMAIN place[i]["source"] :
               place' = [place EXCEPT ![i]["stage"] =
                           Merged([n \in S |-> place[i]["source"][n]], @)]
    /\ UNCHANGED <<item, meddled>>

\* A step of the publication: rename, set the flag, go on; or fail into the
\* rollback, the rename done or not.
Publication(pc, needed, from, to, flagged, next) ==
    LET i == op.at IN
    /\ op.pc = pc
    /\ \/ /\ ~needed /\ op' = next /\ UNCHANGED <<place, item, link>>
       \/ /\ needed /\ Renames(i, from, to) /\ Answered
          /\ place' = [place EXCEPT ![i] = Move(@, from, to)]
          /\ item' = [item EXCEPT ![i] = flagged]
          /\ op' = next
       \/ /\ needed /\ Renames(i, from, to) /\ Unanswered
          /\ place' = [place EXCEPT ![i] = Move(@, from, to)]
          /\ op' = RollBack /\ UNCHANGED item
       \/ /\ needed /\ Fails /\ op' = RollBack /\ UNCHANGED <<place, item>>
    /\ UNCHANGED meddled

\* A moved source is put aside ...
HoldSource == Publication("hold", op.move, "source", "held",
                          [item[op.at] EXCEPT !.sourceHeld = TRUE], GoTo("backup"))

\* Mutant: the flag of the backup is not set.
BackupUnflagged == Publication("backup", item[op.at].exists, "target", "backup",
                               item[op.at], GoTo("publish"))

\* ... the old target too ...
BackupTarget == Publication("backup", item[op.at].exists, "target", "backup",
                            [item[op.at] EXCEPT !.backedUp = TRUE], GoTo("publish"))

\* ... and the copy takes its place.
Publish ==
    Publication("publish", TRUE, "stage", "target", [item[op.at] EXCEPT !.published = TRUE],
                IF op.at = MaxItems THEN [op EXCEPT !.pc = "drop", !.at = 1]
                ELSE [op EXCEPT !.pc = "hold", !.at = op.at + 1])

NextUndone ==
    IF op.at = 1 THEN GoTo("scrap") ELSE [op EXCEPT !.pc = "undoPublish", !.at = op.at - 1]

\* A rollback step; the first that fails ends the rollback of its record.
Restoration(pc, needed, from, to, next) ==
    LET i == op.at IN
    /\ op.pc = pc
    /\ \/ ~needed /\ op' = next /\ UNCHANGED <<place, link>>
       \/ /\ needed /\ Renames(i, from, to) /\ Answered
          /\ place' = [place EXCEPT ![i] = Move(@, from, to)]
          /\ op' = next
       \/ /\ needed /\ Fails
          /\ op' = [NextUndone EXCEPT !.errors = TRUE]
          /\ UNCHANGED place
       \/ /\ needed /\ Renames(i, from, to) /\ Unanswered
          /\ place' = [place EXCEPT ![i] = Move(@, from, to)]
          /\ op' = [NextUndone EXCEPT !.errors = TRUE]
    /\ UNCHANGED <<item, meddled>>

UndoPublish == Restoration("undoPublish", item[op.at].published, "target", "stage",
                           GoTo("undoBackup"))
UndoBackup  == Restoration("undoBackup", item[op.at].backedUp, "backup", "target",
                           GoTo("undoHold"))
UndoHold    == Restoration("undoHold", item[op.at].sourceHeld, "held", "source", NextUndone)

Emptied(spots) == [i \in Items |-> [s \in Spots |-> IF s \in spots THEN Gone ELSE place[i][s]]]

\* Mutant: the transaction is removed although the rollback had errors.
ScrapAlways ==
    /\ op.pc = "scrap"
    /\ \/ /\ Answered /\ place' = Emptied({"stage", "backup"})
          /\ op' = [op EXCEPT !.pc = "end", !.outcome = IF op.errors THEN "rollback_failed" ELSE "failed"]
       \/ /\ Fails /\ UNCHANGED place
          /\ op' = [op EXCEPT !.pc = "end", !.outcome = "cleanup_failed"]
    /\ UNCHANGED <<item, meddled>>

\* After a complete rollback the transaction directory is removed.
Scrap ==
    /\ op.pc = "scrap"
    /\ \/ /\ op.errors /\ UNCHANGED <<place, link>>
          /\ op' = [op EXCEPT !.pc = "end", !.outcome = "rollback_failed"]
       \/ /\ ~op.errors /\ Answered /\ place' = Emptied({"stage", "backup"})
          /\ op' = [op EXCEPT !.pc = "end", !.outcome = "failed"]
       \/ /\ ~op.errors /\ Fails /\ UNCHANGED place
          /\ op' = [op EXCEPT !.pc = "end", !.outcome = "cleanup_failed"]
    /\ UNCHANGED <<item, meddled>>

\* All is published: the held sources are removed, a failure is a warning.
DropHeld ==
    LET i == op.at IN
    /\ op.pc = "drop"
    /\ \/ /\ item[i].sourceHeld /\ Answered
          /\ place' = [place EXCEPT ![i]["held"] = Gone]
       \/ item[i].sourceHeld /\ Fails /\ UNCHANGED place
       \/ ~item[i].sourceHeld /\ UNCHANGED <<place, link>>
    /\ op' = IF i = MaxItems THEN GoTo("clean") ELSE [op EXCEPT !.at = i + 1]
    /\ UNCHANGED <<item, meddled>>

CleanTransaction ==
    /\ op.pc = "clean"
    /\ \/ Answered /\ place' = Emptied({"stage", "backup"})
       \/ Fails /\ UNCHANGED place
    /\ op' = [op EXCEPT !.pc = "end", !.outcome = "done"]
    /\ UNCHANGED <<item, meddled>>

\* Somebody else creates the target, or changes source or target.
Meddle(i) ==
    /\ ~meddled /\ op.pc \notin {"idle", "end"}
    /\ \E s \in {"source", "target"} : \E n \in {"f", "a"} :
         place' = [place EXCEPT ![i][s] = Merged([x \in {n} |-> "late"], @)]
    /\ meddled' = TRUE
    /\ UNCHANGED <<item, op, link>>

FileNext ==
    \/ CheckTransfer \/ RefuseTransfer \/ MakeTransaction \/ StageTarget \/ StageSource
    \/ HoldSource \/ BackupTarget \/ Publish
    \/ UndoPublish \/ UndoBackup \/ UndoHold \/ Scrap \/ DropHeld \/ CleanTransaction
    \/ \E i \in Items : Meddle(i)

FileSpec == FileInit /\ [][FileNext]_fileVars
----------------------------------------------------------------------------
(* Properties. *)

Original(i) == [s \in {"source", "target"} |->
    IF s = "source" THEN SourceOf(item[i].kind)
    ELSE IF i \in op.existed THEN TargetOf(item[i].kind) ELSE Gone]

\* At no moment, so not after a stop of the server either, is a version of a
\* source or a replaced target gone from the remote host before the operation
\* has succeeded.
NothingLostMidway ==
    ~meddled => \A i \in Items :
      /\ SourceOf(item[i].kind) \in {place[i][s] : s \in {"source", "held"}}
         \/ (op.pc \in {"drop", "clean", "end"} /\ item[i].published)
      /\ i \in op.existed => \/ TargetOf(item[i].kind) \in {place[i][s] : s \in {"target", "backup"}}
                             \/ op.outcome = "done"

\* The answer is true: after success every target holds the source (merged with
\* an old directory) and a moved source is gone; after a failure that announces
\* nothing else, sources and targets are what they were.
OutcomeIsTrue ==
    ~meddled => \A i \in Items :
      /\ op.outcome = "done" =>
           /\ place[i]["target"] = IF item[i].kind = "directory" /\ i \in op.existed
                                   THEN Merged(SourceOf("directory"), TargetOf("directory"))
                                   ELSE SourceOf(item[i].kind)
           /\ place[i]["source"] = IF op.move THEN Gone ELSE SourceOf(item[i].kind)
      /\ op.outcome \in {"failed", "refused"} =>
           \A s \in {"source", "target"} : place[i][s] = Original(i)[s]

\* A file that appears at a target while the operation runs is not replaced:
\* the version of somebody else is still somewhere until the operation is done.
LateTargetSurvives ==
    [][\A i \in Items : ~item[i].exists /\ "late" \in {place[i]["target"][n] : n \in DOMAIN place[i]["target"]}
         /\ ~item[i].published => place'[i]["target"] = place[i]["target"]]_fileVars
============================================================================
