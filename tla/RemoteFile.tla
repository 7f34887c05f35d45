----------------------------- MODULE RemoteFile -----------------------------
(***************************************************************************)
(* Requests that write one remote file: the text editor saves over the      *)
(* version it has read, or by force; uploads go over SFTP and, when that    *)
(* fails, over a command, base64 uploads at last straight into the file.    *)
(*                                                                         *)
(* A version is the request that wrote it and whether it is whole.  When a  *)
(* connection is lost the remote command goes on: it sees the end of its    *)
(* input.                                                                   *)
(***************************************************************************)
EXTENDS Naturals

CONSTANTS Savers     \* bound: requests that write the file

ASSUME SaversAssumption == Savers \cap {"old", "none"} = {}

VARIABLES
    dest,      \* the file: [by |-> "old", "none" (absent) or a saver, whole |-> ...]
    temp,      \* staging file of each saver
    saver,     \* requests
    sent       \* history: what a request has put at the destination, over what

remoteVars == <<dest, temp, saver, sent>>

Version  == [by : Savers \cup {"old", "none"}, whole : BOOLEAN]
Old      == [by |-> "old", whole |-> TRUE]
Absent   == [by |-> "none", whole |-> TRUE]
SaveKind == {"edit", "force", "stream", "base64"}
SavePC   == {"idle", "stage", "write", "size", "hash", "replace", "answer",
             "sftpWrite", "posixRename", "remove", "rename",
             "cat", "mv", "scp", "scpEnd", "end"}
Outcome  == {"none", "saved", "conflict", "failed"}
NoSaver  == [kind |-> "edit", pc |-> "idle", base |-> Old, linked |-> TRUE, tries |-> 2,
             outcome |-> "none"]
NotSent  == [whole |-> FALSE, over |-> Old, raced |-> FALSE]

RemoteTypeOK ==
    /\ dest \in Version
    /\ temp \in [Savers -> {"none", "part", "whole"}]
    /\ saver \in [Savers -> [kind : SaveKind, pc : SavePC, base : Version, linked : BOOLEAN,
                             tries : 0..2, outcome : Outcome]]
    /\ sent \in [Savers -> [whole : BOOLEAN, over : Version, raced : BOOLEAN]]

RemoteInit ==
    /\ dest \in {Old, Absent}
    /\ temp = [s \in Savers |-> "none"]
    /\ saver = [s \in Savers |-> NoSaver]
    /\ sent = [s \in Savers |-> NotSent]

SaverAt(s, pc) == saver[s].pc = pc
To(s, pc) == [saver EXCEPT ![s].pc = pc]
Ends(s, outcome) == [saver EXCEPT ![s].pc = "end", ![s].outcome = outcome]

\* A write at the destination; it comes between the check and the replacement
\* of every editor that is just there.
WriteFile(s, version, complete) ==
    /\ dest' = version
    /\ sent' = [x \in Savers |->
         IF x = s THEN [sent[s] EXCEPT !.whole = complete, !.over = dest]
         ELSE IF SaverAt(x, "replace") THEN [sent[x] EXCEPT !.raced = TRUE] ELSE sent[x]]
Put(s, version) == WriteFile(s, version, version.whole)
----------------------------------------------------------------------------
(* update_remote_file_content. *)

\* The editor opens the file, and its hash is the baseline of the save.
OpenEditor(s) ==
    /\ SaverAt(s, "idle") /\ dest # Absent
    /\ \E k \in {"edit", "force"} :
         saver' = [saver EXCEPT ![s] = [NoSaver EXCEPT !.kind = k, !.base = dest, !.pc = "stage"]]
    /\ UNCHANGED <<dest, temp, sent>>

\* test -f, test -w and cp -p of the command.
StageEdit(s) ==
    /\ SaverAt(s, "stage")
    /\ \/ /\ dest # Absent
          /\ temp' = [temp EXCEPT ![s] = "part"] /\ saver' = To(s, "write")
       \/ saver' = Ends(s, "failed") /\ UNCHANGED temp
    /\ UNCHANGED <<dest, sent>>

\* The content is sent: all of it, or until the connection is lost; or reading the
\* source fails, and the removal of the staging file is sent (see CommandFails).
WriteEdit(s) ==
    /\ SaverAt(s, "write")
    /\ \/ temp' = [temp EXCEPT ![s] = "whole"] /\ saver' = To(s, "size")
       \/ saver' = [To(s, "size") EXCEPT ![s].linked = FALSE] /\ UNCHANGED temp
       \/ /\ \E t \in {"none", "part"} : temp' = [temp EXCEPT ![s] = t]
          /\ saver' = Ends(s, "failed")
    /\ UNCHANGED <<dest, sent>>

\* The command ends with an error; the caller, if it is there, sends a removal of the
\* staging file that nobody waits for: it is done or not.
CommandFails(s, outcome) ==
    /\ \E t \in {temp[s]} \cup (IF saver[s].linked THEN {"none"} ELSE {}) :
         temp' = [temp EXCEPT ![s] = t]
    /\ saver' = Ends(s, IF saver[s].linked THEN outcome ELSE "failed")

\* Mutant: the size is not checked.
AnySize(s) ==
    /\ SaverAt(s, "size")
    /\ saver' = To(s, IF saver[s].kind = "force" THEN "replace" ELSE "hash") /\ UNCHANGED temp
    /\ UNCHANGED <<dest, sent>>

CheckSize(s) ==
    /\ SaverAt(s, "size")
    /\ IF temp[s] = "whole"
       THEN saver' = To(s, IF saver[s].kind = "force" THEN "replace" ELSE "hash") /\ UNCHANGED temp
       ELSE CommandFails(s, "failed")
    /\ UNCHANGED <<dest, sent>>

\* Mutant: a file that is gone counts as unchanged.
HashOrGone(s) ==
    /\ SaverAt(s, "hash")
    /\ IF dest \in {saver[s].base, Absent} THEN saver' = To(s, "replace") /\ UNCHANGED temp
       ELSE CommandFails(s, "conflict")
    /\ UNCHANGED <<dest, sent>>

\* sha256sum of the destination against the baseline, exit status 73.
CheckHash(s) ==
    /\ SaverAt(s, "hash")
    /\ IF dest = saver[s].base THEN saver' = To(s, "replace") /\ UNCHANGED temp
       ELSE CommandFails(s, IF dest = Absent THEN "failed" ELSE "conflict")
    /\ UNCHANGED <<dest, sent>>

\* Mutant: the file is removed before it is replaced.
RemoveAndReplace(s) ==
    /\ SaverAt(s, "replace")
    /\ \/ /\ Put(s, [by |-> s, whole |-> temp[s] = "whole"])
          /\ temp' = [temp EXCEPT ![s] = "none"] /\ saver' = To(s, "answer")
       \/ CommandFails(s, "failed") /\ Put(s, Absent)

\* mv -f, or it fails.
Replace(s) ==
    /\ SaverAt(s, "replace")
    /\ \/ /\ Put(s, [by |-> s, whole |-> temp[s] = "whole"])
          /\ temp' = [temp EXCEPT ![s] = "none"] /\ saver' = To(s, "answer")
       \/ CommandFails(s, "failed") /\ UNCHANGED <<dest, sent>>

\* The exit status arrives, or the connection is lost before.
AnswerSave(s) ==
    /\ SaverAt(s, "answer")
    /\ \/ saver[s].linked /\ saver' = Ends(s, "saved")
       \/ saver' = Ends(s, "failed")
    /\ UNCHANGED <<dest, temp, sent>>
----------------------------------------------------------------------------
(* upload_remote_file_stream and upload_remote_file: run_remote_file_operation
   goes on to the next protocol after any failure. *)

StartUpload(s) ==
    /\ SaverAt(s, "idle")
    /\ \E k \in {"stream", "base64"} :
         saver' = [saver EXCEPT ![s] = [NoSaver EXCEPT !.kind = k, !.pc = "sftpWrite"]]
    /\ UNCHANGED <<dest, temp, sent>>

\* Mutant: the first protocol decides.
NoNextProtocol(s) == Ends(s, "saved")

NextProtocol(s) == IF saver[s].kind = "stream" THEN To(s, "cat") ELSE To(s, "scp")

\* SFTP: the staging file is written; after a failure it is removed, if that works.
SftpWrite(s) ==
    /\ SaverAt(s, "sftpWrite")
    /\ \/ temp' = [temp EXCEPT ![s] = "whole"] /\ saver' = To(s, "posixRename")
       \/ /\ \E t \in {"none", "part"} : temp' = [temp EXCEPT ![s] = t]
          /\ saver' = NextProtocol(s)
    /\ UNCHANGED <<dest, sent>>

\* replace_remote_sftp_file: one rename over the destination ...
PosixRename(s) ==
    /\ SaverAt(s, "posixRename")
    /\ \/ /\ Put(s, [by |-> s, whole |-> TRUE])
          /\ temp' = [temp EXCEPT ![s] = "none"] /\ saver' = To(s, "answer")
       \/ saver' = To(s, "remove") /\ UNCHANGED <<dest, temp, sent>>

\* ... or the destination is removed, whether or not that works ...
RemoveOld(s) ==
    /\ SaverAt(s, "remove")
    /\ saver' = To(s, "rename")
    /\ Put(s, Absent) \/ UNCHANGED <<dest, sent>>
    /\ UNCHANGED temp

\* ... and the staging file renamed, which may fail.
RenameNew(s) ==
    /\ SaverAt(s, "rename")
    /\ \/ /\ dest = Absent /\ Put(s, [by |-> s, whole |-> TRUE])
          /\ temp' = [temp EXCEPT ![s] = "none"] /\ saver' = To(s, "answer")
       \/ /\ \E t \in {"none", temp[s]} : temp' = [temp EXCEPT ![s] = t]
          /\ saver' = NextProtocol(s) /\ UNCHANGED <<dest, sent>>

\* cat > staging of the streaming command: a lost connection only ends its
\* input; when the source fails, the removal may not be done or come too late.
CatStream(s) ==
    /\ SaverAt(s, "cat")
    /\ \/ temp' = [temp EXCEPT ![s] = "whole"] /\ saver' = To(s, "mv")
       \/ temp' = [temp EXCEPT ![s] = "part"] /\ saver' = [To(s, "mv") EXCEPT ![s].linked = FALSE]
       \/ /\ \E t \in {"none", "part"} : temp' = [temp EXCEPT ![s] = t]
          /\ saver' = Ends(s, "failed")
    /\ UNCHANGED <<dest, sent>>

\* && mv -f.
MoveStream(s) ==
    /\ SaverAt(s, "mv")
    /\ \/ /\ Put(s, [by |-> s, whole |-> temp[s] = "whole"])
          /\ temp' = [temp EXCEPT ![s] = "none"] /\ saver' = To(s, "answer")
       \/ CommandFails(s, "failed") /\ UNCHANGED <<dest, sent>>

\* The SCP commands of a base64 upload write into the destination itself.
ScpBegin(s) ==
    /\ SaverAt(s, "scp")
    /\ \/ Put(s, [by |-> s, whole |-> FALSE]) /\ saver' = To(s, "scpEnd")
       \/ UNCHANGED <<dest, sent>> /\ saver' = [To(s, "scpEnd") EXCEPT ![s].linked = FALSE]
    /\ UNCHANGED temp

\* The rest arrives, in a file that was renamed over when it is not this one any
\* more, and mixed with what another command writes into it; or the attempt
\* fails, the second being the last.
ScpFinish(s) ==
    /\ SaverAt(s, "scpEnd")
    /\ \/ /\ saver[s].linked /\ saver' = Ends(s, "saved")
          /\ IF dest.by = s
             THEN \E w \in {TRUE, ~\E x \in Savers \ {s} : SaverAt(x, "scpEnd")} :
                    WriteFile(s, [by |-> s, whole |-> w], TRUE)
             ELSE UNCHANGED dest /\ sent' = [sent EXCEPT ![s].whole = TRUE]
       \/ /\ saver' = [saver EXCEPT ![s] = IF @.tries = 1
                         THEN [@ EXCEPT !.pc = "end", !.outcome = "failed"]
                         ELSE [@ EXCEPT !.pc = "scp", !.tries = 1, !.linked = TRUE]]
          /\ UNCHANGED <<dest, sent>>
    /\ UNCHANGED temp

SaverStep(s) ==
    \/ OpenEditor(s) \/ StageEdit(s) \/ WriteEdit(s) \/ CheckSize(s) \/ CheckHash(s)
    \/ Replace(s) \/ AnswerSave(s)
    \/ StartUpload(s) \/ SftpWrite(s) \/ PosixRename(s) \/ RemoveOld(s) \/ RenameNew(s)
    \/ CatStream(s) \/ MoveStream(s) \/ ScpBegin(s) \/ ScpFinish(s)

RemoteNext == \E s \in Savers : SaverStep(s)

RemoteSpec == RemoteInit /\ [][RemoteNext]_remoteVars
----------------------------------------------------------------------------
(* Properties. *)

\* docs/terminal-file-conflicts.md: a save replaces the version it was opened
\* on, unless somebody wrote between its last check and the replacement.
SaveReplacesBaseline ==
    \A s \in Savers :
      saver[s].kind = "edit" /\ saver[s].pc \in {"answer", "end"} /\ sent[s].whole
         => sent[s].over = saver[s].base \/ sent[s].raced

\* A torn file comes from an upload that fell back to a command, never from a
\* save or from SFTP.
TornOnlyByFallback ==
    ~dest.whole => saver[dest.by].kind \in {"stream", "base64"} /\ saver[dest.by].pc # "sftpWrite"

\* A request that is told so has saved its whole content; one that is told of a
\* conflict has left the file alone, though perhaps a staging file behind.
AnswerIsTrue ==
    \A s \in Savers :
      /\ saver[s].outcome = "saved" => sent[s].whole
      /\ saver[s].outcome = "conflict" => sent[s].over = Old /\ ~sent[s].whole

\* What was replaced is what the answer and the check of the browser's version say, and
\* only an upload over SSH leaves a torn file.
SavesAreHonest == SaveReplacesBaseline /\ AnswerIsTrue /\ TornOnlyByFallback

\* The file is missing only after an SFTP upload has removed it for its own:
\* a save that fails never deletes the file.
MissingOnlyByUpload ==
    [][dest # Absent /\ dest' = Absent =>
         \E s \in Savers : SaverAt(s, "remove") /\ saver'[s].pc = "rename"]_remoteVars
=============================================================================
