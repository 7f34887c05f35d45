----------------------------- MODULE WebTerminal -----------------------------
(***************************************************************************)
(* The parts of the web terminal that keep state of their own: the shell of  *)
(* a browser, a remote desktop, the terminal over HTTP, copies and moves of  *)
(* remote files, and saves of one remote file.  They run side by side and    *)
(* share nothing but the pool of SSH connections, which is in SshPool.       *)
(***************************************************************************)
EXTENDS SshTerminal, RemoteDesktop, HttpTerminal, FileTransfer, RemoteFile

TerminalsSpec == TermSpec /\ DeskSpec /\ WebSpec /\ FileSpec /\ RemoteSpec
----------------------------------------------------------------------------
(* What the parts promise together. *)

\* Every variable of every part keeps its type.
TypesOK == TermTypeOK /\ DeskTypeOK /\ WebTypeOK /\ FileTypeOK /\ RemoteTypeOK

\* The transcript and the audits hold what the shell wrote, in its order.
ShellRecorded == TranscriptComplete /\ OutputAuditedInOrder

\* Recordings: of the shell, and of the desktop, whose file can be found.
RecordingsHold == ShellRecorded /\ RecordingFindable

\* Copies and moves of files lose nothing midway and end as their answer says.
TransfersHold == NothingLostMidway /\ OutcomeIsTrue

\* Files: no late file of somebody else is lost, and no file is missing but by an upload.
FilesKept == LateTargetSurvives /\ MissingOnlyByUpload

\* The end of a session, by error or by exit, is final.
EndsAreFinal == DeskErrorStays /\ ExitIsFinal
==============================================================================
