---------------------------- MODULE MCContactArchive ----------------------------
(***************************************************************************)
(* The archive of one dialog with few messages, jobs and crashes.          *)
(***************************************************************************)
EXTENDS ContactArchive

McIds == 1 .. 3
McVersions == {0}
McKinds == {"deleted", "modified"}

=============================================================================
