---------------------------- MODULE MCDownloadHoles ----------------------------
(***************************************************************************)
(* Two chains at a time in a dialog of up to three messages.  Of           *)
(* deletions, opened dialogs, local changes and crashes there are two, or  *)
(* one with two failed requests, or four failed requests.                  *)
(***************************************************************************)
EXTENDS DownloadHoles, TLC

McIds == 1 .. 3
McVersions == {0}
McCost == [what \in Happening |-> IF what = "failure" THEN 1 ELSE 2]
ChainSymmetry == Permutations(Chains)

=============================================================================
