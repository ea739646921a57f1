-------------------------- MODULE MCWorkspaceStartup --------------------------
(* Instance of WorkspaceStartup for TLC: two processes open a workspace of  *)
(* any version, the next release's too, or none.                           *)
EXTENDS WorkspaceStartup

MCFirstVersions == 0..(Latest + 1)
=============================================================================
