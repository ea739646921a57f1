--------------------------- MODULE MCWorkspaceBackup ---------------------------
(* Instance of WorkspaceBackup for TLC: texts may recur, so that revisions *)
(* share blobs.                                                            *)
EXTENDS WorkspaceBackup

MCContents == {"a", "b"}
=============================================================================
