------------------------- MODULE MCWorkspaceRuntime -------------------------
(* Instances of WorkspaceRuntime for TLC.  The documents are numbers: a    *)
(* reload goes through them in their order, so they are not symmetric.     *)
EXTENDS WorkspaceRuntime
=============================================================================
