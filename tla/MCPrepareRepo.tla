--------------------------- MODULE MCPrepareRepo ---------------------------
(* Two prepares and two workspaces that share one mirror. *)
EXTENDS PrepareRepo, TLC

Symmetry == Permutations(Workspace) \cup Permutations(Handler)
=============================================================================
