-------------------------- MODULE MCWorkspaceStore --------------------------
(* WorkspaceStore on a small instance: two workspaces, two handlers, a     *)
(* limit of one directory.                                                 *)
EXTENDS WorkspaceStore, TLC

(* Handlers and workspaces are interchangeable. *)
Symmetry == Permutations(Handler) \cup Permutations(Workspace) \cup Permutations(Target)
=============================================================================
