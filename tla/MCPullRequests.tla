--------------------------- MODULE MCPullRequests ---------------------------
(* Two requests at a time, two base branches, a page of one pull request   *)
(* and two runs at most.                                                   *)
EXTENDS PullRequests, TLC

Symmetry == Permutations(Handler) \cup Permutations(Base)
=============================================================================
