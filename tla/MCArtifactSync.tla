--------------------------- MODULE MCArtifactSync ---------------------------
(* Two synchronisations of a run with two artifacts, one per page. *)
EXTENDS ArtifactSync, TLC

CONSTANTS s1, s2

Symmetric == Permutations(Sync)
=============================================================================
