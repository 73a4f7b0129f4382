---------------------------- MODULE MCForgeCalls ----------------------------
(* ForgeCalls on a small instance: one key in the scope of dispatch, one   *)
(* in the scope of create_work_branch, two payloads of each operation.     *)
EXTENDS ForgeCalls, TLC

CONSTANTS dispatchKey, branchKey, runTests, runLint, newBranch, sameBranch

MCAccepts == (dispatchKey :> {runTests, runLint}) @@ (branchKey :> {newBranch, sameBranch})

(* Handlers are interchangeable. *)
Symmetry == Permutations(Handler)
=============================================================================
