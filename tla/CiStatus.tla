------------------------------ MODULE CiStatus ------------------------------
(***************************************************************************)
(* How get_ci_status sums up the workflow runs of a commit                 *)
(* (app/services/ci.py): which of the runs the forge lists it looks at,    *)
(* and the verdict over them.  Runs are records [sha, state]; state folds  *)
(* status and conclusion: "queued" and "running" have no conclusion,       *)
(* "success" stands for skipped and neutral too, "failure" for timed_out   *)
(* and action_required, "stale" is a conclusion the code does not name.    *)
(***************************************************************************)
EXTENDS Naturals, Sequences, FiniteSets, FiniteSetsExt

CONSTANTS
  ListedRuns,  \* per_page of the request for runs (100)
  ShownRuns    \* how many of them are summed up and answered (20)

ASSUME RunsAssumption == ListedRuns \in Nat /\ ShownRuns \in Nat

Pending  == {"queued", "running"}
Failing  == {"failure", "cancelled"}
Passing  == {"success"}
RunState == Pending \cup Failing \cup Passing \cup {"stale"}

(* Runs are told by their positions in the forge's list, newest first.     *)
NewestOf(positions, n) == {i \in positions : Cardinality({j \in positions : j <= i}) <= n}

(* Fault: the forge is trusted to have filtered by head_sha. *)
ShownUnfiltered(runs, listed, sha) == NewestOf(listed, ShownRuns)

(* The runs answered: of what the forge listed those of the commit, cut at *)
(* ShownRuns.                                                              *)
Shown(runs, listed, sha) == NewestOf({i \in listed : runs[i].sha = sha}, ShownRuns)

(* _aggregate: unfinished runs first, then failures; only passing ones are *)
(* a success, and otherwise the newest run speaks for all.                 *)
Verdict(runs, shown) ==
  LET states == {runs[i].state : i \in shown} IN
  IF "queued" \in states THEN "queued"
  ELSE IF "running" \in states THEN "running"
  ELSE IF states \cap Failing # {} THEN "failure"
  ELSE IF states \subseteq Passing THEN "success"
  ELSE runs[Min(shown)].state
=============================================================================
