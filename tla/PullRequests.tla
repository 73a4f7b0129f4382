---------------------------- MODULE PullRequests ----------------------------
(***************************************************************************)
(* Pull requests through the gateway (app/services/pulls.py, the requests  *)
(* of app/gitea/client.py) and the CI status of their heads, while others  *)
(* push, open, close and merge.                                            *)
(*                                                                         *)
(* Every handler is a sequence of forge requests with awaits between them; *)
(* the forge changes at any moment, and an answer may be lost after the    *)
(* forge performed what was asked.  The forge's own rules (one open pull   *)
(* request per pair of branches, merge checks the head it is given) are    *)
(* modelled from how the gateway relies on them.                           *)
(***************************************************************************)
EXTENDS CiStatus

CONSTANTS
  Handler,    \* concurrent requests
  Base,       \* base branches; every pull request is from one head branch
  PageSize,   \* pull requests the forge lists for a create (10)
  MaxPulls,   \* bound: pull requests ever opened
  MaxSha,     \* bound: commits the head branch ever had, 1 .. MaxSha
  MaxRuns     \* bound: workflow runs ever started

ASSUME MaxShaAssumption == MaxSha \in Nat \ {0}

VARIABLES
  head,    \* the commit the head branch points to
  pulls,   \* pull requests in the order of their numbers: [base, state]
  merged,  \* commit each merged pull request was merged at, 0 if none
  runs,    \* workflow runs, newest first
  pc,      \* the forge request each handler awaits
  ask,     \* what it was asked for: a base, a pull request, a commit
  full,    \* history: the list a create read left open ones out
  moved,   \* history: pull requests opened or retargeted since that list
  answer   \* what the step just taken answered to its caller

forge == <<head, pulls, merged, runs>>
calls == <<pc, ask, full, moved>>
vars  == <<forge, calls, answer>>

-----------------------------------------------------------------------------

Sha == 1 .. MaxSha
Number == DOMAIN pulls
Pull == [base : Base, state : {"open", "closed", "merged"}]
Asked == [base : Base \cup {"none"}, pull : 0 .. MaxPulls, sha : 0 .. MaxSha]
Nothing == [base |-> "none", pull |-> 0, sha |-> 0]
Silent == [kind |-> "none", pull |-> 0, verdict |-> "none", sha |-> 0, all |-> FALSE]

TypeOK ==
  /\ head \in Sha
  /\ pulls \in Seq(Pull) /\ Len(pulls) <= MaxPulls
  /\ merged \in [Number -> 0 .. MaxSha]
  /\ \A n \in Number : pulls[n].state = "merged" <=> merged[n] > 0
  /\ runs \in Seq([sha : Sha, state : RunState]) /\ Len(runs) <= MaxRuns
  /\ pc \in [Handler -> {"idle", "list", "create", "get", "merge", "reread", "head", "runs"}]
  /\ ask \in [Handler -> Asked]
  /\ \A h \in Handler : pc[h] \in {"merge", "reread", "runs"} => ask[h].sha > 0
  /\ full \subseteq Handler /\ moved \subseteq Handler

Open == {n \in Number : pulls[n].state = "open"}
OpenFor(base) == {n \in Open : pulls[n].base = base}

Init ==
  /\ head = 1 /\ pulls = <<>> /\ merged = <<>> /\ runs = <<>>
  /\ pc = [h \in Handler |-> "idle"]
  /\ ask = [h \in Handler |-> Nothing]
  /\ full = {} /\ moved = {}
  /\ answer = Silent

-----------------------------------------------------------------------------
(* Control *)

Receive(h, what, request) ==
  /\ pc[h] = "idle"
  /\ pc' = [pc EXCEPT ![h] = request]
  /\ ask' = [ask EXCEPT ![h] = what]
  /\ answer' = Silent
  /\ UNCHANGED <<forge, full, moved>>

Await(h, request) ==
  /\ pc' = [pc EXCEPT ![h] = request]
  /\ answer' = Silent

Answer(h, what) ==
  /\ pc' = [pc EXCEPT ![h] = "idle"]
  /\ ask' = [ask EXCEPT ![h] = Nothing]
  /\ full' = full \ {h} /\ moved' = moved \ {h}
  /\ answer' = what

(* An error; which one is not told apart. *)
Refuse(h) == Answer(h, Silent)

(* A forge request that is not performed: refused, unreachable, timed out. *)
RequestFails(h) ==
  /\ pc[h] # "idle"
  /\ Refuse(h)
  /\ UNCHANGED forge

(* Whoever opens, reopens or retargets pull requests disturbs the creates  *)
(* that have already read the list.                                        *)
Disturb == moved' = moved \cup {h \in Handler : pc[h] = "create"}

-----------------------------------------------------------------------------
(* create_pull_request *)

(* Fault: the base of what the list holds is not compared. *)
ContinuableAnyBase(h, page) == page

(* Fault: "owner:branch" is compared with the ref, which has no owner.     *)
ContinuableByLabel(h, page) == {}

(* What list_pull_requests keeps of the page the forge sent: the forge is  *)
(* only told the state, head and base are compared here.                   *)
Continuable(h, page) == {n \in page : pulls[n].base = ask[h].base}

ListPulls(h) ==
  /\ pc[h] = "list"
  /\ \E page \in SUBSET Open :
       /\ Cardinality(page) = IF Cardinality(Open) < PageSize THEN Cardinality(Open) ELSE PageSize
       /\ \/ \E n \in Continuable(h, page) :
               Answer(h, [Silent EXCEPT !.kind = "exists", !.pull = n])
          \/ /\ Continuable(h, page) = {}
             /\ Await(h, "create")
             /\ full' = IF page = Open THEN full ELSE full \cup {h}
             /\ UNCHANGED <<ask, moved>>
  /\ UNCHANGED forge

(* The forge opens one, or reports a conflict when that pair has one.      *)
OpenPull(base) ==
  /\ Len(pulls) < MaxPulls
  /\ OpenFor(base) = {}
  /\ pulls' = Append(pulls, [base |-> base, state |-> "open"])
  /\ merged' = Append(merged, 0)
  /\ UNCHANGED <<head, runs>>

CreatePull(h) ==
  /\ pc[h] = "create"
  /\ OpenPull(ask[h].base)
  /\ pc' = [pc EXCEPT ![h] = "idle"]
  /\ ask' = [ask EXCEPT ![h] = Nothing]
  /\ full' = full \ {h}
  /\ moved' = (moved \cup {g \in Handler : pc[g] = "create"}) \ {h}
  /\ \/ answer' = [Silent EXCEPT !.kind = "created", !.pull = Len(pulls')]
     \/ answer' = Silent

CreateConflicts(h) ==
  /\ pc[h] = "create"
  /\ OpenFor(ask[h].base) # {}
  /\ Answer(h, [Silent EXCEPT !.kind = "conflict",
                              !.all = h \notin full /\ h \notin moved])
  /\ UNCHANGED forge

-----------------------------------------------------------------------------
(* merge_pull_request *)

(* Open, and at the head that was reviewed; a draft or one that does not   *)
(* merge cleanly is refused too (RequestFails).                            *)
MayMerge(h) ==
  /\ pulls[ask[h].pull].state = "open"
  /\ ask[h].sha = head

(* Fault: a pull request merged already is answered like one just merged. *)
GetPullOrMerged(h) ==
  /\ pc[h] = "get"
  /\ IF pulls[ask[h].pull].state = "merged"
     THEN Answer(h, [Silent EXCEPT !.kind = "merged", !.pull = ask[h].pull, !.sha = ask[h].sha])
     ELSE IF MayMerge(h) THEN Await(h, "merge") /\ UNCHANGED <<ask, full, moved>>
                         ELSE Refuse(h)
  /\ UNCHANGED forge

GetPull(h) ==
  /\ pc[h] = "get"
  /\ IF MayMerge(h) THEN Await(h, "merge") /\ UNCHANGED <<ask, full, moved>>
                    ELSE Refuse(h)
  /\ UNCHANGED forge

(* Fault: head_commit_id is not sent. *)
HeadUnchecked(h) == TRUE

(* The forge compares the head_commit_id it is sent. *)
HeadAgrees(h) == ask[h].sha = head

MergeAt(n) ==
  /\ pulls[n].state = "open"
  /\ pulls' = [pulls EXCEPT ![n].state = "merged"]
  /\ merged' = [merged EXCEPT ![n] = head]
  /\ UNCHANGED <<head, runs>>

MergePull(h) ==
  /\ pc[h] = "merge"
  /\ HeadAgrees(h)
  /\ MergeAt(ask[h].pull)
  /\ \/ Await(h, "reread") /\ UNCHANGED <<ask, full, moved>>
     \/ Refuse(h)

(* The answer carries what the pull request is by now. *)
RereadPull(h) ==
  /\ pc[h] = "reread"
  /\ Answer(h, [Silent EXCEPT !.kind = "merged", !.pull = ask[h].pull, !.sha = ask[h].sha])
  /\ UNCHANGED forge

-----------------------------------------------------------------------------
(* update_pull_request: one request, performed whether or not its answer   *)
(* arrives.  Others do the same without the gateway.                       *)

Change(n, base, state) ==
  /\ pulls[n].state # "merged"
  /\ pulls[n] # [base |-> base, state |-> state]
  /\ state = "open" => OpenFor(base) \subseteq {n}
  /\ pulls' = [pulls EXCEPT ![n] = [base |-> base, state |-> state]]
  /\ IF state = "open" THEN Disturb ELSE UNCHANGED moved
  /\ answer' = Silent
  /\ UNCHANGED <<head, merged, runs, pc, ask, full>>

-----------------------------------------------------------------------------
(* get_ci_status of a pull request *)

ReadHead(h) ==
  /\ pc[h] = "head"
  /\ Await(h, "runs")
  /\ ask' = [ask EXCEPT ![h].sha = head]
  /\ UNCHANGED <<forge, full, moved>>

RunsOf(sha) == {i \in DOMAIN runs : runs[i].sha = sha}

(* The forge may ignore the head_sha it is given. *)
ReadRuns(h) ==
  /\ pc[h] = "runs"
  /\ \E listed \in {NewestOf(DOMAIN runs, ListedRuns), NewestOf(RunsOf(ask[h].sha), ListedRuns)} :
       LET shown == Shown(runs, listed, ask[h].sha) IN
       IF shown = {}
       THEN Refuse(h)
       ELSE Answer(h, [Silent EXCEPT !.kind = "status", !.sha = ask[h].sha,
                                     !.verdict = Verdict(runs, shown)])
  /\ UNCHANGED forge

-----------------------------------------------------------------------------
(* The rest of the world *)

OthersOpen(base) ==
  /\ OpenPull(base)
  /\ Disturb
  /\ answer' = Silent
  /\ UNCHANGED <<pc, ask, full>>

OthersMerge(n) ==
  /\ MergeAt(n)
  /\ answer' = Silent
  /\ UNCHANGED calls

Push ==
  /\ head < MaxSha
  /\ head' = head + 1
  /\ answer' = Silent
  /\ UNCHANGED <<pulls, merged, runs, calls>>

(* A workflow run starts for the head, goes on, ends, or is started again. *)
StartRun ==
  /\ Len(runs) < MaxRuns
  /\ runs' = <<[sha |-> head, state |-> "queued"]>> \o runs
  /\ answer' = Silent
  /\ UNCHANGED <<head, pulls, merged, calls>>

AdvanceRun(i) ==
  /\ \E state \in CASE runs[i].state = "queued"  -> {"running", "cancelled"}
                    [] runs[i].state = "running" -> RunState \ Pending
                    [] OTHER                     -> {"queued"} :
       runs' = [runs EXCEPT ![i].state = state]
  /\ answer' = Silent
  /\ UNCHANGED <<head, pulls, merged, calls>>

Ask(h) ==
  \/ \E base \in Base : Receive(h, [Nothing EXCEPT !.base = base], "list")
  \/ \E n \in Number, sha \in Sha : Receive(h, [Nothing EXCEPT !.pull = n, !.sha = sha], "get")
  \/ \E n \in Number : Receive(h, [Nothing EXCEPT !.pull = n], "head")

Next ==
  \/ \E h \in Handler :
       \/ Ask(h) \/ RequestFails(h)
       \/ ListPulls(h) \/ CreatePull(h) \/ CreateConflicts(h)
       \/ GetPull(h) \/ MergePull(h) \/ RereadPull(h)
       \/ ReadHead(h) \/ ReadRuns(h)
  \/ \E n \in Number, base \in Base, state \in {"open", "closed"} : Change(n, base, state)
  \/ \E base \in Base : OthersOpen(base)
  \/ \E n \in Number : OthersMerge(n)
  \/ \E i \in DOMAIN runs : AdvanceRun(i)
  \/ Push \/ StartRun

Spec == Init /\ [][Next]_vars

-----------------------------------------------------------------------------
(* Properties *)

(* A create answers with an open pull request for the base it asked for,   *)
(* new or existing, whatever else the page of the list holds               *)
(* (list_pull_requests compares the base itself).  There is one head       *)
(* branch here, so that nothing is said of heads.                          *)
CreateAnswersItsPair ==
  [][\A h \in Handler :
       answer'.kind \in {"exists", "created"} /\ ask'[h] # ask[h]
         => LET pull == pulls'[answer'.pull] IN
            pull.state = "open" /\ pull.base = ask[h].base]_vars

(* A create is told of a conflict, instead of the pull request that exists *)
(* already, only if the list left open ones out or changed after it was    *)
(* read.                                                                   *)
ConflictIsExcused ==
  answer.kind = "conflict" => ~answer.all

(* What a merge request merges is the commit it named, however often the   *)
(* branch moves between the check of the pull request and the merge        *)
(* (expected_head_sha is compared, and sent as head_commit_id).            *)
MergedWasExpected ==
  [][\A h \in Handler : MergePull(h) => merged'[ask[h].pull] = ask[h].sha]_vars

(* A caller told that its merge succeeded has it merged, at the commit it  *)
(* named.                                                                  *)
MergedAnswerIsTrue ==
  answer.kind = "merged" => merged[answer.pull] = answer.sha

(* A green status is about the commit it names: that commit has runs, and  *)
(* of those that are among the runs the forge lists of all commits, the    *)
(* ShownRuns newest are neither unfinished nor failed, whether or not the  *)
(* forge filters by commit (get_ci_status, _aggregate).                    *)
GreenMeansNothingFailed ==
  [][answer'.kind = "status" /\ answer'.verdict = "success" =>
       /\ RunsOf(answer'.sha) # {}
       /\ \A i \in RunsOf(answer'.sha) :
            i <= ListedRuns /\ Cardinality({j \in RunsOf(answer'.sha) : j < i}) < ShownRuns
              => runs[i].state \notin Pending \cup Failing]_vars
=============================================================================
