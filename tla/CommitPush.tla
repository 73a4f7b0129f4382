----------------------------- MODULE CommitPush -----------------------------
(***************************************************************************)
(* One writable workspace and the remote branch it was prepared for:       *)
(* commit_and_push of app/services/workspaces.py with the git commands of  *)
(* app/workspace/manager.py it runs, next to prepare, reset and exec in    *)
(* the same workspace and to other writers of the branch.                  *)
(*                                                                         *)
(* The workspace lock lets one operation in at a time (WorkspaceStore), so *)
(* what an operation does to the clone between two points where the remote *)
(* or a crash can interfere is one action.  A commit is its tree and its   *)
(* ancestors; a tree maps paths to contents; git status compares the trees *)
(* of HEAD, the index and the work tree.  Policy refuses a changed file    *)
(* for its path, or for what the work tree holds of it (too large, binary).*)
(***************************************************************************)
EXTENDS Naturals, FiniteSets, AuditStore

CONSTANTS
  Path,       \* files of the repository
  Allowed,    \* those whose path policy lets through
  Content,    \* what a file can hold
  Denied,     \* contents policy refuses: binary or too large
  Absent,     \* the content of a file that does not exist
  Selections, \* the values of request.paths; Path stands for the default ["."]
  MaxCommit,  \* bound of the model: commits ever made
  MayRewind   \* whether others force-push the branch to an older commit

ASSUME PathAssumption ==
  /\ Allowed \subseteq Path
  /\ Absent \in Content /\ Denied \subseteq Content \ {Absent}
  /\ Selections \subseteq SUBSET Path
ASSUME BoundAssumption == MaxCommit \in Nat \ {0} /\ MayRewind \in BOOLEAN

VARIABLES
  made,      \* commits 1 .. made exist
  tree,      \* their trees
  anc,       \* their ancestors, themselves included
  remote,    \* head of the branch at the forge
  tracking,  \* refs/remotes/origin/<branch> in the clone
  tip,       \* refs/heads/<branch> in the clone
  aside,     \* the commit of a detached HEAD (1 when HEAD is the branch)
  onBranch,  \* HEAD is refs/heads/<branch>
  index,     \* staged contents
  work,      \* contents of the work tree
  unmerged,  \* the index has conflicts
  metaHead,  \* head_sha in meta.json
  pc,        \* the locked operation: "free", "fetch", "add", "stage",
             \* "commit", "push", "finish", or "stale" when its process died
  req,       \* the commit_and_push request in progress
  published, \* history: commits the remote branch has contained
  acked      \* history: commits answered with pushed = true

store   == <<made, tree, anc>>
local   == <<tracking, tip, aside, onBranch, index, work, unmerged>>
history == <<published, acked>>
vars    == <<store, remote, local, metaHead, pc, req, history, records>>

Commit == 1 .. MaxCommit
Tree == [Path -> Content]
Request == [expected : Commit, paths : Selections, dry : BOOLEAN, key : Key \cup {NoKey}]
NoRequest == [key |-> NoKey]

ASSUME RecordAssumption == NoRecord \notin [hash : Request, response : Commit]

TypeOK ==
  /\ made \in Commit
  /\ tree \in [Commit -> Tree]
  /\ anc \in [Commit -> SUBSET Commit]
  /\ {remote, tracking, tip, aside, metaHead} \subseteq 1 .. made
  /\ onBranch \in BOOLEAN /\ unmerged \in BOOLEAN
  /\ index \in Tree /\ work \in Tree
  /\ pc \in {"free", "fetch", "add", "stage", "commit", "push", "finish", "stale"}
  /\ req \in Request \cup {NoRequest}
  /\ pc \notin {"free", "stale"} => req \in Request
  /\ published \subseteq 1 .. made /\ acked \subseteq 1 .. made
  /\ records \in RecordsOver(Request, Commit)

-----------------------------------------------------------------------------
(* What git computes *)

Head == IF onBranch THEN tip ELSE aside

Differs(s, t) == {p \in Path : s[p] # t[p]}

(* git status: paths that differ from HEAD in the index or the work tree. *)
Changed == Differs(index, tree[Head]) \cup Differs(work, index)

(* git reset --hard t: untracked files stay unless t has them. *)
HardReset(t) ==
  [p \in Path |-> IF t[p] = Absent /\ index[p] = Absent THEN work[p] ELSE t[p]]

(* git clean -fd after the index became t. *)
Cleaned(w, t) == [p \in Path |-> IF t[p] = Absent THEN Absent ELSE w[p]]

(* git checkout -B <branch> t carries local changes over where HEAD and t  *)
(* agree or the index already is t, and refuses to overwrite any other.    *)
Carries(t, p) == tree[Head][p] = t[p] \/ index[p] = t[p]
MayCheckOut(t) ==
  /\ ~unmerged
  /\ \A p \in Path : Carries(t, p) \/ (index[p] = tree[Head][p] /\ work[p] = index[p])
CheckedOut(f, t) == [p \in Path |-> IF Carries(t, p) THEN f[p] ELSE t[p]]

(* A new commit with the given tree on top of parent. *)
NewCommit(t, parent) ==
  /\ made < MaxCommit
  /\ made' = made + 1
  /\ tree' = [tree EXCEPT ![made + 1] = t]
  /\ anc' = [anc EXCEPT ![made + 1] = anc[parent] \cup {made + 1}]

(* What is checked out moves to c. *)
MoveHead(c) ==
  /\ tip' = IF onBranch THEN c ELSE tip
  /\ aside' = IF onBranch THEN aside ELSE c
  /\ UNCHANGED onBranch

(* Freshly prepared: clone, index and work tree are the remote branch. *)
Init ==
  /\ made = 1
  /\ tree \in {[c \in Commit |-> [p \in Path |-> x]] : x \in Content \ {Absent}}
  /\ anc = [c \in Commit |-> IF c = 1 THEN {1} ELSE {}]
  /\ remote = 1 /\ tracking = 1 /\ tip = 1 /\ aside = 1 /\ metaHead = 1
  /\ onBranch = TRUE /\ unmerged = FALSE
  /\ index = tree[1] /\ work = tree[1]
  /\ pc = "free" /\ req = NoRequest
  /\ published = {1} /\ acked = {}
  /\ NoRecords

-----------------------------------------------------------------------------
(* commit_and_push *)

Release == pc' = "free" /\ req' = NoRequest
Goto(where) == pc' = where /\ UNCHANGED req

(* The key is unknown and the lock is free. *)
Begin(r) ==
  /\ pc = "free"
  /\ Miss(r.key)
  /\ pc' = "fetch" /\ req' = r
  /\ UNCHANGED <<store, remote, local, metaHead, history, records>>

(* Why commit_and_push refuses after the fetch. *)

(* Fault: expected_head_sha is not compared. *)
HeadNeverChanged == FALSE

(* WORKSPACE_HEAD_CHANGED *)
HeadChanged == remote # req.expected

Ahead == Head # remote

(* Nothing to publish, or commits of an earlier attempt that do not build  *)
(* on the remote head.                                                     *)
NothingToPublish == Changed = {} /\ (Ahead => remote \notin anc[Head])

(* Fault: validate_changed_paths looks at names only. *)
PassesByName(paths) == paths \subseteq Allowed

(* validate_changed_paths: names, and contents as they are in the work tree. *)
Passes(paths) == paths \subseteq Allowed /\ \A p \in paths : work[p] \notin Denied

(* Fault: only uncommitted changes are validated. *)
WorkRefused == ~Passes(Changed)

(* What is to be published, or else all that is uncommitted, is refused. *)
ChangesRefused ==
  ~Passes(IF Changed = {} THEN Differs(tree[remote], tree[Head]) ELSE Changed)

Refused ==
  \/ HeadChanged \/ ~onBranch \/ unmerged \/ NothingToPublish \/ ChangesRefused
  \/ Changed # {} /\ Ahead                           \* WORKSPACE_DIRTY

(* Fetch the branch and decide: refuse, push commits left by an earlier    *)
(* attempt, or stage the request's paths.                                  *)
Fetch ==
  /\ pc = "fetch"
  /\ tracking' = remote
  /\ \/ Refused /\ Release
     \/ ~Refused /\ Changed # {} /\ Goto("add")
     \/ ~Refused /\ Changed = {} /\ Goto(IF req.dry THEN "finish" ELSE "push")
  /\ UNCHANGED <<store, remote, tip, aside, onBranch, index, work, unmerged,
                 metaHead, history, records>>

(* git add -- paths, which fails when a path matches no file at all ("." never does). *)
Add ==
  /\ pc = "add"
  /\ IF req.paths # Path /\ \E p \in req.paths : index[p] = Absent /\ work[p] = Absent
       THEN Release /\ UNCHANGED index
       ELSE /\ index' = [p \in Path |-> IF p \in req.paths THEN work[p] ELSE index[p]]
            /\ Goto("stage")
  /\ UNCHANGED <<store, remote, tracking, tip, aside, onBranch, work, unmerged,
                 metaHead, history, records>>

(* Nothing staged: git reset --mixed and WORKSPACE_NO_CHANGES.  Staged     *)
(* paths policy refuses: an error that leaves them staged.  A dry run is   *)
(* answered after git reset --mixed.                                       *)
Stage ==
  LET staged == Differs(index, tree[Head]) IN
  /\ pc = "stage"
  /\ IF staged = {} THEN index' = tree[Head] /\ Release
     ELSE IF ~Passes(staged) THEN Release /\ UNCHANGED index
     ELSE IF req.dry THEN index' = tree[Head] /\ Goto("finish")
     ELSE Goto("commit") /\ UNCHANGED index
  /\ UNCHANGED <<store, remote, tracking, tip, aside, onBranch, work, unmerged,
                 metaHead, history, records>>

(* Fault: meta.json is saved before the push. *)
GitCommitSavesMeta ==
  /\ pc = "commit"
  /\ NewCommit(index, Head)
  /\ MoveHead(made + 1)
  /\ metaHead' = made + 1
  /\ Goto("push")
  /\ UNCHANGED <<remote, tracking, index, work, unmerged, history, records>>

GitCommit ==
  /\ pc = "commit"
  /\ NewCommit(index, Head)
  /\ MoveHead(made + 1)
  /\ Goto("push")
  /\ UNCHANGED <<remote, tracking, index, work, unmerged, metaHead, history, records>>

(* Fault: git push --force. *)
PushForced(ok) ==
  /\ pc = "push"
  /\ remote' = Head
  /\ published' = published \cup anc[Head]
  /\ IF ok THEN tracking' = Head /\ Goto("finish")
           ELSE tracking' \in {tracking, Head} /\ Release
  /\ UNCHANGED <<store, tip, aside, onBranch, index, work, unmerged, metaHead,
                 acked, records>>

(* git push origin HEAD:<branch>, without force: the forge takes it when   *)
(* it only adds commits.  ok is whether git then reports success in time.  *)
Push(ok) ==
  /\ pc = "push"
  /\ remote \in anc[Head]
  /\ remote' = Head
  /\ published' = published \cup anc[Head]
  /\ IF ok THEN tracking' = Head /\ Goto("finish")
           ELSE tracking' \in {tracking, Head} /\ Release
  /\ UNCHANGED <<store, tip, aside, onBranch, index, work, unmerged, metaHead,
                 acked, records>>

(* Fault: a rejected push goes unnoticed. *)
GitFailsUnnoticed ==
  /\ pc \in {"fetch", "add", "stage", "commit", "push"}
  /\ IF pc = "push" THEN Goto("finish") ELSE Release
  /\ UNCHANGED <<store, remote, local, metaHead, history, records>>

(* A git command fails or times out before it had an effect, or the forge  *)
(* rejects the push: the error path unlocks and undoes nothing.            *)
GitFails ==
  /\ pc \in {"fetch", "add", "stage", "commit", "push"}
  /\ Release
  /\ UNCHANGED <<store, remote, local, metaHead, history, records>>

(* save_meta after a push, unlock, save the response under the key, answer. *)
Finish ==
  /\ pc = "finish"
  /\ metaHead' = IF req.dry THEN metaHead ELSE Head
  /\ acked' = IF req.dry THEN acked ELSE acked \cup {Head}
  /\ SaveIdempotentResponse(req.key, req, Head)
  /\ Release
  /\ UNCHANGED <<store, remote, local, published>>

-----------------------------------------------------------------------------
(* The other operations of the workspace *)

(* prepare of this workspace: fetch, git checkout -B, and with clean a     *)
(* second fetch and reset.  The remote may move in between, which is one   *)
(* OtherPush and another prepare.                                          *)
Prepare(refresh, clean) ==
  LET target == IF refresh THEN remote ELSE tracking
      final  == IF clean THEN remote ELSE target
  IN
  /\ pc = "free"
  /\ MayCheckOut(tree[target])
  /\ tracking' = final
  /\ tip' = final /\ aside' = 1 /\ onBranch' = TRUE
  /\ index' = IF clean THEN tree[final] ELSE CheckedOut(index, tree[final])
  /\ work' = IF clean THEN tree[final] ELSE CheckedOut(work, tree[final])
  /\ metaHead' = final
  /\ UNCHANGED <<store, remote, unmerged, pc, req, history, records>>

(* reset moves whatever is checked out; it checks nothing out. *)
Reset(clean) ==
  /\ pc = "free"
  /\ tracking' = remote
  /\ MoveHead(remote)
  /\ index' = tree[remote]
  /\ work' = IF clean THEN Cleaned(HardReset(tree[remote]), tree[remote])
                      ELSE HardReset(tree[remote])
  /\ unmerged' = FALSE
  /\ UNCHANGED <<store, remote, metaHead, pc, req, history, records>>

(* exec_pwsh runs a script in the clone, which can do anything but push;   *)
(* write_file and apply_patch only edit.                                   *)
Edit(p, x) ==
  /\ pc = "free"
  /\ work' = [work EXCEPT ![p] = x]
  /\ UNCHANGED <<store, remote, tracking, tip, aside, onBranch, index, unmerged,
                 metaHead, pc, req, history, records>>

ScriptStages(p) ==
  /\ pc = "free"
  /\ index' = [index EXCEPT ![p] = work[p]]
  /\ UNCHANGED <<store, remote, tracking, tip, aside, onBranch, work, unmerged,
                 metaHead, pc, req, history, records>>

ScriptCommits ==
  /\ pc = "free" /\ ~unmerged
  /\ index # tree[Head]
  /\ NewCommit(index, Head)
  /\ MoveHead(made + 1)
  /\ UNCHANGED <<remote, tracking, index, work, unmerged, metaHead, pc, req, history, records>>

(* git checkout --detach, and git checkout <branch>. *)
ScriptDetaches ==
  /\ pc = "free" /\ onBranch /\ ~unmerged
  /\ aside' = tip /\ onBranch' = FALSE
  /\ UNCHANGED <<store, remote, tracking, tip, index, work, unmerged, metaHead, pc, req, history, records>>

ScriptReturns ==
  /\ pc = "free" /\ ~onBranch /\ MayCheckOut(tree[tip])
  /\ aside' = 1 /\ onBranch' = TRUE
  /\ index' = CheckedOut(index, tree[tip])
  /\ work' = CheckedOut(work, tree[tip])
  /\ UNCHANGED <<store, remote, tracking, tip, unmerged, metaHead, pc, req, history, records>>

(* A merge in a script stops at a conflict. *)
ScriptConflicts ==
  /\ pc = "free"
  /\ unmerged' = TRUE
  /\ UNCHANGED <<store, remote, tracking, tip, aside, onBranch, index, work, metaHead, pc, req, history, records>>

-----------------------------------------------------------------------------
(* The environment *)

(* Somebody else pushes a commit; policy does not bind them. *)
OtherPush(p, x) ==
  /\ NewCommit([tree[remote] EXCEPT ![p] = x], remote)
  /\ remote' = made + 1
  /\ published' = published \cup {made + 1}
  /\ UNCHANGED <<local, metaHead, pc, req, acked, records>>

(* Somebody force-pushes the branch back to one of its older commits. *)
Rewind(c) ==
  /\ MayRewind
  /\ c \in anc[remote]
  /\ remote' = c
  /\ UNCHANGED <<store, local, metaHead, pc, req, history, records>>

(* The gateway dies with an operation in the lock, which stays locked.     *)
(* A finished push may have reached meta.json already.                     *)
Crash ==
  /\ pc # "stale"
  /\ pc' = "stale" /\ req' = NoRequest
  /\ metaHead' \in {metaHead} \cup (IF pc = "finish" /\ ~req.dry THEN {Head} ELSE {})
  /\ UNCHANGED <<store, remote, local, history, records>>

(* An operator deletes the lock file; no code does. *)
OperatorUnlocks ==
  /\ pc = "stale"
  /\ pc' = "free"
  /\ UNCHANGED <<store, remote, local, metaHead, req, history, records>>

Requests == {r \in Request : r.expected <= made}

Next ==
  \/ \E r \in Requests : Begin(r)
  \/ Fetch \/ Add \/ Stage \/ GitCommit \/ (\E ok \in BOOLEAN : Push(ok)) \/ GitFails \/ Finish
  \/ \E refresh, clean \in BOOLEAN : Prepare(refresh, clean)
  \/ \E clean \in BOOLEAN : Reset(clean)
  \/ \E p \in Path, x \in Content : Edit(p, x) \/ OtherPush(p, x)
  \/ \E p \in Path : ScriptStages(p)
  \/ ScriptCommits \/ ScriptDetaches \/ ScriptReturns \/ ScriptConflicts
  \/ \E c \in 1 .. made : Rewind(c)
  \/ Crash \/ OperatorUnlocks

Spec == Init /\ [][Next]_vars

-----------------------------------------------------------------------------
(* Properties *)

(* The step of commit_and_push that moves the remote branch. *)
GatewayPush == pc = "push" /\ pc' # "push" /\ remote' # remote /\ made' = made

(* The gateway's push takes no commit off the remote branch that the       *)
(* request did not expect there (PROMPT.md 53: do not overwrite the        *)
(* remote), whatever others push or rewind between the check and the push. *)
PushOverwritesNothing ==
  [][GatewayPush => remote \in anc[req.expected]]_vars

(* What commit_and_push publishes replaces exactly the head the request    *)
(* expected, although others may push between the check and the push (the  *)
(* plan, line 39: expected_head_sha must match the remote branch head).    *)
(* It needs that nobody rewinds the branch.                                *)
PushReplacesExpectedHead ==
  [][GatewayPush => remote = req.expected]_vars

(* What the gateway's push adds to the expected head is what path policy   *)
(* lets through, also when it publishes commits of an earlier attempt or   *)
(* of a script, and whatever others pushed meanwhile.                      *)
PublishedDiffIsAllowed ==
  [][GatewayPush => Differs(tree[req.expected], tree[remote']) \subseteq Allowed]_vars

(* No selected path is published with content policy refuses, although it  *)
(* is the work tree that is inspected and the index that is committed.     *)
SelectedContentIsAllowed ==
  [][GatewayPush => \A p \in Differs(tree[req.expected], tree[remote']) \cap req.paths :
       tree[remote'][p] \notin Denied]_vars

(* A commit answered as pushed is on the remote branch from then on, and   *)
(* so is the commit every replayed answer names, dry runs aside.           *)
AcknowledgedIsPublished ==
  /\ acked \subseteq anc[remote]
  /\ \A k \in Key : records[k] # NoRecord /\ ~records[k].hash.dry =>
       records[k].response \in acked

(* head_sha in meta.json, which audit rows quote, is never a commit the    *)
(* remote has not had: neither failed pushes nor scripts leave it on a     *)
(* commit that exists only in the clone.                                   *)
MetaHeadWasPublished == metaHead \in published

(* manager.py:505: "Binary file changes are not allowed in workspace       *)
(* commits."                                                               *)
PublishedContentIsAllowed ==
  [][GatewayPush => \A p \in Differs(tree[req.expected], tree[remote']) :
       tree[remote'][p] \notin Denied]_vars
=============================================================================
