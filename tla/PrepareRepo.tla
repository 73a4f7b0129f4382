---------------------------- MODULE PrepareRepo ----------------------------
(***************************************************************************)
(* What prepare does between taking the lock of a workspace and writing    *)
(* its meta.json (app/workspace/manager.py): the mirror of the repository, *)
(* which all workspaces share and no lock covers, the clone made from it,  *)
(* its remote, its identity, the branch and the Python environment.        *)
(*                                                                         *)
(* Every step is one subprocess, awaited under a timeout: it succeeds,     *)
(* fails, or is killed with its process group.  WorkspaceStore models who  *)
(* may enter and CommitPush what is done to the branch afterwards; here    *)
(* the branch is a version that every push increments; 0 is the version of *)
(* a branch a clone or a mirror does not have.                             *)
(***************************************************************************)
EXTENDS Naturals

CONSTANTS
  Workspace,  \* workspace ids, all of one repository and one branch
  Handler,    \* concurrent prepares
  NoWorkspace,\* a handler that is idle
  MaxTip      \* bound: pushes to the branch

ASSUME TipAssumption == MaxTip \in Nat \ {0}
ASSUME NullAssumption == NoWorkspace \notin Workspace

VARIABLES
  tip,     \* version of the branch on the forge
  mirror,  \* the mirror directory: [state, tip]
  orphan,  \* a git clone --mirror outlived the gateway that started it
  repo,    \* per workspace, what is in repo/
  meta,    \* head_sha in meta.json, 0 while there is none
  locks,   \* workspaces whose lock file exists
  pc,      \* the command each prepare awaits
  ws,      \* the workspace it prepares
  want,    \* which of refresh and clean it was asked for
  since,   \* history: tip when it was received
  cut      \* history: workspaces whose first setup was cut short and from
           \* which nothing was published since

forge == <<tip, orphan>>
calls == <<pc, ws, want, since>>
vars  == <<tip, mirror, orphan, repo, meta, locks, calls, cut>>

-----------------------------------------------------------------------------

Version == 0 .. MaxTip
Option  == {"refresh", "clean"}
Command == {"clone_mirror", "fill_mirror", "fetch_mirror", "clone", "setup_origin",
            "identity", "origin", "fetch", "checkout", "reset", "venv", "validate"}

(* State of .venv: absent, without pyvenv.cfg or an interpreter, or with   *)
(* an interpreter that runs (the rest of it is never looked at).           *)
Venv == {"none", "broken", "runs"}

(* repo/: absent, torn (no git command works in it) or a repository.       *)
Repo == [state : {"none", "torn", "git"}, origin : {"mirror", "forge"},
         tracking : Version, head : Version, named : BOOLEAN, venv : Venv]

NoRepo == [state |-> "none", origin |-> "mirror", tracking |-> 0, head |-> 0,
           named |-> FALSE, venv |-> "none"]

TypeOK ==
  /\ tip \in Version /\ orphan \in BOOLEAN
  /\ mirror \in [state : {"none", "half", "whole"}, tip : Version]
  /\ repo \in [Workspace -> Repo]
  /\ meta \in [Workspace -> Version]
  /\ locks \subseteq Workspace
  /\ pc \in [Handler -> {"idle"} \cup Command]
  /\ ws \in [Handler -> Workspace \cup {NoWorkspace}]
  /\ want \in [Handler -> SUBSET Option]
  /\ since \in [Handler -> Version]
  /\ cut \subseteq Workspace
  /\ \A h \in Handler : IF pc[h] = "idle" THEN ws[h] = NoWorkspace ELSE ws[h] \in locks

Init ==
  /\ tip = 1 /\ orphan = FALSE
  /\ mirror = [state |-> "none", tip |-> 0]
  /\ repo = [w \in Workspace |-> NoRepo]
  /\ meta = [w \in Workspace |-> 0]
  /\ locks = {}
  /\ pc = [h \in Handler |-> "idle"]
  /\ ws = [h \in Handler |-> NoWorkspace]
  /\ want = [h \in Handler |-> {}]
  /\ since = [h \in Handler |-> 0]
  /\ cut = {}

-----------------------------------------------------------------------------
(* Control *)

Await(h, command) ==
  /\ pc' = [pc EXCEPT ![h] = command]
  /\ UNCHANGED <<locks, ws, want, since>>

(* The request ends, well or badly, and the lock file is removed. *)
Leave(h) ==
  /\ pc' = [pc EXCEPT ![h] = "idle"]
  /\ want' = [want EXCEPT ![h] = {}]
  /\ since' = [since EXCEPT ![h] = 0]
  /\ locks' = locks \ {ws[h]}
  /\ ws' = [ws EXCEPT ![h] = NoWorkspace]

(* A command that writes nothing when it fails, or nothing that matters. *)
CommandFails(h) ==
  /\ pc[h] \in Command \ {"fill_mirror", "clone"}
  /\ Leave(h)
  /\ cut' = IF pc[h] \in {"setup_origin", "identity"} THEN cut \cup {ws[h]}
                                                                   ELSE cut
  /\ UNCHANGED <<forge, mirror, repo, meta>>

-----------------------------------------------------------------------------
(* _ensure_mirror *)

(* Once the mirror is there: clone from it, or set the origin of the clone *)
(* that exists.                                                            *)
Enters(w) == IF repo[w].state = "none" THEN "clone" ELSE "origin"

(* The directory is tested for, and nothing keeps it as it was found.      *)
TestMirror(w, options) ==
  IF mirror.state = "none" THEN "clone_mirror"
  ELSE IF "refresh" \in options THEN "fetch_mirror" ELSE Enters(w)

(* The lock is taken, meta.json agrees with the request and the            *)
(* credentials are there.                                                  *)
Enter(h, w, options) ==
  /\ pc[h] = "idle"
  /\ w \notin locks
  /\ pc' = [pc EXCEPT ![h] = TestMirror(w, options)]
  /\ ws' = [ws EXCEPT ![h] = w]
  /\ want' = [want EXCEPT ![h] = options]
  /\ since' = [since EXCEPT ![h] = IF options = {} THEN 0 ELSE tip]
  /\ locks' = locks \cup {w}
  /\ UNCHANGED <<forge, mirror, repo, meta, cut>>

(* git clone --mirror starts: it refuses a directory made since the test   *)
(* (CommandFails), else it makes the directory and fills it.               *)
StartMirror(h) ==
  /\ pc[h] = "clone_mirror"
  /\ mirror.state = "none"
  /\ mirror' = [state |-> "half", tip |-> 0]
  /\ Await(h, "fill_mirror")
  /\ UNCHANGED <<forge, repo, meta, cut>>

MirrorFilled(h) ==
  /\ pc[h] = "fill_mirror"
  /\ mirror' = [state |-> "whole", tip |-> tip]
  /\ Await(h, Enters(ws[h]))
  /\ UNCHANGED <<forge, repo, meta, cut>>

(* When it fails git removes the directory, even if another prepare's      *)
(* fetch had completed it; when it is killed everything stays.             *)
MirrorFails(h) ==
  /\ pc[h] = "fill_mirror"
  /\ \/ mirror' = [state |-> "none", tip |-> 0]
     \/ UNCHANGED mirror
  /\ Leave(h)
  /\ UNCHANGED <<forge, repo, meta, cut>>

(* A fetch can complete a mirror whose clone was killed or still runs. *)
MirrorFetched(h) ==
  /\ pc[h] = "fetch_mirror"
  /\ mirror.state # "none"
  /\ mirror' = [state |-> "whole", tip |-> tip]
  /\ Await(h, Enters(ws[h]))
  /\ UNCHANGED <<forge, repo, meta, cut>>

-----------------------------------------------------------------------------
(* _clone_workspace and _ensure_origin *)

SetRepo(h, r) == repo' = [repo EXCEPT ![ws[h]] = r]

(* A mirror that has no refs yet is cloned as an empty repository. *)
Cloned(h) ==
  /\ pc[h] = "clone"
  /\ mirror.state # "none"
  /\ SetRepo(h, [NoRepo EXCEPT !.state = "git", !.tracking = mirror.tip])
  /\ Await(h, "setup_origin")
  /\ UNCHANGED <<forge, mirror, meta, cut>>

(* A clone that fails is removed; one that is killed is left, torn or      *)
(* already a repository without refs.                                      *)
CloneFails(h) ==
  /\ pc[h] = "clone"
  /\ \E left \in {"none", "torn", "git"} :
       /\ SetRepo(h, [NoRepo EXCEPT !.state = left])
       /\ cut' = IF left = "none" THEN cut ELSE cut \cup {ws[h]}
  /\ Leave(h)
  /\ UNCHANGED <<forge, mirror, meta>>

Run(h, command, next) ==
  /\ pc[h] = command
  /\ repo[ws[h]].state = "git"
  /\ Await(h, next)
  /\ UNCHANGED <<forge, mirror, meta, cut>>

(* Refresh asks for a fetch into the clone before the checkout. *)
BeforeCheckout(h) == IF "refresh" \in want[h] THEN "fetch" ELSE "checkout"

(* Fault: only the remote of a new clone is configured. *)
SetupOriginReturns(h) ==
  /\ Run(h, "setup_origin", BeforeCheckout(h))
  /\ SetRepo(h, [repo[ws[h]] EXCEPT !.origin = "forge"])

SetupOrigin(h) ==
  /\ Run(h, "setup_origin", "identity")
  /\ SetRepo(h, [repo[ws[h]] EXCEPT !.origin = "forge"])

(* git config user.name, then user.email. *)
SetUser(h) ==
  /\ Run(h, "identity", BeforeCheckout(h))
  /\ SetRepo(h, [repo[ws[h]] EXCEPT !.named = TRUE])

(* Fault: a clone that exists is taken to have its remote. *)
ReuseTrusted(h) ==
  /\ Run(h, "origin", BeforeCheckout(h))
  /\ UNCHANGED repo

Reuse(h) ==
  /\ Run(h, "origin", BeforeCheckout(h))
  /\ SetRepo(h, [repo[ws[h]] EXCEPT !.origin = "forge"])

-----------------------------------------------------------------------------
(* fetch_branch, checkout_ref, reset_to_remote *)

(* Fault: branches are fetched from the mirror. *)
RemoteMirror(w) == mirror.tip

(* What the remote of the clone has for the branch. *)
Remote(w) == IF repo[w].origin = "forge" THEN tip ELSE mirror.tip

(* After the checkout: clean, then the Python environment. *)
Fetched(h) ==
  /\ pc[h] = "fetch" /\ Remote(ws[h]) > 0
  /\ Run(h, "fetch", "checkout")
  /\ SetRepo(h, [repo[ws[h]] EXCEPT !.tracking = Remote(ws[h])])

(* git checkout -B branch origin/branch. *)
CheckedOut(h) ==
  /\ pc[h] = "checkout" /\ repo[ws[h]].tracking > 0
  /\ Run(h, "checkout", IF "clean" \in want[h] THEN "reset" ELSE "venv")
  /\ SetRepo(h, [repo[ws[h]] EXCEPT !.head = repo[ws[h]].tracking])

(* Fault: the branch is reset to what an earlier fetch knew of it. *)
ResetWithoutFetch(h) ==
  /\ pc[h] = "reset"
  /\ Run(h, "reset", "venv")
  /\ SetRepo(h, [repo[ws[h]] EXCEPT !.head = repo[ws[h]].tracking])

(* A fetch of its own, git reset --hard origin/branch, then git clean -fd, *)
(* which keeps the excluded .venv.                                         *)
Reset(h) ==
  /\ pc[h] = "reset" /\ Remote(ws[h]) > 0
  /\ Run(h, "reset", "venv")
  /\ SetRepo(h, [repo[ws[h]] EXCEPT !.tracking = Remote(ws[h]), !.head = Remote(ws[h])])

-----------------------------------------------------------------------------
(* ensure_python_venv *)

(* python -m venv when there is no directory, else what is there is taken. *)
VenvMade(h) ==
  /\ Run(h, "venv", "validate")
  /\ SetRepo(h, [repo[ws[h]] EXCEPT !.venv = IF @ = "none" THEN "runs" ELSE @])

VenvFails(h) ==
  /\ pc[h] = "venv" /\ repo[ws[h]].venv = "none"
  /\ Leave(h)
  /\ \E left \in Venv : SetRepo(h, [repo[ws[h]] EXCEPT !.venv = left])
  /\ UNCHANGED <<forge, mirror, meta, cut>>

(* pyvenv.cfg and the interpreter exist and python --version runs          *)
(* (otherwise CommandFails); git rev-parse HEAD, save_meta, the answer.    *)
Prepared(h) ==
  /\ pc[h] = "validate" /\ repo[ws[h]].venv = "runs"
  /\ meta' = [meta EXCEPT ![ws[h]] = repo[ws[h]].head]
  /\ Leave(h)
  /\ UNCHANGED <<forge, mirror, repo, cut>>

-----------------------------------------------------------------------------
(* The rest of the world *)

(* Somebody else pushes. *)
OthersPush ==
  /\ tip < MaxTip
  /\ tip' = tip + 1
  /\ UNCHANGED <<mirror, orphan, repo, meta, locks, calls, cut>>

(* commit_and_push publishes from a workspace that was prepared: it sets   *)
(* the identity before it commits, and git push to origin moves the        *)
(* remote-tracking branch too.                                             *)
Publish(w) ==
  /\ meta[w] > 0 /\ w \notin locks
  /\ repo[w].head = tip /\ tip < MaxTip
  /\ tip' = tip + 1
  /\ repo' = [repo EXCEPT ![w].head = tip + 1, ![w].tracking = tip + 1, ![w].named = TRUE]
  /\ meta' = [meta EXCEPT ![w] = tip + 1]
  /\ cut' = cut \ {w}
  /\ UNCHANGED <<mirror, orphan, locks, calls>>

(* The gateway dies; locks stay for ever, and a git clone --mirror, which  *)
(* has a session of its own, may live on.                                  *)
Crash ==
  /\ \E h \in Handler : pc[h] # "idle"
  /\ orphan' \in {orphan, orphan \/ \E h \in Handler : pc[h] = "fill_mirror"}
  /\ pc' = [h \in Handler |-> "idle"]
  /\ ws' = [h \in Handler |-> NoWorkspace]
  /\ want' = [h \in Handler |-> {}]
  /\ since' = [h \in Handler |-> 0]
  /\ UNCHANGED <<tip, mirror, repo, meta, locks, cut>>

OrphanEnds ==
  /\ orphan
  /\ orphan' = FALSE
  /\ \/ mirror' = [state |-> "whole", tip |-> tip]
     \/ mirror' = [state |-> "none", tip |-> 0]
     \/ UNCHANGED mirror
  /\ UNCHANGED <<tip, repo, meta, locks, calls, cut>>

Step(h) ==
  \/ StartMirror(h) \/ MirrorFilled(h) \/ MirrorFails(h) \/ MirrorFetched(h)
  \/ Cloned(h) \/ CloneFails(h) \/ SetupOrigin(h) \/ SetUser(h) \/ Reuse(h)
  \/ Fetched(h) \/ CheckedOut(h) \/ Reset(h)
  \/ VenvMade(h) \/ VenvFails(h) \/ Prepared(h) \/ CommandFails(h)

Next ==
  \/ \E h \in Handler : Step(h) \/ \E w \in Workspace, o \in SUBSET Option : Enter(h, w, o)
  \/ \E w \in Workspace : Publish(w)
  \/ OthersPush \/ Crash \/ OrphanEnds

Spec == Init /\ [][Next]_vars

-----------------------------------------------------------------------------
(* Properties *)

(* Whatever was cut short before, and whatever the mirror went through, a  *)
(* workspace with a meta.json that nobody holds is a repository of the     *)
(* forge (not of the mirror path it was cloned from), stands on the commit *)
(* meta.json names, or a newer one if a prepare failed after its checkout, *)
(* and has an interpreter that runs (_ensure_origin on reuse, save_meta    *)
(* last, validate_python_venv).                                            *)
PreparedIsUsable ==
  \A w \in Workspace : meta[w] > 0 /\ w \notin locks =>
    /\ repo[w].state = "git" /\ repo[w].origin = "forge"
    /\ repo[w].head >= meta[w]
    /\ repo[w].venv = "runs"

(* A prepare asked to refresh or to clean answers with a head at least as  *)
(* new as the branch was when it was received, however stale the mirror    *)
(* (fetch_branch in the clone, from the forge).                            *)
RefreshedIsCurrent ==
  [][\A h \in Handler : Prepared(h) /\ want[h] # {} => meta'[ws[h]] >= since[h]]_vars

(* A workspace never goes back behind a head it answered with, not even    *)
(* by a prepare that fetches nothing: what it published stays checked out  *)
(* (checkout_ref takes origin/branch, which fetch and push both move).     *)
HeadNeverGoesBack ==
  [][\A w \in Workspace : meta'[w] >= meta[w]]_vars

(* prepare sets the identity of a new clone only, after its remote: a      *)
(* prepared workspace lacks it only if that setup was cut short, which     *)
(* later prepares do not repair, and until its first commit_and_push,      *)
(* which sets it itself.  (A git commit in a script is made without it.)   *)
UnnamedOnlyAfterCut ==
  \A w \in Workspace : meta[w] > 0 /\ ~repo[w].named => w \in cut
=============================================================================
