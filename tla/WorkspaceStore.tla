--------------------------- MODULE WorkspaceStore ---------------------------
(***************************************************************************)
(* The workspace directories of app/workspace/manager.py and the handlers  *)
(* of app/services/workspaces.py that lock, create, reuse and prune them.  *)
(*                                                                         *)
(* The gateway is one asyncio event loop: a handler runs without           *)
(* interruption from one await to the next, so one action below is one     *)
(* such stretch of code.  Directories, lock files and meta.json are on     *)
(* disk and survive a crash; program counters do not.                      *)
(*                                                                         *)
(* What happens inside repo/ is left to CommitPush; here a clone is only   *)
(* absent, complete or unusable.                                           *)
(***************************************************************************)
EXTENDS Naturals, FiniteSets

CONSTANTS
  Workspace,    \* workspace ids (names that match WORKSPACE_ID_RE)
  Handler,      \* concurrent requests the event loop interleaves
  Target,       \* what meta.json pins: owner, repository, ref, writability
  NoWorkspace,  \* prepare was called without workspace_id
  NoMeta,       \* meta.json does not exist
  TornMeta,     \* meta.json exists and does not parse
  MaxCount,     \* settings.workspace_max_count
  TTL           \* settings.workspace_ttl_hours, in ticks of the clock

ASSUME CountAssumption == IsFiniteSet(Workspace) /\ MaxCount \in Nat
ASSUME TTLAssumption == TTL \in Nat
ASSUME NullAssumption ==
  /\ NoWorkspace \notin Workspace
  /\ NoMeta \notin Target /\ TornMeta \notin Target /\ NoMeta # TornMeta

VARIABLES
  dirs,      \* workspace directories that exist under the root
  lockFile,  \* workspaces whose directory holds the file "lock"
  meta,      \* content of meta.json
  repo,      \* state of repo/: "none", "partial" (clone killed half way),
             \* "broken" (files but no repository) or "complete"
  age,       \* ticks since the directory's mtime, saturating at TTL + 1
  pc,        \* where each handler awaits
  ws,        \* the workspace each handler works on
  target,    \* the target a prepare asks for
  stale,     \* history: lock files whose owner died
  torn,      \* history: directories a removal left half deleted
  revived    \* history: directories re-created by sync after a prune

disk    == <<dirs, lockFile, meta, repo, age>>
calls   == <<pc, ws, target>>
history == <<stale, torn, revived>>
vars    == <<disk, calls, history>>

-----------------------------------------------------------------------------
(* Types and helper state formulae *)

Locked  == {"mirror", "clone", "checkout", "leave", "operate"}
Waiting == {"forge", "runinfo", "download"}
RepoState == {"none", "partial", "broken", "complete"}
Ages == 0 .. TTL + 1

DiskTypeOK ==
  /\ dirs \subseteq Workspace
  /\ meta \in [Workspace -> Target \cup {NoMeta, TornMeta}]
  /\ repo \in [Workspace -> RepoState]
  /\ age \in [Workspace -> Ages]

FilesTypeOK ==
  /\ lockFile \subseteq dirs
  /\ stale \subseteq lockFile
  /\ torn \subseteq dirs
  /\ revived \subseteq dirs

CallsTypeOK ==
  /\ pc \in [Handler -> {"idle"} \cup Locked \cup Waiting]
  /\ ws \in [Handler -> Workspace \cup {NoWorkspace}]
  /\ target \in [Handler -> Target \cup {NoMeta}]

TypeOK == DiskTypeOK /\ FilesTypeOK /\ CallsTypeOK

Holds(h, w) == pc[h] \in Locked /\ ws[h] = w

(* get_meta succeeds: meta.json exists and parses. *)
Readable(w) == meta[w] \in Target

(* Fault: prune does not look for the lock file. *)
ExpiredIgnoringLocks == {w \in dirs : TTL > 0 /\ age[w] > TTL}

(* Directories prune_expired_workspace_dirs tries to remove. *)
Expired == {w \in dirs \ lockFile : TTL > 0 /\ age[w] > TTL}

Init ==
  /\ dirs = {} /\ lockFile = {}
  /\ meta = [w \in Workspace |-> NoMeta]
  /\ repo = [w \in Workspace |-> "none"]
  /\ age = [w \in Workspace |-> 0]
  /\ pc = [h \in Handler |-> "idle"]
  /\ ws = [h \in Handler |-> NoWorkspace]
  /\ target = [h \in Handler |-> NoMeta]
  /\ stale = {} /\ torn = {} /\ revived = {}

-----------------------------------------------------------------------------
(* Steps of a handler's control *)

Answer(h) ==
  /\ pc' = [pc EXCEPT ![h] = "idle"]
  /\ ws' = [ws EXCEPT ![h] = NoWorkspace]
  /\ target' = [target EXCEPT ![h] = NoMeta]

Await(h, where, w) ==
  /\ pc' = [pc EXCEPT ![h] = where]
  /\ ws' = [ws EXCEPT ![h] = w]

(* Leaving "with lock": unlink the lock file, which renews the mtime of    *)
(* the directory, and answer.                                              *)
Release(h) ==
  /\ lockFile' = lockFile \ {ws[h]}
  /\ age' = [age EXCEPT ![ws[h]] = 0]
  /\ Answer(h)
  /\ UNCHANGED <<dirs, history>>

-----------------------------------------------------------------------------
(* prepare *)

ReceivePrepare(h, w, t) ==
  /\ pc[h] = "idle"
  /\ Await(h, "forge", w)
  /\ target' = [target EXCEPT ![h] = t]
  /\ UNCHANGED <<disk, history>>

(* What a removal that fails part way through can leave of directory w. *)
Remains(w) ==
  [meta : {meta[w], NoMeta}, repo : IF repo[w] = "none" THEN {"none"}
                                                        ELSE {"none", "broken"}]

(* prune_expired_workspace_dirs: every expired directory goes, but for     *)
(* those in kept, whose rmtree raised OSError after deleting something.    *)
Prune(kept, left) ==
  LET gone == Expired \ kept IN
  [ dirs |-> dirs \ gone,
    meta |-> [w \in Workspace |-> IF w \in gone THEN NoMeta
                                  ELSE IF w \in kept THEN left[w].meta ELSE meta[w]],
    repo |-> [w \in Workspace |-> IF w \in gone THEN "none"
                                  ELSE IF w \in kept THEN left[w].repo ELSE repo[w]],
    age  |-> [w \in Workspace |-> IF w \in Expired THEN 0 ELSE age[w]] ]

(* The outcomes of prepare on the disk d that prune left. *)

(* Fault: the limit is compared with > instead of >=. *)
FullLate(d) == Cardinality(d.dirs) > MaxCount

Full(d) == Cardinality(d.dirs) >= MaxCount

(* _enforce_workspace_count, asked unless the given id has a meta.json. *)
LimitReached(h, d) ==
  /\ Full(d)
  /\ ws[h] # NoWorkspace => d.meta[ws[h]] = NoMeta
  /\ Answer(h)
  /\ dirs' = d.dirs /\ age' = d.age /\ UNCHANGED lockFile

(* w is the given id, or a new one. *)
Chosen(h, d, w) ==
  \/ ws[h] = w /\ (d.meta[w] = NoMeta => ~Full(d))
  \/ ws[h] = NoWorkspace /\ w \notin d.dirs /\ ~Full(d)

Busy(h, d, w) ==
  /\ w \in lockFile
  /\ Answer(h)
  /\ dirs' = d.dirs /\ age' = d.age /\ UNCHANGED lockFile

(* Locked, then meta.json does not parse or pins another target: unlocked. *)
MetaRefuses(h, d, w) ==
  /\ w \notin lockFile
  /\ d.meta[w] \notin {NoMeta, target[h]}
  /\ Answer(h)
  /\ dirs' = d.dirs \cup {w} /\ age' = [d.age EXCEPT ![w] = 0] /\ UNCHANGED lockFile

(* Fault: the lock file is opened without O_EXCL. *)
EntersLockAnyway(h, d, w) ==
  /\ d.meta[w] \in {NoMeta, target[h]}
  /\ Await(h, "mirror", w)
  /\ dirs' = d.dirs \cup {w} /\ age' = [d.age EXCEPT ![w] = 0]
  /\ lockFile' = lockFile \cup {w}
  /\ UNCHANGED target

(* Fault: meta.json is not compared with the request. *)
EntersLockUnchecked(h, d, w) ==
  /\ w \notin lockFile
  /\ d.meta[w] # TornMeta
  /\ Await(h, "mirror", w)
  /\ dirs' = d.dirs \cup {w} /\ age' = [d.age EXCEPT ![w] = 0]
  /\ lockFile' = lockFile \cup {w}
  /\ UNCHANGED target

EntersLock(h, d, w) ==
  /\ w \notin lockFile
  /\ d.meta[w] \in {NoMeta, target[h]}
  /\ Await(h, "mirror", w)
  /\ dirs' = d.dirs \cup {w} /\ age' = [d.age EXCEPT ![w] = 0]
  /\ lockFile' = lockFile \cup {w}
  /\ UNCHANGED target

Enter(h, d) ==
  \/ LimitReached(h, d)
  \/ \E w \in Workspace :
       Chosen(h, d, w) /\ (Busy(h, d, w) \/ MetaRefuses(h, d, w) \/ EntersLock(h, d, w))

(* From the forge's answer to the first await under the lock: prune, count *)
(* the directories, take the lock, compare meta.json with the request.     *)
PrepareEnter(h) ==
  /\ pc[h] = "forge"
  /\ \E kept \in SUBSET Expired :
     \E left \in [kept -> UNION {Remains(w) : w \in kept}] :
     LET d == Prune(kept, left) IN
     /\ \A w \in kept : left[w] \in Remains(w)
     /\ meta' = d.meta /\ repo' = d.repo
     /\ torn' = (torn \cap d.dirs) \cup kept
     /\ revived' = revived \cap d.dirs
     /\ UNCHANGED stale
     /\ Enter(h, d)

(* A request to the forge fails before any workspace is touched. *)
ForgeFails(h) ==
  /\ pc[h] \in {"forge", "runinfo", "download"}
  /\ Answer(h)
  /\ UNCHANGED <<disk, history>>

(* Fault: meta.json is written before the clone. *)
MirrorReadySavesMeta(h) ==
  /\ pc[h] = "mirror"
  /\ Await(h, IF repo[ws[h]] = "none" THEN "clone" ELSE "checkout", ws[h])
  /\ meta' = [meta EXCEPT ![ws[h]] = target[h]]
  /\ UNCHANGED <<dirs, lockFile, repo, age, target, history>>

MirrorReady(h) ==
  /\ pc[h] = "mirror"
  /\ Await(h, IF repo[ws[h]] = "none" THEN "clone" ELSE "checkout", ws[h])
  /\ UNCHANGED <<disk, target, history>>

CloneDone(h) ==
  /\ pc[h] = "clone"
  /\ repo' = [repo EXCEPT ![ws[h]] = "complete"]
  /\ Await(h, "checkout", ws[h])
  /\ UNCHANGED <<dirs, lockFile, meta, age, target, history>>

(* git clone removes what it wrote when it fails, unless the timeout's     *)
(* SIGKILL stopped it.                                                     *)
CloneFails(h) ==
  /\ pc[h] = "clone"
  /\ \E left \in {"none", "partial"} : repo' = [repo EXCEPT ![ws[h]] = left]
  /\ Release(h)
  /\ UNCHANGED meta

(* set-url, fetch, checkout, clean and venv succeed; meta.json is written. *)
(* A partial clone can be completed by the fetch, a broken one cannot.     *)
(* (No await separates the write from the unlink; a crash can.)            *)
PrepareDone(h) ==
  /\ pc[h] = "checkout"
  /\ repo[ws[h]] # "broken"
  /\ repo' = [repo EXCEPT ![ws[h]] = "complete"]
  /\ meta' = [meta EXCEPT ![ws[h]] = target[h]]
  /\ Await(h, "leave", ws[h])
  /\ UNCHANGED <<dirs, lockFile, age, target, history>>

(* Fault: an error leaves the lock file behind. *)
PrepareFailsLocked(h) ==
  /\ pc[h] \in {"mirror", "checkout"}
  /\ Answer(h)
  /\ UNCHANGED <<disk, history>>

(* Fault: an error starts over under the lock. *)
PrepareFailsAndRetries(h) ==
  /\ pc[h] \in {"mirror", "checkout"}
  /\ Await(h, "mirror", ws[h])
  /\ UNCHANGED <<disk, target, history>>

PrepareFails(h) ==
  /\ pc[h] \in {"mirror", "checkout"}
  /\ Release(h)
  /\ UNCHANGED <<meta, repo>>

-----------------------------------------------------------------------------
(* status, diff, exec, apply_patch, write_file, reset and commit_and_push: *)
(* read meta.json and take the lock without an await in between.           *)

Operate(h, w) ==
  /\ pc[h] = "idle"
  /\ Readable(w)
  /\ \/ /\ w \in lockFile
        /\ Answer(h)
        /\ UNCHANGED <<disk, history>>
     \/ /\ w \notin lockFile
        /\ Await(h, "operate", w)
        /\ lockFile' = lockFile \cup {w}
        /\ age' = [age EXCEPT ![w] = 0]
        /\ UNCHANGED <<dirs, meta, repo, target, history>>

LeaveLock(h) ==
  /\ pc[h] \in {"operate", "leave"}
  /\ Release(h)
  /\ UNCHANGED <<meta, repo>>

-----------------------------------------------------------------------------
(* sync_run_artifacts_to_workspace: meta.json is read before two requests  *)
(* to the forge, the lock is taken after them, released for the downloads  *)
(* and taken again to extract.  Neither locked window has an await.        *)

ReceiveSync(h, w) ==
  /\ pc[h] = "idle"
  /\ Readable(w)
  /\ Await(h, "runinfo", w)
  /\ UNCHANGED <<disk, target, history>>

(* lock() creates the directory it is given; writing .git/info/exclude or  *)
(* the artifacts creates repo/.                                            *)
Recreate(w) ==
  /\ dirs' = dirs \cup {w}
  /\ revived' = IF w \in dirs THEN revived ELSE revived \cup {w}
  /\ repo' = IF repo[w] = "none" THEN [repo EXCEPT ![w] = "broken"] ELSE repo
  /\ age' = [age EXCEPT ![w] = 0]
  /\ UNCHANGED <<meta, torn>>

SyncWindow(h) ==
  /\ pc[h] \in {"runinfo", "download"}
  /\ \/ /\ ws[h] \in lockFile
        /\ Answer(h)
        /\ UNCHANGED <<disk, history>>
     \/ /\ ws[h] \notin lockFile
        /\ Recreate(ws[h])
        /\ \/ Answer(h)
           \/ pc[h] = "runinfo" /\ Await(h, "download", ws[h]) /\ UNCHANGED target
        /\ UNCHANGED <<lockFile, stale>>

-----------------------------------------------------------------------------
(* The process dies and is restarted.  A clone or a meta.json being        *)
(* written may be cut short; no code looks at lock files on startup.       *)

Caught(points) == {ws[h] : h \in {g \in Handler : pc[g] \in points}}

Restart ==
  /\ pc' = [h \in Handler |-> "idle"]
  /\ ws' = [h \in Handler |-> NoWorkspace]
  /\ target' = [h \in Handler |-> NoMeta]

Crash ==
  /\ \E cut \in SUBSET Caught({"clone"}), half \in SUBSET Caught({"checkout", "operate"}) :
       /\ repo' = [w \in Workspace |-> IF w \in cut THEN "partial" ELSE repo[w]]
       /\ meta' = [w \in Workspace |-> IF w \in half THEN TornMeta ELSE meta[w]]
  /\ stale' = stale \cup Caught(Locked)
  /\ Restart
  /\ UNCHANGED <<dirs, lockFile, age, torn, revived>>

(* The process dies inside one of sync's locked windows. *)
CrashInSync(h) ==
  /\ pc[h] \in {"runinfo", "download"}
  /\ ws[h] \notin lockFile
  /\ Recreate(ws[h])
  /\ lockFile' = lockFile \cup {ws[h]}
  /\ stale' = stale \cup Caught(Locked) \cup {ws[h]}
  /\ Restart

(* Time passes. *)
Tick ==
  /\ age' = [w \in Workspace |-> IF w \in dirs /\ age[w] <= TTL THEN age[w] + 1 ELSE age[w]]
  /\ UNCHANGED <<dirs, lockFile, meta, repo, calls, history>>

-----------------------------------------------------------------------------

Receive(h) ==
  \/ \E w \in Workspace \cup {NoWorkspace}, t \in Target : ReceivePrepare(h, w, t)
  \/ \E w \in Workspace : Operate(h, w) \/ ReceiveSync(h, w)

Progress(h) ==
  \/ PrepareEnter(h) \/ ForgeFails(h) \/ MirrorReady(h) \/ CloneDone(h) \/ CloneFails(h)
  \/ PrepareDone(h) \/ PrepareFails(h) \/ LeaveLock(h) \/ SyncWindow(h)

Next ==
  \/ \E h \in Handler : Receive(h) \/ Progress(h) \/ CrashInSync(h)
  \/ Crash
  \/ Tick

Spec == Init /\ [][Next]_vars

(* The event loop keeps running what it has accepted: forge requests and   *)
(* git commands all carry timeouts, so every await ends.                   *)
FairSpec == Spec /\ \A h \in Handler : WF_vars(Progress(h))

-----------------------------------------------------------------------------
(* Properties *)

(* Two requests never work inside the same workspace at once, and whoever  *)
(* works inside one still has its directory and its lock file: prune skips *)
(* locked directories and no path unlocks what it did not lock             *)
(* (WorkspaceManager.lock, prune_expired_workspace_dirs).                  *)
MutualExclusion ==
  \A g, h \in Handler, w \in Workspace :
    Holds(g, w) => w \in lockFile /\ (Holds(h, w) => g = h)

(* Every error path gives the lock back: a lock file nobody holds is one   *)
(* whose holder died (the finally of WorkspaceManager.lock).               *)
NoLeakedLock ==
  \A w \in lockFile : w \in stale \/ \E h \in Handler : Holds(h, w)

(* A workspace that get_meta accepts has a complete clone, whatever        *)
(* clones, prepares and restarts were cut short before, because prepare    *)
(* writes meta.json last.  Only a directory that prune half removed is     *)
(* exempt.                                                                 *)
PreparedIsCloned ==
  \A w \in Workspace : Readable(w) /\ w \notin torn => repo[w] = "complete"

(* A directory disappears only when it outlived its TTL since it was last  *)
(* locked or unlocked, and never under a handler that works in it.         *)
RemovedOnlyWhenUnused ==
  [][\A w \in dirs \ dirs' :
       age[w] > TTL /\ w \notin lockFile /\ \A h \in Handler : ~Holds(h, w)]_vars

(* A workspace keeps the repository, ref and writability it was prepared   *)
(* for until its meta.json goes away: racing prepares of one id for two    *)
(* targets cannot retarget it (the comparisons after the lock in           *)
(* _prepare_workspace).                                                    *)
TargetFixed ==
  [][\A w \in Workspace :
       meta[w] \in Target /\ meta'[w] \in Target => meta'[w] = meta[w]]_vars

(* However many prepares race, WORKSPACE_MAX_COUNT is only ever exceeded   *)
(* by directories that sync_run_artifacts re-created after a prune.        *)
CountExceededOnlyByRevival ==
  Cardinality(dirs \ revived) <= MaxCount

(* Every accepted request is answered: no handler waits for another one,   *)
(* a lock that is taken or stale is refused and not awaited.               *)
EveryRequestAnswered ==
  \A h \in Handler : pc[h] # "idle" ~> pc[h] = "idle"

(* The lock files implement the abstract lock: whatever prune, sync,       *)
(* failures and crashes do to directories, no lock is shared, given back   *)
(* by another or freed after its holder died (WorkspaceManager.lock).      *)
HeldLocks == {hw \in Handler \X Workspace : Holds(hw[1], hw[2])}
DeadLocks == {w \in lockFile : \A h \in Handler : ~Holds(h, w)}

Lock == INSTANCE LockService WITH held <- HeldLocks, dead <- DeadLocks

ImplementsLock == Lock!Spec
=============================================================================
