# gpt-actions-gateway in TLA+

The gateway is a FastAPI process between a GPT client and a Gitea forge. It keeps git workspaces on disk for
the client to edit, commits and pushes from them, creates branches, dispatches and reruns workflows, and
remembers in SQLite what it answered to requests that carry an `idempotency_key`.

It runs in one asyncio event loop. A handler runs without interruption from one `await` to the next, and what
other requests, other users of the forge, a crash or the clock do happens at the `await`s. The models take
those stretches as their steps: code between two awaits is one action; code separated by an `await` is more
than one.

## Inventory

| Component | State | Operations | Interacts through | Hard behaviour | What makes it correct |
|---|---|---|---|---|---|
| Workspace lifecycle (`workspace/manager.py`) | directories `ws_*`, file `lock`, `meta.json`, `repo/`, mtimes | prepare, lock, prune, count | the lock file; mtimes | interleaved prepares and prunes, crash with the lock held, half removed trees | exclusion, no leaked lock, limit kept, meta tells the truth |
| Commit and push (`services/workspaces.py`) | clone: HEAD, branch, index, work tree; `meta.head_sha` | commit_and_push, reset, prepare, scripts, edits | git, the remote branch, the idempotency table | fetch-to-push race, lost push answers, retry after failure, leftovers in the index | expected head respected, policy holds for what is published, acknowledged commits are there |
| Idempotency table (`storage/audit.py`) | row per scope and key | look up, save | SQLite | lookup and save far apart | a key is performed once, answers are about their request |
| Forge operations (`services/branches.py`, `services/ci.py`) | none of their own | create branch, dispatch, rerun | forge HTTP, idempotency table | overlap, lost answers, existing branches | as above |
| Artifact synchronisation (`services/workspaces.py`) | `.gpt-artifacts` under `repo/`, its manifest | sync | the workspace lock, twice | workspace pruned while it downloads; two syncs; partial extraction | a manifest describes the disk, an answer what is there |
| Text edits (`workspace/text_ops.py`) | files | apply_patch, write_file | the workspace lock | failure after some files were written, hunks that move each other, directories git does not look into | all or nothing, hunks go where they belong |
| Mirror and setup (`workspace/manager.py`, `workspace/git.py`) | bare clone per repository; remote, identity, branch and `.venv` of a clone | clone, fetch, set-url, checkout, reset, venv | file system, no lock on the mirror | two prepares at once, a setup killed half way, a stale mirror | what is prepared is usable and current |
| Parsing (`workspace/git.py`, `manager.py`) | none | porcelain, numstat, name-status | git output | NUL-separated records of varying length | right path and operation |
| Policy (`policy/rules.py`) | none | path and branch verdicts | - | normalisation, precedence of patterns | denied stays denied |
| Pull requests (`services/pulls.py`) | none of their own | create or continue, update, merge | forge | the head and the list change between two requests, answers are lost | merges what was reviewed, answers about the pair that was asked for |
| CI queries (`services/ci.py`, `ci/logs.py`) | none | aggregate, read logs | forge | jobs and logs change while logs are fetched; pages, cuts | right verdict, nothing missing or cut unsaid |
| Authentication and rate limit (`auth/dependencies.py`) | window per caller | admit, refuse | process memory | edge of the window | at most the limit per minute, refused only then |
| Forge client, routes, settings, models | none | - | - | - | - |

`PROJECT.json` lists the same components with their status, and the hazards each line of code is exposed to
with the properties that would notice.

## Modules

**`WorkspaceStore`** models the directories under the workspace root and every handler that locks, creates,
reuses or prunes them. `dirs`, `lockFile`, `meta`, `repo` and `age` are on disk and survive `Crash`; `pc`,
`ws`, `target` are a handler's control and do not. The actions follow `_prepare_workspace` from await to await:

* `ReceivePrepare` up to the forge requests;
* `PrepareEnter`, one stretch without an await: `prune_expired_workspace_dirs`, the directory count, `lock`, the
  comparisons with `meta.json`, up to the first git command under the lock. Its outcomes are `LimitReached`,
  `Busy`, `MetaRefuses`, `EntersLock`. A removal may fail part way (`Remains`): `_remove_tree` raises, prune
  logs and goes on;
* `MirrorReady`, `CloneDone`, `CloneFails`, `PrepareDone`, `PrepareFails`, `LeaveLock`.

`Operate`/`LeaveLock` are the operations that read `meta.json` and lock without an await in between (status,
diff, exec, apply_patch, write_file, reset, commit_and_push). `ReceiveSync`/`SyncWindow` are artifact
synchronisation, which awaits the forge between reading `meta.json` and locking, and between its two locked
windows. `Crash` may cut a clone or a `meta.json` being written short; `CrashInSync` is a crash inside a
window, which has no await and therefore no state of its own.

**`AuditStore`** is the idempotency table: `Miss`, `Hit` and `SaveIdempotentResponse`, the last with the
conflict clause that replaces a response and keeps the hash. It is used by the next two modules.

**`ForgeCalls`** is the shape create_work_branch, dispatch_workflow, rerun_workflow_run and rerun_workflow_job
share: look the key up, ask the forge, perform, save, answer, with an await everywhere but at both ends. The
payloads in `Named` create a branch that may exist (`Conflict`, `ContinueBranch`).

**`CommitPush`** is one writable workspace and its remote branch. Since `WorkspaceStore` shows that one operation
works in a workspace at a time, `pc` belongs to the workspace, and an operation is cut where the remote, a
failure or a crash can interfere: `Begin`, `Fetch` (with every refusal, named one by one), `Add`, `Stage`,
`GitCommit`, `Push`, `Finish`, and `GitFails` for every git command. A commit is a tree and its ancestors; HEAD,
branch, index and work tree are separate, since most of what can go wrong is one of them being behind another.
`Prepare` and `Reset` are the operations that move them, the `Script...` actions what a client's script does to
them, `OtherPush` and `Rewind` the other writers.

Operators whose comment begins with "Fault:" are not part of a specification. Each is a plausible mistake in
the definition that follows it, and replaces it to see that a property notices (`PROJECT.json`, "mutants").

**`TextPatch`** is what `text_ops.py` computes: texts as lines with their endings, what joining and splitting does
to them (`Join`), the search for a hunk from a cursor (`Candidates`, `Put`, `ApplyHunk`) and the line endings of
`write_file`. `Placements` and `Spliced` say what a patch means without a cursor; they are what the code is
compared with.

**`FileEdits`** is `apply_patch` and `write_file` on one work tree. `Begin` is taking the lock, parsing and
snapshotting; `ApplyOperation` writes one file, so that a failure (`OperationFails`) or a crash comes between two;
`Finish` asks git what changed, validates and keeps or, for a dry run, undoes; `CheckFails` is a refusal or a
failing git command there. `Undo` restores the snapshots in the order of the patch, and stops where writing one
back fails. `file` and `dirs` are the work tree, `base` what git tracks; scripts change all three in between.

**`ArtifactSync`** is `sync_run_artifacts_to_workspace` once the workspace is known to exist. A handler awaits the run
(`Start`), each page (`ListPage`) and each archive (`Download`); a locked window has no await and belongs to the
step whose answer leads into it (`FirstWindow`, `SecondWindow`). `Current` is the skip decision. What an error or a
crash leaves of a removal, an extraction or a manifest being written is `CutShort`. `manifest` and `files` are the
target directory; an artifact is an id and the attempt whose upload it is, which is what a digest tells apart.
Around it the run is rerun, uploads, completes, expires, and scripts damage what was copied.

**`LockService`** is the abstract lock: who holds which workspace, and which locks died with their holder.
`WorkspaceStore` implements it (`ImplementsLock`): a pair is held while its handler is under the lock, and dead is a
lock file without a holder. Everything else the store does to directories and `meta.json` is a stutter of it.

**`PrepareRepo`** is what prepare does under the lock, one action per subprocess: `TestMirror` looks for the mirror,
which nothing then keeps as it was found; `StartMirror`, `MirrorFilled`, `MirrorFails` and `MirrorFetched` are the
clone and the fetch, `Cloned`/`CloneFails`, `SetupOrigin`, `SetUser` and `Reuse` the clone of the workspace and its
configuration, `Fetched`, `CheckedOut` and `Reset` the branch, `VenvMade`, `VenvFails` and the checks in `Prepared`
the environment, after which `meta.json` is saved. `CommandFails` is a command that fails or is killed. The branch
is a version; `Publish` is `commit_and_push` from a prepared workspace, which sets the identity before it commits. `GitRunner` starts commands in a session of
their own, so a clone may outlive the gateway (`orphan`).

**`PullRequests`** is `create_pull_request`, `merge_pull_request`, `update_pull_request` and `get_ci_status` of a pull
request: one action per forge request, with everything others do in between. `Continuable` is the filter of
`list_pull_requests` over a page that was cut before; `GetPull` the checks before a merge, `HeadAgrees` the forge's own
with the `head_commit_id` it is sent; an answer may be lost after either of `CreatePull` and `MergePull`. `full`,
`moved` and `merged` are history. **`CiStatus`**, which it extends, is which runs a status looks at and the verdict.

**`JobLogs`** is `get_run_log`, `get_failed_ci_log` and `get_job_log`: one page of the jobs is listed (`Page`), then logs are fetched
one by one (`Fetch`) while jobs end and logs appear and expire. A job that is not ready becomes a note in an archive, whose
manifest says so, and fails a request about failed jobs. `AnswerAll` passes over entries that are no text (`Binary`) and
stops at the first entry after as many files as were allowed. It extends **`RateLimiter`**, the window per caller every
request passes (`Admit`, `Refuse`), and **`LogText`**, what `_trim_log`, `_extract_step_log` and `parse_failed_log`
cut out of a log, by lines and by bytes (`Clip`).

**`..._proofs`** modules hold the theorems: one beside each of `WorkspaceStore`, `ForgeCalls`, `CommitPush`,
`PrepareRepo`, `ArtifactSync`, `FileEdits`, `PullRequests` and `JobLogs`. `WorkspaceStore_proofs` also has the proof
that the store implements `LockService`, `JobLogs_proofs` what it extends: `RateLimiter` and `LogText`.

**`MC...`** modules and `.cfg` files are the instances TLC checks.

### Abstractions

* A target of `meta.json` is one value for owner, repository, ref and writability: every mismatch is refused alike.
* `repo` is absent, complete, partial (a killed clone, which a later fetch may complete) or broken (files but no
  repository, which nothing completes).
* Time is an age per directory in ticks, saturating just beyond the TTL. A removal that fails part way renews
  the mtime; so do locking and unlocking, which create and unlink a file in the directory.
* A request's hash is the request (`canonical_hash` is SHA-256 of all its fields; `inputs` of a dispatch are
  hashed before they are redacted).
* A selection of paths is a set; the whole of `Path` stands for the default `["."]`.
* Other writers of the branch are free: policy does not bind them. With `MayRewind` they also force-push back.
* After a crash the lock file stays; `OperatorUnlocks` is somebody deleting it, which no code does.
* A text is a sequence of lines from a small set; a file is such a text, `Binary` or `Absent`. Sections of a patch
  are given parsed, a path has at most two segments, git ignores nothing, no path is a symlink, and a file does
  not mix line endings. What makes a text too large or binary for policy is a line in `DeniedLine`.
* What a synchronisation finds damaged is told apart from what it left itself by history: `touched` are directories
  scripts changed, `trimmed` those a failed removal cut under a manifest it did not reach. Neither is noticed by
  the skip decision, which only asks whether the directories exist.
* In `PrepareRepo` the virtual environment is absent, broken, or has an interpreter that runs, which is all that
  prepare looks at; the branch is read and written as a branch (a workspace at a commit id fetches that commit).
  The commands that write nothing when they fail are `CommandFails`; `git` removes what a failed clone made and a
  killed one leaves it.
* In `PullRequests` all pull requests are of one head branch, and the forge has one open one per pair, which is what
  `create_pull_request` relies on. Drafts, conflicts and denied branches are refusals (`RequestFails`). A run's status
  and conclusion are one state; `success` stands for skipped and neutral.
* In `JobLogs` a log is there or not, and a job's log is binary or text for good; a line of a log has a number of bytes
  and is an error, names the step, or neither. What the byte limit leaves of a line shows neither. `error_summary` and
  the mark a cut adds to the text are left out. The limiter's buckets are memory, and a restart, which empties them,
  is not modelled.
* Logging, audit rows, diagnostics and the layout of response bodies are left out.

## Runs

| Run | Shows |
|---|---|
| `workspace_store` | exclusion, no leaked lock, meta.json written last, the limit, safe removal, fixed targets, and that the lock files implement the abstract lock: two handlers, two workspaces, two targets, limit 1, TTL 1, with crashes |
| `workspace_answers` | every request is answered, whatever locks are held or stale |
| `forge_calls` | what a key guarantees: an answered request is not repeated; it is performed once unless two requests overlapped or an answer was lost, and answered with its own response unless two overlapped |
| `commit_push` | the expected head, path policy for everything published, acknowledged commits on the remote: one allowed and one denied file, three commits, one key |
| `commit_push_rewound` | one file that may be binary, with others also rewinding the branch: nothing unexpected is overwritten, `meta.head_sha` names a published commit, no binary content of a selected path is published |
| `file_edits` | patches of one or two operations on a file and on a name that is a file or a directory, updates of up to two hunks on every text of two lines and length three, writes with every line ending, two edits in a row with scripts, commits, failures and crashes: all or nothing, hunks in order are spliced, what answers omit lies in new directories, a retried write changes nothing |
| `prepare_repo` | two prepares, two workspaces, one mirror, with every combination of refresh and clean, two versions of the branch, killed commands, crashes and an orphaned clone: a prepared workspace is usable, at least as new as a refresh asked for and never behind an earlier answer; the identity is missing only after a setup that was cut short, until the first `commit_and_push` |
| `pull_requests` | two requests, two bases, two pull requests, two commits, two runs: a create answers with an open pull request of its base and conflicts only when the list was cut or changed; a merge merges the commit it named, and says so truthfully; green means that no run the caller can be shown of the commit is unfinished or failed |
| `job_logs` | three jobs, two of them on the page that is listed and one of these with a binary log, two callers with two requests per window, archives asked for in part: an archive has every text log of the page or says otherwise; the limiter admits exactly the limit; of logs of up to three lines, with an error or a step anywhere or after a line as long as an answer, whole ones are cut openly, and cut out ones keep what was looked for or are marked truncated |
| `artifact_sync` | two overlapping synchronisations, two artifacts on a page each, one without digest, two attempts: a manifest describes the disk, an answer is about what its own request listed, in those versions, and all of a list that stays the same |

Bounds. Two handlers make every pairwise race; two workspaces and a limit of one make a full store, a reused
and a new id, and a directory re-created beyond the limit. Three commits are the initial one, the gateway's and
another writer's, or a stack of two local ones. `performed` saturates at 2, which is all the property
distinguishes. Requests expect any commit that exists. Handlers, workspaces and targets are symmetric in the
safety runs; the liveness run and the runs that show a violation use no symmetry or only a sound one.

Fairness. `FairSpec` asks that a handler that was accepted keeps making progress: the event loop schedules it,
and the forge client and `GitRunner.run` give every await a timeout. Crashes and requests are not fair.

Deadlock checking is off for `prepare_repo` only: once crashes left both lock files and the branch had its last
push, nothing in it can happen any more (the gateway then refuses prepares, which is in `workspace_store`).

`TypeOK` of a module states the types of its variables. The runs of `WorkspaceStore`, whose proofs start from it, and
of `FileEdits`, where it says that texts stay texts, list it; it holds in the others as well.

`pull_requests` stays below the cut-offs of 100 listed and 20 shown runs (`ListedRuns`, `ShownRuns`); a third run makes
it too large, and beyond the cut-offs `GreenMeansNothingFailed` rests on its theorem. A status is about the newest runs:
older failures are not looked at, and if the forge does not filter by commit, runs of the commit beyond the first 100 of
all runs are not either. The page of one pull request is reached and exceeded. `job_logs` reaches its cut-offs (one page
of jobs, one failed log, up to three files, lines and bytes). Its logs name either an error or the step, since nothing
looks for both.

Things a reader may not expect, and no property says otherwise:

* The manifest of an archive is its last file and the first that `max_files` cuts off. A file with a zero byte among
  its first 4096 is left out of an answer without a word.
* Jobs beyond the one page of 100 that is asked for are in no archive and no answer about failed jobs, and the manifest
  says "complete" without them. Of more than ten failed jobs the rest are left out without a word; one failed job whose
  log is not there hides the logs of all.
* `last_lines` and `total_lines` of a long log are of what the byte limit left. `truncated` of a failed log speaks of
  bytes only, although its excerpt and `last_lines` are cut by lines too.
* A status whose runs have a conclusion the code does not name has the conclusion of the newest.
* In `PrepareRepo`, a setup that was cut short between clone and `git config` is reused without an identity until its
  first `commit_and_push`, which sets it; scripts commit without it before that.
* A restart of the gateway empties the rate limiter's windows.
* `create_pull_request` takes any open pull request whose head branch has the name asked for, one from a fork included;
  `PullRequests` has a single head branch, so that it checks nothing about heads.

The comparison with `expected_head_sha` precedes the push and is not part of it. On a branch that only advances
the push itself refuses any other head (`PushReplacesExpectedHead`); on one that is rewound in between it is
pushed to, and what remains true is `PushOverwritesNothing`.

`FileEdits` bounds requests and scripts together at two (`MaxEdits`): what an edit leaves is the start of the next,
and the start is any text up to three lines. Two hunks are enough for one to meet what the other inserted; two
operations for one to fail after the other was applied. Two things in the model surprise a reader of the code and
are no disagreement with anything it says: removing every line of a terminated file leaves one empty line
(`Join`), and an update rewrites a CRLF file with LF endings, which `write_file` does not.

`ArtifactSync`'s page of one item makes every further artifact a page boundary; three artifacts with one handler
(5.7 million states) give the same result and are not kept as a run. Three things are true of the code and no
property says otherwise: an answer may mix artifacts of two attempts when the run is rerun after `status` was
looked at; a list that changes between two pages may leave an artifact out; a `manifest.json` cut short is refused
by every later synchronisation until a client deletes it.

### Disagreements with the repository's own words

Each is a run that ends in a violation; `PROJECT.json` quotes the lines.

* `edits_dry_run`: a patch that deletes a file and then adds one below its path cannot be undone, since the file is
  written back while its path is still a directory. `AllOrNothing` holds for every other patch, also for those with
  a path and its parent in another order or in other sections.
* `commit_binary`: the work tree is inspected, the index committed.

Three more are visible in passing runs, as the exceptions their properties name: artifact synchronisation re-creates
a pruned directory beyond `WORKSPACE_MAX_COUNT` (`CountExceededOnlyByRevival`); overlapping requests with one key and
different payloads leave a row that answers the first with the response of the second (`CrossedOnlyByOverlap`, where
`audit.py:179` promises an error); and the refresh that `workspaces.py:347` advises before a push is retried drops
the commit that was to be pushed (`Prepare` in `CommitPush` moves the branch and keeps nothing).

## Theorems

Every safety property of the passing runs is a theorem, for every value of the constants that satisfies the named
assumptions of the modules. Each module's proof has one inductive invariant `IInv`, a lemma per action that keeps it,
and the theorems as consequences; an action property follows from `IInv` and one step. What is assumed beyond types
(numbers are natural numbers, null values are distinct, subsets are subsets) is said below.

**`WorkspaceStore`**, for any finite set of workspaces and any handlers, targets, limit and TTL: `TypeCorrect`,
`Exclusion`, `LocksAreGivenBack`, `RemovalIsSafe`, `LimitIsKept`, `MetaIsWrittenLast`, `TargetIsKept`.
Exclusion alone is not inductive: that a handler holds a lock says nothing about the file unless
the file is there, was not left by a crash, and is in a directory prune did not take. `IInv` therefore adds that
a stale lock belongs to nobody (`StaleIsNotHeld`), that a handler under a lock knows its workspace and a prepare
its target (`CallsOK`), and that a directory that is gone is empty (`AbsentIsEmpty`). Every action preserves it;
the long one, `PrepareEnter`, is cut at the disk prune leaves, of which `PruneFacts` says all that is needed.
The limit follows from `IInv` with facts about cardinality: only prepare's entry makes a directory that counts.
That meta.json tells the truth needs that during a clone there is still nothing, and that between the
comparison and `save_meta` nobody else writes it (`PrepareAgrees`).

`LockFilesImplementLock`: every step of `WorkspaceStore` is a step of `LockService` or a
stutter, from the same invariant. `Quiet` covers the steps that leave holders and lock files alone, `Acquires` and
`Releases` the two ends of a lock; a crash is `Die`, which needs that nobody else's lock file is among the new dead.

**`ForgeCalls`**, for any handlers, keys and payloads: `KeyBuysOnce`, `AnswerIsItsOwn`, `AnsweredStaysAnswered`. A count
of what was performed is not inductive without saying who may still perform. Of a key that no two requests used at once
(`overlapped`) `Orderly` says that at most one request uses it, that there is no row until that one answers, and that a row
answers its own request; this is what answers rest on, and survives lost answers and crashes. If no answer was lost
either (`lost`), `Frugal` adds that nothing was performed before the request in progress performs, and that what is over has
left a row. That an answered key is not repeated needs less and holds of excused keys too: a row
precedes the answer and is never removed (`AckedIsRecorded`, `SaveKeeps`).

**`CommitPush`**, for any paths, contents, policies, selections and writers: `MetaIsPublished`, `NothingIsOverwritten`,
`DiffIsAllowed`, `SelectedIsInspected`, and, assuming that nobody rewinds the branch (`~MayRewind`, without which they are
false), `ExpectedHeadIsReplaced` and `AcknowledgedStaysPublished`. Ancestry is transitive and commits are older than what
is made on top of them (`AncestryOK`). What makes a push safe is what is true from the check of `expected_head_sha` on:
what the clone and the remote have in common lies below the expected head (`CheckedOK`), so that a push that is a
fast-forward takes nothing off the branch that it did not contain. `ValidatedOK` says at each await which of index, work tree and commit
policy has seen; `RowsOK` that the row of a key is about a push that was acknowledged; `GrowsOK` what a branch that
only advances adds.

**`PrepareRepo`**, for any workspaces, handlers and number of pushes: `PreparedWorkspacesAreUsable`,
`OnlyCutSetupsLackIdentity`, `RefreshIsCurrent`, `HeadsOnlyAdvance`. `Sound` is what a clone is at any moment, at work or
killed: never behind `meta.json`, never ahead of the branch, and complete once `meta.json` is there; `Reached` is what has been
done to it when each command is awaited. The mirror appears in them only as never ahead of the branch, which is why
whatever state it is found in does no harm.

**`ArtifactSync`**, for any finite set of artifacts, page size and overlapping handlers: `ManifestTellsWhatIsThere`,
`ClaimedArtifactsAreThere`, `SteadyPagesAddUp`. A handler carries its list over many awaits, so `IInv` bounds what lists and downloads can say:
nothing is newer than what the forge has (`NoNewer`), what was downloaded is what was listed or, if the list has it
twice, its newest version (`Fetched`), a second window writes the list of its own request, and while the set of artifacts stays the same the pages are a prefix of one order (`SteadyOK`). That
order is `Sorted`, whose elements are ranks; `Ranks` proves by cardinality that they are a bijection.

**`FileEdits`** and **`TextPatch`**, for any tree of two levels, texts, patches, hunks and writes: `WorkTreeIsATree`,
`HunksInOrderFindTheirPlaces`, `RefusedLeavesNothing`, `OnlyNewDirectoriesHide`, `RetriedWriteIsSettled`. `IInv` is `TypeOK` and `UnderWay`: what a
request in progress changed is at its targets and in directories made for them, its snapshots tell the rest, and what is
gone was deleted by an operation already applied (`GoneAreDeleted`), so that no file became a directory unless the patch adds
below what it deletes (`NoFileBecameDirectory`).
Restoring is a loop over the operations; its passes are a function (`LoopExists`), and induction over them is over the
least pass at which something fails (`LeastNumber`, `Induction`), which needs no theorem with an operator parameter.
Of hunks the loop's invariant compares with any given placement: the first n hunks were placed no lower than there, so
that the next still has its place ahead of the cursor; and what was spliced so far is what splicing at those places
means. `RefusedLeavesNothing` excepts patches that delete a path and then add below it, which is where the restoration fails
(`edits_dry_run`).

**`PullRequests`** and **`CiStatus`**, for any handlers, bases, page size and cut-offs and any positive number of commits:
`ConflictsAreExcused`, `MergedAnswersAreTrue`, `MergesWhatWasExpected`, `CreatesAnswerTheirPair`,
`GreenStatusesAreTrue`. Their `IInv` says that what was merged stays
merged at its commit (`ForgeOK`), that handlers in the middle of a merge name a pull request that exists (`CallsOK`),
that between the merge and the read of its result nothing can undo it (`RereadIsMerged`), and that a create whose list
was whole and is undisturbed since has no open pull request of its pair (`CreateSawAll`). Steps are of three kinds
(`Answers`, `Goes`, `World`), each action being one of them over what it does to the forge (`ForgeKeeps`, `OpensNone`).
For the status `NewestAreShown` counts positions: a run of the commit that is near enough to the top is listed and
shown, whether the forge filtered or not.

**`JobLogs`**, **`RateLimiter`** and **`LogText`**, for any limits, callers, jobs and logs: `LimitHolds`,
`ArchivesAreWhole`, `FailedJobsAreAnswered`, `CutsAreTold` (of whole job logs only) and `SearchedIsShown`, for lines of any
length: long lines before an error may cut it off, and the answer is then marked truncated. `LimiterInv` relates the bucket to the requests admitted within a window (`Counted`): they come in the
order of their times, so that dropping from the left drops exactly the expired ones. `RequestOK` says that what is fetched and what is due
make up the page that was listed; an archive that was not cut then has all of its text (`UncutHasTexts`). Of a log the proofs follow where first and last occurrences are through each cut.

Only model-checked: `EveryRequestAnswered`, since liveness under fairness is outside the prover. The two runs that end in
a violation are not theorems either. No module is declared RECURSIVE: loops are recursive functions, whose unfolding
the proofs derive from their existence.

## Not modelled

* The forge client, routes, settings and request models hold no state between requests.
* Comments on pull requests are one request, repeated when its client repeats it. Reads of pull requests, runs, jobs,
  artifacts and files project the forge's answer.
* Caches: the forge client refuses both operations as unsupported, so that their selection, confirmation and audit
  are never reached.
* The lexing of patches, scripts, paths and patterns, and the layout of diffs and logs. The parsers of
  `git status -z` and `git diff --name-status -z` are modelled by what they deliver (`Entries`, `Differs`), without
  renames and without output cut by `max_output_bytes`.
* `prepare` ignores its `idempotency_key`: a retry without a workspace id makes another workspace, which counts
  against the limit like any other.

## Plan

1. Prove further: the type invariants of the modules whose proofs only carry parts of them (`JobLogs`,
   `PullRequests`).
2. Further abstract specifications: a once-per-key executor (`ForgeCalls` implements it away from overlap); a branch
   as an append-only log (`CommitPush` implements it without rewinds).
