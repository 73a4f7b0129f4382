----------------------------- MODULE FileEdits -----------------------------
(***************************************************************************)
(* apply_patch and write_file of app/services/workspaces.py on the work    *)
(* tree of one workspace: text_ops.py writes the files one by one, git     *)
(* tells what changed, and whatever fails, or a dry run, is undone from    *)
(* snapshots.  Scripts edit, delete and commit between the requests.       *)
(*                                                                         *)
(* The workspace lock keeps other operations out (WorkspaceStore), so only *)
(* a failure or a crash comes between two steps.  A write is a patch of    *)
(* one operation with checks of its own.  Paths have at most two segments; *)
(* nothing is ignored by git or reached through a symlink.                 *)
(***************************************************************************)
EXTENDS Naturals, Sequences, FiniteSets, TextPatch

CONSTANTS
  Path,          \* paths of files and directories
  Top,           \* the root of the work tree
  Dir,           \* the directory of each path
  Allowed,       \* paths that path policy lets through
  DeniedLine,    \* lines that make a text too large or binary for policy
  Absent,        \* content of a path that is no file
  Binary,        \* content that is no UTF-8 text
  Patches,       \* patch requests: operations, dry run, deletions allowed
  Writes,        \* write requests
  ScriptContent, \* what scripts put into files
  InitialTrees,  \* committed contents of the files
  MaxChanged,    \* max_changed_files
  MaxEdits       \* bound of the model: requests and scripts together

ASSUME TreeAssumption ==
  /\ Dir \in [Path -> Path \cup {Top}] /\ Top \notin Path
  /\ \A p \in Path : Dir[p] # Top => Dir[Dir[p]] = Top
ASSUME PolicyAssumption == Allowed \subseteq Path /\ DeniedLine \subseteq Line
Content == Text \cup {Binary, Absent}
Tree == [Path -> Content]

IsText(c) == c \notin {Binary, Absent}

(* Texts are as _split_text_lines reads them. *)
AllNormal(f) == \A p \in Path : IsText(f[p]) => Normal(f[p])

(* Scripts and commits write texts and binary files.  No committed file    *)
(* lies below another.                                                     *)
ASSUME ContentAssumption ==
  /\ Binary \notin Text /\ Absent \notin Text
  /\ \A c \in ScriptContent : c \in Content /\ (IsText(c) => Normal(c))
  /\ \A f \in InitialTrees :
       /\ f \in Tree /\ AllNormal(f)
       /\ \A p \in Path : f[p] # Absent /\ Dir[p] # Top => f[Dir[p]] = Absent

PatchOperation ==
  [kind : {"update"}, path : Path, hunks : Seq(Hunk)]
    \cup [kind : {"add"}, path : Path, lines : Seq(Line)]
    \cup [kind : {"delete"}, path : Path]

WriteOperation ==
  [kind : {"write"}, path : Path, text : {t \in Text : Normal(t)},
   eol : {"preserve", "lf", "crlf"},
   mode : {"overwrite", "create_only", "overwrite_if_sha256_matches"}, expected : Text]

ASSUME RequestAssumption ==
  /\ Patches \subseteq [ops : Seq(PatchOperation) \ {<<>>}, dry : BOOLEAN, deletes : BOOLEAN]
  /\ \A r \in Writes : /\ r.dry \in BOOLEAN /\ r.deletes \in BOOLEAN
                        /\ \E op \in {r.ops[1]} : op \in WriteOperation /\ r.ops = <<op>>

ASSUME BoundAssumption == MaxChanged \in Nat \ {0} /\ MaxEdits \in Nat

VARIABLES
  file,    \* contents of the files of the work tree
  dirs,    \* directories of the work tree
  base,    \* contents of the files git tracks
  pc,      \* "free", "apply", "check", or "stale" when the process died
  req,     \* the request that holds the lock
  step,    \* operation to apply next
  before,  \* file and dirs when the request took the lock; file is what
           \* snapshot_files keeps of the targets, the rest is history
  answer,  \* how the last request ended and what it said it changed
  edits    \* requests and scripts so far

tree == <<file, dirs>>
vars == <<file, dirs, base, pc, req, step, before, answer, edits>>

NoRequest == [ops |-> <<>>]
NoAnswer == [outcome |-> "none", changed |-> {}]

(* The directory a file needs. *)
Parents(p) == {Dir[p]} \ {Top}

Denied(c) == c = Binary \/ (IsText(c) /\ \E i \in DOMAIN c.lines : c.lines[i] \in DeniedLine)

(* Files lie in directories and are none. *)
IsTree(f, d) ==
  \A p \in Path : f[p] # Absent => p \notin d /\ Parents(p) \subseteq d

(* Work tree, tracked files and snapshots are trees of files with texts as *)
(* _split_text_lines reads them, and a request in progress has a step.     *)
TypeOK ==
  /\ \A f \in {file, base, before.file} : f \in Tree /\ AllNormal(f)
  /\ dirs \subseteq Path /\ IsTree(file, dirs)
  /\ before.dirs \subseteq Path
  /\ pc \in {"free", "apply", "check", "stale"}
  /\ req \in Patches \cup Writes \cup {NoRequest}
  /\ pc = "apply" => step \in DOMAIN req.ops
  /\ answer.outcome \in {"none", "unchanged", "applied", "dry", "refused"}
  /\ answer.changed \subseteq Path
  /\ edits \in 0 .. MaxEdits

Targets == {req.ops[i].path : i \in DOMAIN req.ops}

(* The branch is checked out and nothing was edited. *)
Init ==
  /\ base \in InitialTrees
  /\ file = base
  /\ dirs = UNION {Parents(p) : p \in {q \in Path : base[q] # Absent}}
  /\ pc = "free" /\ req = NoRequest /\ step = 0
  /\ before = [file |-> file, dirs |-> dirs]
  /\ answer = NoAnswer
  /\ edits = 0

-----------------------------------------------------------------------------
(* Taking the lock and parsing *)

Exists(p) == file[p] # Absent \/ p \in dirs

(* What the section headers of a patch ask of the tree, all before any of  *)
(* them is applied, and what a write asks of its one file.                 *)
Parses(op, r) ==
  CASE op.kind = "update" -> file[op.path] # Absent
    [] op.kind = "add"    -> ~Exists(op.path)
    [] op.kind = "delete" -> r.deletes /\ file[op.path] # Absent
    [] op.kind = "write"  ->
         /\ op.path \notin dirs /\ file[op.path] # Binary
         /\ op.mode = "create_only" => file[op.path] = Absent
         /\ op.mode = "overwrite_if_sha256_matches" => file[op.path] = op.expected

Accepted(r) ==
  /\ \A i \in DOMAIN r.ops : r.ops[i].path \in Allowed /\ Parses(r.ops[i], r)
  /\ Cardinality({r.ops[i].path : i \in DOMAIN r.ops}) <= MaxChanged

(* Fault: the endings of a CRLF file are swapped on every write. *)
WrittenSwapped(op, f) ==
  LET old == f[op.path]
  IN  NormalizeLineEndings([op.text EXCEPT !.crlf = FALSE], op.eol, IsText(old) /\ ~old.crlf)

(* What write_file makes of a file. *)
Written(op, f) ==
  LET old == f[op.path] IN NormalizeLineEndings(op.text, op.eol, IsText(old) /\ old.crlf)

Unchanged(r) == r.ops[1].kind = "write" /\ Written(r.ops[1], file) = file[r.ops[1].path]

Begin(r) ==
  /\ pc = "free" /\ edits < MaxEdits
  /\ Accepted(r)
  /\ edits' = edits + 1
  /\ before' = [file |-> file, dirs |-> dirs]
  /\ IF Unchanged(r)
       THEN /\ answer' = [outcome |-> "unchanged", changed |-> {}]
            /\ UNCHANGED <<pc, req, step>>
       ELSE pc' = "apply" /\ req' = r /\ step' = 1 /\ answer' = NoAnswer
  /\ UNCHANGED <<tree, base>>

(* Nothing is touched before the whole request was accepted. *)
Refuse ==
  /\ pc = "free"
  /\ ~ \A r \in Patches \cup Writes : Accepted(r)
  /\ answer' = [outcome |-> "refused", changed |-> {}]
  /\ UNCHANGED <<tree, base, pc, req, step, before, edits>>

-----------------------------------------------------------------------------
(* Applying the operations one by one *)

(* A parent that is a file, or the target a directory, fails the write. *)
Writable(p) == p \notin dirs /\ \A d \in Parents(p) : file[d] = Absent

Applicable(op) ==
  CASE op.kind = "update" -> IsText(file[op.path]) /\ ApplyHunks(file[op.path].lines, op.hunks).ok
    [] op.kind = "delete" -> file[op.path] # Absent
    [] OTHER              -> Writable(op.path)

Outcome(op) ==
  CASE op.kind = "update" -> Updated(file[op.path], op.hunks)
    [] op.kind = "add"    -> Join(op.lines, op.lines # <<>>)
    [] op.kind = "delete" -> Absent
    [] op.kind = "write"  -> Written(op, file)

ApplyOperation ==
  LET op == req.ops[step]
  IN  /\ pc = "apply"
      /\ Applicable(op)
      /\ file' = [file EXCEPT ![op.path] = Outcome(op)]
      /\ dirs' = IF Outcome(op) = Absent THEN dirs ELSE dirs \cup Parents(op.path)
      /\ IF step = Len(req.ops)
           THEN pc' = "check" /\ UNCHANGED step
           ELSE step' = step + 1 /\ UNCHANGED pc
      /\ UNCHANGED <<base, req, before, answer, edits>>

-----------------------------------------------------------------------------
(* Undoing from the snapshots *)

(* Fault: a file that did not exist stays. *)
RestoreOnlyOld(state, p) ==
  IF ~state.ok \/ before.file[p] = Absent THEN state
  ELSE IF p \in state.dirs THEN [state EXCEPT !.ok = FALSE]
  ELSE [state EXCEPT !.file[p] = before.file[p], !.dirs = @ \cup Parents(p)]

(* One snapshot.  A directory where the file was fails the write and ends  *)
(* the restoration; the directory of a file that did not exist goes when   *)
(* it is empty.                                                            *)
Restore(state, p) ==
  LET empty == {d \in {Dir[p]} : \A q \in Path : Dir[q] = d => q = p \/ state.file[q] = Absent}
  IN  IF ~state.ok THEN state
      ELSE IF before.file[p] = Absent
        THEN [state EXCEPT !.file[p] = Absent, !.dirs = @ \ empty]
      ELSE IF p \in state.dirs THEN [state EXCEPT !.ok = FALSE]
      ELSE [state EXCEPT !.file[p] = before.file[p], !.dirs = @ \cup Parents(p)]

(* restore_files in the order of the operations.  After an exception it    *)
(* runs twice, which is the same as once.                                  *)
Restored ==
  LET after[n \in 0 .. Len(req.ops)] ==
        IF n = 0 THEN [file |-> file, dirs |-> dirs, ok |-> TRUE]
        ELSE Restore(after[n - 1], req.ops[n].path)
  IN  after[Len(req.ops)]

(* A restoration that fails takes the answer with it. *)
Undo(outcome, changed) ==
  /\ file' = Restored.file /\ dirs' = Restored.dirs
  /\ answer' = IF Restored.ok /\ outcome = "dry"
                 THEN [outcome |-> "dry", changed |-> changed]
                 ELSE [outcome |-> "refused", changed |-> {}]
  /\ pc' = "free" /\ req' = NoRequest /\ step' = 0
  /\ UNCHANGED <<base, before, edits>>

(* A context mismatch, a missing file, a disk error or a cancellation. *)
OperationFails == pc = "apply" /\ Undo("refused", {})

-----------------------------------------------------------------------------
(* Checking what changed *)

Tracked(p) == base[p] # Absent

(* git status names a directory without tracked files, not what is in it. *)
Collapsed(d) == d \in dirs /\ \A q \in Path : Dir[q] = d => ~Tracked(q)

Entries ==
  {[path |-> p, dir |-> FALSE] : p \in {q \in Path : Tracked(q) /\ file[q] # base[q]}}
  \cup {[path |-> p, dir |-> FALSE] :
          p \in {q \in Path : ~Tracked(q) /\ file[q] # Absent /\ ~Collapsed(Dir[q])}}
  \cup {[path |-> d, dir |-> TRUE] :
          d \in {e \in Path : Collapsed(e) /\ \E q \in Path : Dir[q] = e /\ file[q] # Absent}}

(* Fault: files git does not track are no changes. *)
SelectedTracked == {e \in Entries : {e.path, Dir[e.path]} \cap Targets # {} /\ Tracked(e.path)}

(* changed_files_for_paths of the targets. *)
Selected == {e \in Entries : {e.path, Dir[e.path]} \cap Targets # {}}

(* validate_changed_paths *)
Valid ==
  /\ Cardinality(Selected) <= MaxChanged
  /\ \A e \in Selected :
       /\ e.path \in Allowed
       /\ ~e.dir => ~Denied(file[e.path]) /\ (file[e.path] = Absent => req.deletes)

Keep ==
  /\ answer' = [outcome |-> "applied", changed |-> {e.path : e \in Selected}]
  /\ pc' = "free" /\ req' = NoRequest /\ step' = 0
  /\ UNCHANGED <<tree, base, before, edits>>

Finish ==
  /\ pc = "check"
  /\ Valid
  /\ IF req.dry THEN Undo("dry", {e.path : e \in Selected}) ELSE Keep

(* Refused by validation, or a git command failed. *)
CheckFails == pc = "check" /\ Undo("refused", {})

-----------------------------------------------------------------------------
(* Around the requests *)

Outside ==
  /\ pc = "free" /\ edits < MaxEdits
  /\ edits' = edits + 1
  /\ answer' = NoAnswer
  /\ UNCHANGED <<pc, req, step, before>>

ScriptWrites(p, c) ==
  /\ Outside
  /\ Writable(p)
  /\ file' = [file EXCEPT ![p] = c]
  /\ dirs' = dirs \cup Parents(p)
  /\ UNCHANGED base

ScriptRemoves(p) ==
  /\ Outside
  /\ file[p] # Absent
  /\ file' = [file EXCEPT ![p] = Absent]
  /\ UNCHANGED <<dirs, base>>

ScriptCommits ==
  /\ Outside
  /\ base # file /\ base' = file
  /\ UNCHANGED tree

(* The lock stays; nothing is undone. *)
Crash ==
  /\ pc \in {"apply", "check"}
  /\ pc' = "stale" /\ req' = NoRequest /\ step' = 0
  /\ UNCHANGED <<tree, base, before, answer, edits>>

OperatorUnlocks ==
  /\ pc = "stale"
  /\ pc' = "free"
  /\ UNCHANGED <<tree, base, req, step, before, answer, edits>>

Next ==
  \/ \E r \in Patches \cup Writes : Begin(r)
  \/ Refuse
  \/ ApplyOperation \/ OperationFails
  \/ Finish \/ CheckFails
  \/ \E p \in Path, c \in ScriptContent : ScriptWrites(p, c)
  \/ \E p \in Path : ScriptRemoves(p)
  \/ ScriptCommits
  \/ Crash \/ OperatorUnlocks

Spec == Init /\ [][Next]_vars

-----------------------------------------------------------------------------
(* Properties *)

Ends == pc \in {"apply", "check"} /\ pc' = "free"

(* The patch deletes a path and then puts a file below it. *)
AddsBelowDeleted ==
  \E i, j \in DOMAIN req.ops :
    /\ i < j /\ req.ops[i].kind = "delete" /\ req.ops[j].kind = "add"
    /\ Dir[req.ops[j].path] = req.ops[i].path

(* A request that is refused or dry leaves every file as it found it and   *)
(* no new directory, whatever operation or check it failed at; except for  *)
(* a patch that deletes a path and then puts a file below it.              *)
AllOrNothing ==
  [][Ends /\ answer'.outcome # "applied" /\ ~AddsBelowDeleted
       => file' = before.file /\ dirs' \subseteq before.dirs]_vars

(* Whenever the hunks of an update have places in the file in their order, *)
(* the update succeeds and replaces them at such places: the cursor of     *)
(* _apply_hunks loses none and the search from the top does not interfere. *)
HunksInOrderAreSpliced ==
  pc = "apply" =>
    LET op == req.ops[step]
        lines == file[op.path].lines
        result == ApplyHunks(lines, op.hunks)
    IN  op.kind = "update" /\ IsText(file[op.path]) /\ Placements(lines, op.hunks) # {} =>
          result.ok /\ \E at \in Placements(lines, op.hunks) :
                         result.lines = Spliced(lines, op.hunks, at)

(* A target that differs from what git tracks after an applied request is  *)
(* named in the answer and its content is one policy lets through, unless  *)
(* it lies in a directory without tracked files: there git status names    *)
(* the directory only.                                                     *)
OmittedOnlyInNewDirectories ==
  [][Ends /\ answer'.outcome = "applied" =>
       \A p \in Targets :
         file[p] # base[p] /\ (p \notin answer'.changed \/ Denied(file[p]))
           => Collapsed(Dir[p])]_vars

(* The retry of an applied write that overwrites finds nothing to change:  *)
(* line endings are settled by the first write.                            *)
RetriedWriteChangesNothing ==
  [][Ends /\ answer'.outcome = "applied" /\ req.ops[1].kind = "write"
       => Written(req.ops[1], file') = file'[req.ops[1].path]]_vars

(* The tests of the dry run (tests/test_workspace_local_git.py:740) find   *)
(* the file as it was before.                                              *)
DryRunChangesNothing ==
  [][Ends /\ req.dry => file' = before.file]_vars
=============================================================================
