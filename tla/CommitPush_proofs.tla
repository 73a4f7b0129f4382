-------------------------- MODULE CommitPush_proofs --------------------------
(***************************************************************************)
(* Theorems about CommitPush: what commit_and_push leaves on the remote    *)
(* branch, in meta.json and in its answers, for any files, policies,       *)
(* selections and other writers.                                           *)
(***************************************************************************)
EXTENDS CommitPush, TLAPS

Working == pc \notin {"free", "stale"}

(* Between the check of expected_head_sha and the push. *)
Checked == pc \in {"add", "stage", "commit", "push"}

(* A commit's ancestors are itself, older commits and their ancestors. *)
AncestryOK ==
  \A c \in 1 .. made : /\ c \in anc[c]
                       /\ anc[c] \subseteq 1 .. c
                       /\ \A d \in anc[c] : anc[d] \subseteq anc[c]

(* What the remote has had it has had with its ancestors; meta.json and    *)
(* refs/remotes only know such commits.                                    *)
PublishedOK ==
  /\ {1, remote, tracking, metaHead} \subseteq published
  /\ \A c \in published : anc[c] \subseteq published
  /\ pc = "finish" /\ ~req.dry => Head \in published

(* After the check, what the clone and the remote have in common was below *)
(* the expected head; a commit is made on top of exactly that head.        *)
CheckedOK ==
  /\ Checked => req.expected \in 1 .. made
  /\ Checked => anc[remote] \cap anc[Head] \subseteq anc[req.expected]
  /\ pc \in {"add", "stage", "commit"} => Head = req.expected

(* Policy saw what is about to be committed, and what is about to be pushed. *)
ValidatedOK ==
  /\ pc \in {"stage", "commit"} => \A p \in req.paths : index[p] = work[p]
  /\ pc = "commit" => Passes(Differs(index, tree[Head]))
  /\ pc = "push" =>
       /\ Differs(tree[req.expected], tree[Head]) \subseteq Allowed
       /\ \A p \in Differs(tree[req.expected], tree[Head]) \cap req.paths :
            tree[Head][p] \notin Denied

(* The request in progress has no row yet; rows of pushes name pushes. *)
RowsOK ==
  /\ Working /\ req.key \in Key => records[req.key] = NoRecord
  /\ \A k \in Key : records[k] # NoRecord /\ ~records[k].hash.dry =>
       records[k].response \in acked

(* While nobody rewinds the branch it only grows. *)
GrowsOK ==
  /\ acked \subseteq anc[remote]
  /\ pc = "finish" /\ ~req.dry => Head \in anc[remote]
  /\ Checked => req.expected \in anc[remote]

IInv ==
  /\ TypeOK /\ AncestryOK /\ PublishedOK /\ CheckedOK /\ ValidatedOK /\ RowsOK
  /\ ~MayRewind => GrowsOK

-----------------------------------------------------------------------------
(* Types *)

LEMMA HeadIsMade == TypeOK => Head \in 1 .. made /\ Head \in Commit
BY BoundAssumption DEF TypeOK, Head, Commit

LEMMA MadeAreCommits == TypeOK => 1 \in 1 .. made /\ 1 .. made \subseteq Commit
BY BoundAssumption DEF TypeOK, Commit

(* A new commit is the youngest; those before it keep tree and ancestors. *)
LEMMA NewCommitGrows ==
  ASSUME TypeOK, AncestryOK, NEW t \in Tree, NEW parent \in 1 .. made, NewCommit(t, parent)
  PROVE  /\ made' = made + 1 /\ made' \in Commit
         /\ tree' \in [Commit -> Tree] /\ anc' \in [Commit -> SUBSET Commit]
         /\ tree'[made + 1] = t /\ anc'[made + 1] = anc[parent] \cup {made + 1}
         /\ \A c \in 1 .. made : anc'[c] = anc[c] /\ tree'[c] = tree[c]
         /\ AncestryOK'
<1>1. made' = made + 1 /\ made' \in Commit /\ made \in Nat
  BY BoundAssumption DEF TypeOK, NewCommit, Commit
<1>2. 1 .. made \subseteq Commit /\ made + 1 \in Commit /\ parent \in Commit
  BY <1>1, MadeAreCommits DEF Commit
<1>3. tree' \in [Commit -> Tree] /\ tree'[made + 1] = t
  BY <1>2 DEF TypeOK, NewCommit
<1>4. anc' \in [Commit -> SUBSET Commit] /\ anc'[made + 1] = anc[parent] \cup {made + 1}
  BY <1>2 DEF TypeOK, NewCommit
<1>5. \A c \in 1 .. made : anc'[c] = anc[c] /\ tree'[c] = tree[c]
  BY <1>1, <1>2 DEF TypeOK, NewCommit
<1>6. ASSUME NEW c \in 1 .. made'
      PROVE  c \in anc'[c] /\ anc'[c] \subseteq 1 .. c /\ \A d \in anc'[c] : anc'[d] \subseteq anc'[c]
  <2>1. CASE c \in 1 .. made
    <3>1. c \in anc[c] /\ anc[c] \subseteq 1 .. c /\ \A d \in anc[c] : anc[d] \subseteq anc[c]
      BY <2>1 DEF AncestryOK
    <3>2. \A d \in anc[c] : d \in 1 .. made
      BY <1>1, <2>1, <3>1
    <3> QED
      BY <1>5, <2>1, <3>1, <3>2
  <2>2. CASE c = made + 1
    <3>1. anc[parent] \subseteq 1 .. parent /\ \A d \in anc[parent] : anc[d] \subseteq anc[parent]
      BY DEF AncestryOK
    <3>2. \A d \in anc[parent] : d \in 1 .. made
      BY <1>1, <3>1
    <3>3. anc'[c] = anc[parent] \cup {made + 1}
      BY <1>4, <2>2
    <3>4. anc'[c] \subseteq 1 .. c
      BY <1>1, <2>2, <3>2, <3>3
    <3>5. \A d \in anc'[c] : anc'[d] \subseteq anc'[c]
      BY <1>5, <2>2, <3>1, <3>2, <3>3
    <3> QED
      BY <2>2, <3>3, <3>4, <3>5
  <2> QED
    BY <1>1, <1>6, <2>1, <2>2
<1>7. AncestryOK'
  BY <1>6 DEF AncestryOK
<1> QED
  BY <1>1, <1>3, <1>4, <1>5, <1>7

LEMMA TreesAreTrees ==
  ASSUME TypeOK, NEW c \in 1 .. made
  PROVE  /\ tree[c] \in Tree
         /\ HardReset(tree[c]) \in Tree
         /\ Cleaned(HardReset(tree[c]), tree[c]) \in Tree
         /\ CheckedOut(index, tree[c]) \in Tree
         /\ CheckedOut(work, tree[c]) \in Tree
<1>1. tree[c] \in Tree /\ index \in Tree /\ work \in Tree /\ Absent \in Content
  BY MadeAreCommits, PathAssumption DEF TypeOK
<1>2. HardReset(tree[c]) \in Tree
  BY <1>1 DEF HardReset, Tree
<1>3. Cleaned(HardReset(tree[c]), tree[c]) \in Tree
  BY <1>1, <1>2 DEF Cleaned, Tree
<1>4. CheckedOut(index, tree[c]) \in Tree /\ CheckedOut(work, tree[c]) \in Tree
  BY <1>1 DEF CheckedOut, Tree
<1> QED
  BY <1>1, <1>2, <1>3, <1>4

-----------------------------------------------------------------------------
(* A step that leaves no operation at work, or stops one.  It may make a   *)
(* commit in the clone.                                                    *)

Grown ==
  /\ made' >= made
  /\ \A c \in 1 .. made : anc'[c] = anc[c] /\ tree'[c] = tree[c]
  /\ AncestryOK'

LEMMA SameGrows == TypeOK /\ AncestryOK /\ UNCHANGED store => Grown
BY BoundAssumption DEF TypeOK, AncestryOK, store, Grown, Commit

LEMMA IdleKeeps ==
  ASSUME IInv, TypeOK', Grown, pc' \in {"free", "stale"},
         UNCHANGED <<remote, history, records>>,
         tracking' \in published, metaHead' \in published
  PROVE  IInv'
<1> USE DEF IInv, history
<1>1. published \subseteq 1 .. made /\ remote \in 1 .. made
  BY DEF TypeOK
<1>2. PublishedOK'
  BY <1>1 DEF PublishedOK, Grown
<1>3. CheckedOK' /\ ValidatedOK' /\ RowsOK'
  BY DEF CheckedOK, Checked, ValidatedOK, RowsOK, Working
<1>4. ~MayRewind => GrowsOK'
  BY <1>1 DEF GrowsOK, Checked, Grown
<1> QED
  BY <1>2, <1>3, <1>4 DEF Grown

LEMMA InitEstablishes == Init => IInv
<1> SUFFICES ASSUME Init PROVE IInv
  OBVIOUS
<1>1. PICK x \in Content \ {Absent} : tree = [c \in Commit |-> [p \in Path |-> x]]
  BY DEF Init
<1>2. 1 \in Commit /\ Commit \subseteq Nat
  BY BoundAssumption DEF Commit
<1>3. tree \in [Commit -> Tree] /\ tree[1] \in Tree
  BY <1>1, <1>2 DEF Tree
<1>4. anc \in [Commit -> SUBSET Commit] /\ anc[1] = {1}
  BY <1>2 DEF Init
<1>5. records \in RecordsOver(Request, Commit) /\ \A k \in Key : records[k] = NoRecord
  BY DEF Init, NoRecords, RecordsOver
<1>6. TypeOK
  <2>1. 1 \in 1 .. made /\ made \in Commit
    BY <1>2 DEF Init
  <2>2. {remote, tracking, tip, aside, metaHead} \subseteq 1 .. made /\ published \subseteq 1 .. made
    BY <2>1 DEF Init
  <2>3. onBranch \in BOOLEAN /\ unmerged \in BOOLEAN
    BY Zenon DEF Init
  <2>4. index \in Tree /\ work \in Tree
    BY <1>3 DEF Init
  <2>5. req \in Request \cup {NoRequest} /\ pc = "free" /\ acked \subseteq 1 .. made
    BY DEF Init
  <2> QED
    BY <1>3, <1>4, <1>5, <2>1, <2>2, <2>3, <2>4, <2>5 DEF TypeOK
<1>7. AncestryOK /\ PublishedOK
  BY <1>2, <1>4 DEF Init, AncestryOK, PublishedOK
<1>8. CheckedOK /\ ValidatedOK /\ RowsOK /\ GrowsOK
  BY <1>5 DEF Init, CheckedOK, Checked, ValidatedOK, RowsOK, Working, GrowsOK
<1> QED
  BY <1>6, <1>7, <1>8 DEF IInv

(* prepare, reset, exec_pwsh and the file operations *)
LEMMA OthersKeep ==
  ASSUME IInv,
         \/ \E refresh, clean \in BOOLEAN : Prepare(refresh, clean)
         \/ \E clean \in BOOLEAN : Reset(clean)
         \/ \E p \in Path, x \in Content : Edit(p, x)
         \/ \E p \in Path : ScriptStages(p)
         \/ ScriptCommits \/ ScriptDetaches \/ ScriptReturns \/ ScriptConflicts
  PROVE  IInv'
<1> USE DEF IInv
<1>1. remote \in published /\ tracking \in published /\ metaHead \in published
  BY DEF PublishedOK
<1>2. /\ remote \in 1 .. made /\ tracking \in 1 .. made /\ tip \in 1 .. made /\ Head \in 1 .. made
      /\ 1 \in 1 .. made /\ index \in Tree /\ work \in Tree
  BY HeadIsMade, MadeAreCommits DEF TypeOK
<1>3. ASSUME NEW refresh \in BOOLEAN, NEW clean \in BOOLEAN, Prepare(refresh, clean) PROVE IInv'
  <2> DEFINE final == IF clean THEN remote ELSE IF refresh THEN remote ELSE tracking
  <2>1. /\ tracking' = final /\ tip' = final /\ aside' = 1 /\ onBranch' = TRUE /\ metaHead' = final
        /\ index' = IF clean THEN tree[final] ELSE CheckedOut(index, tree[final])
        /\ work' = IF clean THEN tree[final] ELSE CheckedOut(work, tree[final])
        /\ pc = "free" /\ UNCHANGED <<store, remote, unmerged, pc, req, history, records>>
    BY <1>3 DEF Prepare
  <2>2. final \in published /\ final \in 1 .. made
    BY <1>1, <1>2
  <2>3. index' \in Tree /\ work' \in Tree
    BY <2>1, <2>2, TreesAreTrees
  <2>4. TypeOK'
    BY <1>2, <2>1, <2>2, <2>3 DEF TypeOK, store, history
  <2> QED
    BY <2>1, <2>2, <2>4, SameGrows, IdleKeeps
<1>4. ASSUME NEW clean \in BOOLEAN, Reset(clean) PROVE IInv'
  <2>1. index' \in Tree /\ work' \in Tree
    BY <1>2, <1>4, TreesAreTrees DEF Reset
  <2>2. TypeOK'
    BY <1>2, <1>4, <2>1 DEF TypeOK, Reset, MoveHead, store, history
  <2> QED
    BY <1>1, <1>4, <2>2, SameGrows, IdleKeeps DEF Reset
<1>5. ASSUME NEW p \in Path, NEW x \in Content, Edit(p, x) PROVE IInv'
  <2>1. TypeOK'
    BY <1>5 DEF TypeOK, Edit, Tree, store, history
  <2> QED
    BY <1>1, <1>5, <2>1, SameGrows, IdleKeeps DEF Edit
<1>6. ASSUME NEW p \in Path, ScriptStages(p) PROVE IInv'
  <2>1. TypeOK'
    BY <1>6 DEF TypeOK, ScriptStages, Tree, store, history
  <2> QED
    BY <1>1, <1>6, <2>1, SameGrows, IdleKeeps DEF ScriptStages
<1>7. CASE ScriptCommits
  <2>1. /\ made' = made + 1 /\ made' \in Commit
        /\ tree' \in [Commit -> Tree] /\ anc' \in [Commit -> SUBSET Commit]
        /\ \A c \in 1 .. made : anc'[c] = anc[c] /\ tree'[c] = tree[c]
        /\ AncestryOK'
    BY <1>2, <1>7, NewCommitGrows DEF ScriptCommits
  <2>2. made \in Nat /\ made' >= made
    BY <2>1, BoundAssumption DEF TypeOK, Commit
  <2>3. 1 .. made \subseteq 1 .. made' /\ made + 1 \in 1 .. made'
    BY <2>1, <2>2
  <2>4. {remote, tracking, tip, aside, metaHead}' \subseteq 1 .. made'
    BY <1>7, <2>3 DEF TypeOK, ScriptCommits, MoveHead
  <2>5. published' \subseteq 1 .. made' /\ acked' \subseteq 1 .. made'
    BY <1>7, <2>3 DEF TypeOK, ScriptCommits, history
  <2>6. onBranch' \in BOOLEAN /\ unmerged' \in BOOLEAN
    BY <1>7, Zenon DEF TypeOK, ScriptCommits, MoveHead
  <2>7. TypeOK'
    BY <1>7, <2>1, <2>4, <2>5, <2>6 DEF TypeOK, ScriptCommits
  <2> QED
    BY <1>1, <1>7, <2>1, <2>2, <2>7, IdleKeeps DEF ScriptCommits, Grown
<1>8. CASE ScriptDetaches
  <2>1. TypeOK'
    BY <1>2, <1>8 DEF TypeOK, ScriptDetaches, store, history
  <2> QED
    BY <1>1, <1>8, <2>1, SameGrows, IdleKeeps DEF ScriptDetaches
<1>9. CASE ScriptReturns
  <2>1. index' \in Tree /\ work' \in Tree
    BY <1>2, <1>9, TreesAreTrees DEF ScriptReturns
  <2>2. TypeOK'
    BY <1>2, <1>9, <2>1 DEF TypeOK, ScriptReturns, store, history
  <2> QED
    BY <1>1, <1>9, <2>2, SameGrows, IdleKeeps DEF ScriptReturns
<1>10. CASE ScriptConflicts
  <2>1. TypeOK'
    BY <1>10 DEF TypeOK, ScriptConflicts, store, history
  <2> QED
    BY <1>1, <1>10, <2>1, SameGrows, IdleKeeps DEF ScriptConflicts
<1> QED
  BY <1>3, <1>4, <1>5, <1>6, <1>7, <1>8, <1>9, <1>10

-----------------------------------------------------------------------------
(* commit_and_push *)

LEMMA BeginKeeps ==
  ASSUME IInv, NEW r \in Requests, Begin(r)
  PROVE  IInv'
<1> USE DEF IInv
<1>1. r \in Request
  BY DEF Requests
<1>2. UNCHANGED <<made, tree, anc, remote, tracking, tip, aside, onBranch, index, work, unmerged,
                  metaHead, published, acked, records>> /\ pc' = "fetch" /\ req' = r
  BY DEF Begin, store, local, history
<1>3. Head' = Head
  BY <1>2 DEF Head
<1>4. TypeOK' /\ AncestryOK' /\ PublishedOK'
  BY <1>1, <1>2, <1>3 DEF TypeOK, AncestryOK, PublishedOK
<1>5. CheckedOK' /\ ValidatedOK'
  BY <1>2 DEF CheckedOK, Checked, ValidatedOK
<1>6. RowsOK'
  BY <1>2 DEF RowsOK, Begin, Miss
<1>7. GrowsOK => GrowsOK'
  BY <1>2, <1>3 DEF GrowsOK, Checked
<1> QED
  BY <1>4, <1>5, <1>6, <1>7

LEMMA FetchKeeps ==
  ASSUME IInv, Fetch
  PROVE  IInv'
<1> USE DEF IInv
<1>1. /\ pc = "fetch" /\ req \in Request /\ tracking' = remote
      /\ UNCHANGED <<made, tree, anc, remote, tip, aside, onBranch, index, work, unmerged,
                     metaHead, published, acked, records>>
  BY DEF Fetch, store, history, TypeOK
<1>2. Head' = Head /\ remote \in 1 .. made /\ remote \in published
  BY <1>1 DEF Head, TypeOK, PublishedOK
<1>3. CASE Refused /\ Release
  <2>1. TypeOK'
    BY <1>1, <1>2, <1>3 DEF TypeOK, Release
  <2>2. metaHead' \in published /\ tracking' \in published
    BY <1>1, <1>2 DEF PublishedOK
  <2>3. Grown
    BY <1>1, SameGrows DEF store
  <2> QED
    BY <1>1, <1>3, <2>1, <2>2, <2>3, IdleKeeps DEF Release, history
<1>4. CASE ~Refused /\ pc' \in {"add", "push", "finish"} /\ req' = req
           /\ (pc' = "add" => Changed # {})
           /\ (pc' # "add" => Changed = {})
           /\ (pc' = "finish" => req.dry)
  <2>1. remote = req.expected /\ (Changed # {} => Head = remote) /\ ~ChangesRefused
    BY <1>4 DEF Refused, HeadChanged, Ahead
  <2>2. TypeOK' /\ AncestryOK' /\ PublishedOK'
    BY <1>1, <1>2, <1>4 DEF TypeOK, AncestryOK, PublishedOK
  <2>3. CheckedOK'
    BY <1>1, <1>2, <1>4, <2>1 DEF CheckedOK, Checked
  <2>4. ValidatedOK'
    <3>1. CASE pc' = "push"
      <4>1. Changed = {} /\ Passes(Differs(tree[req.expected], tree[Head]))
        BY <1>4, <2>1, <3>1 DEF ChangesRefused
      <4>2. \A q \in Path : work[q] = index[q] /\ index[q] = tree[Head][q]
        BY <4>1 DEF Changed, Differs
      <4>3. Differs(tree[req.expected], tree[Head]) \subseteq Path
        BY DEF Differs
      <4> QED
        BY <1>1, <1>2, <1>4, <3>1, <4>1, <4>2, <4>3 DEF ValidatedOK, Passes, Differs
    <3> QED
      BY <1>4, <3>1 DEF ValidatedOK
  <2>5. RowsOK'
    BY <1>1, <1>4 DEF RowsOK, Working
  <2>6. GrowsOK => GrowsOK'
    BY <1>1, <1>2, <1>4, <2>1 DEF GrowsOK, Checked, AncestryOK
  <2> QED
    BY <2>2, <2>3, <2>4, <2>5, <2>6
<1> QED
  BY <1>3, <1>4 DEF Fetch, Goto

LEMMA AddKeeps ==
  ASSUME IInv, Add
  PROVE  IInv'
<1> USE DEF IInv
<1>1. /\ pc = "add" /\ req \in Request
      /\ UNCHANGED <<made, tree, anc, remote, tracking, tip, aside, onBranch, work, unmerged,
                     metaHead, published, acked, records>>
  BY DEF Add, store, history, TypeOK
<1>2. Head' = Head
  BY <1>1 DEF Head
<1>3. CASE Release /\ UNCHANGED index
  <2>1. TypeOK'
    BY <1>1, <1>3 DEF TypeOK, Release
  <2>2. metaHead' \in published /\ tracking' \in published
    BY <1>1 DEF PublishedOK
  <2>3. Grown
    BY <1>1, SameGrows DEF store
  <2> QED
    BY <1>1, <1>3, <2>1, <2>2, <2>3, IdleKeeps DEF Release, history
<1>4. CASE index' = [p \in Path |-> IF p \in req.paths THEN work[p] ELSE index[p]] /\ Goto("stage")
  <2>1. pc' = "stage" /\ req' = req
    BY <1>4 DEF Goto
  <2>2. index' \in Tree
    BY <1>4 DEF TypeOK, Tree
  <2>3. TypeOK' /\ AncestryOK' /\ PublishedOK'
    BY <1>1, <1>2, <2>1, <2>2 DEF TypeOK, AncestryOK, PublishedOK
  <2>4. CheckedOK'
    BY <1>1, <1>2, <2>1 DEF CheckedOK, Checked
  <2>5. req.paths \subseteq Path
    BY <1>1, PathAssumption DEF Request
  <2>6. ValidatedOK'
    BY <1>1, <1>4, <2>1, <2>5 DEF ValidatedOK
  <2>7. RowsOK'
    BY <1>1, <2>1 DEF RowsOK, Working
  <2>8. GrowsOK => GrowsOK'
    BY <1>1, <1>2, <2>1 DEF GrowsOK, Checked
  <2> QED
    BY <2>3, <2>4, <2>6, <2>7, <2>8
<1> QED
  BY <1>3, <1>4 DEF Add

LEMMA StageKeeps ==
  ASSUME IInv, Stage
  PROVE  IInv'
<1> USE DEF IInv
<1> DEFINE staged == Differs(index, tree[Head])
<1>1. /\ pc = "stage" /\ req \in Request
      /\ UNCHANGED <<made, tree, anc, remote, tracking, tip, aside, onBranch, work, unmerged,
                     metaHead, published, acked, records>>
  BY DEF Stage, store, history, TypeOK
<1>2. Head' = Head /\ tree[Head] \in Tree
  BY <1>1, HeadIsMade DEF Head, TypeOK
<1>3. index' \in {index, tree[Head]}
  BY DEF Stage
<1>4. CASE Release
  <2>1. TypeOK'
    BY <1>1, <1>2, <1>3, <1>4 DEF TypeOK, Release
  <2>2. metaHead' \in published /\ tracking' \in published
    BY <1>1 DEF PublishedOK
  <2>3. Grown
    BY <1>1, SameGrows DEF store
  <2> QED
    BY <1>1, <1>4, <2>1, <2>2, <2>3, IdleKeeps DEF Release, history
<1>5. CASE /\ pc' \in {"finish", "commit"} /\ req' = req
           /\ pc' = "finish" => req.dry
           /\ pc' = "commit" => index' = index /\ Passes(staged)
  <2>1. TypeOK' /\ AncestryOK' /\ PublishedOK'
    BY <1>1, <1>2, <1>3, <1>5 DEF TypeOK, AncestryOK, PublishedOK
  <2>2. CheckedOK'
    BY <1>1, <1>2, <1>5 DEF CheckedOK, Checked
  <2>3. ValidatedOK'
    BY <1>1, <1>2, <1>5 DEF ValidatedOK, Passes, Differs
  <2>4. RowsOK'
    BY <1>1, <1>5 DEF RowsOK, Working
  <2>5. GrowsOK => GrowsOK'
    BY <1>1, <1>2, <1>5 DEF GrowsOK, Checked
  <2> QED
    BY <2>1, <2>2, <2>3, <2>4, <2>5
<1> QED
  BY <1>4, <1>5 DEF Stage, Goto

LEMMA GitCommitKeeps ==
  ASSUME IInv, GitCommit
  PROVE  IInv'
<1> USE DEF IInv
<1>1. /\ pc = "commit" /\ pc' = "push" /\ req' = req /\ req \in Request
      /\ UNCHANGED <<remote, tracking, index, work, unmerged, metaHead, published, acked, records>>
  BY DEF GitCommit, Goto, history, TypeOK
<1>2. Head \in 1 .. made /\ remote \in 1 .. made /\ index \in Tree
  BY HeadIsMade DEF TypeOK
<1>3. /\ made' = made + 1 /\ made' \in Commit
      /\ tree' \in [Commit -> Tree] /\ anc' \in [Commit -> SUBSET Commit]
      /\ tree'[made + 1] = index /\ anc'[made + 1] = anc[Head] \cup {made + 1}
      /\ \A c \in 1 .. made : anc'[c] = anc[c] /\ tree'[c] = tree[c]
      /\ AncestryOK'
  BY <1>2, NewCommitGrows DEF GitCommit
<1>4. Head' = made + 1
  BY DEF GitCommit, MoveHead, Head
<1>5. /\ made \in Nat /\ 1 .. made \subseteq 1 .. made' /\ made + 1 \in 1 .. made'
      /\ made + 1 \notin 1 .. made
  BY <1>3, BoundAssumption DEF TypeOK, Commit
<1>6. TypeOK'
  <2>1. {remote, tracking, tip, aside, metaHead}' \subseteq 1 .. made'
    BY <1>1, <1>5 DEF TypeOK, GitCommit, MoveHead
  <2>2. published' \subseteq 1 .. made' /\ acked' \subseteq 1 .. made'
    BY <1>1, <1>5 DEF TypeOK
  <2>3. onBranch' \in BOOLEAN /\ unmerged' \in BOOLEAN
    BY <1>1, Zenon DEF TypeOK, GitCommit, MoveHead
  <2> QED
    BY <1>1, <1>3, <2>1, <2>2, <2>3 DEF TypeOK
<1>7. PublishedOK'
  BY <1>1, <1>3 DEF PublishedOK, TypeOK
<1>8. req.expected = Head /\ anc[remote] \subseteq 1 .. made
  <2>1. req.expected = Head
    BY <1>1 DEF CheckedOK
  <2>2. anc[remote] \subseteq 1 .. remote
    BY <1>2 DEF AncestryOK
  <2> QED
    BY <1>2, <1>5, <2>1, <2>2
<1>9. CheckedOK'
  BY <1>1, <1>2, <1>3, <1>4, <1>5, <1>8 DEF CheckedOK
<1>10. ValidatedOK'
  <2>1. Passes(Differs(index, tree[Head])) /\ \A p \in req.paths : index[p] = work[p]
    BY <1>1 DEF ValidatedOK
  <2>2. tree'[req.expected] = tree[Head] /\ tree'[Head'] = index
    BY <1>2, <1>3, <1>4, <1>8
  <2>3. Differs(tree'[req.expected], tree'[Head']) = Differs(index, tree[Head])
    BY <2>2 DEF Differs
  <2> QED
    BY <1>1, <2>1, <2>2, <2>3 DEF ValidatedOK, Passes, Differs
<1>11. RowsOK'
  BY <1>1 DEF RowsOK, Working
<1>12. GrowsOK => GrowsOK'
  BY <1>1, <1>2, <1>3, <1>8 DEF GrowsOK, Checked
<1> QED
  BY <1>3, <1>6, <1>7, <1>9, <1>10, <1>11, <1>12

LEMMA PushKeeps ==
  ASSUME IInv, NEW ok \in BOOLEAN, Push(ok)
  PROVE  IInv'
<1> USE DEF IInv
<1>1. /\ pc = "push" /\ req \in Request
      /\ remote' = Head /\ remote \in anc[Head] /\ published' = published \cup anc[Head]
      /\ tracking' \in {tracking, Head}
      /\ \/ pc' = "finish" /\ req' = req
         \/ pc' = "free" /\ req' = NoRequest
      /\ UNCHANGED <<made, tree, anc, tip, aside, onBranch, index, work, unmerged, metaHead,
                     acked, records>>
  BY DEF Push, store, Goto, Release, TypeOK
<1>2. Head' = Head /\ Head \in 1 .. made /\ made \in Nat
  BY <1>1, HeadIsMade, BoundAssumption DEF Head, TypeOK, Commit
<1>3. /\ Head \in anc[Head] /\ anc[Head] \subseteq 1 .. Head
      /\ \A d \in anc[Head] : anc[d] \subseteq anc[Head]
  BY <1>2 DEF AncestryOK
<1>4. published' \subseteq 1 .. made
  <2>1. 1 .. Head \subseteq 1 .. made
    BY <1>2
  <2>2. published \subseteq 1 .. made
    BY DEF TypeOK
  <2> QED
    BY <1>1, <1>3, <2>1, <2>2
<1>5. TypeOK' /\ AncestryOK'
  BY <1>1, <1>2, <1>4 DEF TypeOK, AncestryOK
<1>6. PublishedOK'
  BY <1>1, <1>2, <1>3 DEF PublishedOK
<1>7. CheckedOK' /\ ValidatedOK' /\ RowsOK'
  BY <1>1 DEF CheckedOK, Checked, ValidatedOK, RowsOK, Working
<1>8. GrowsOK => GrowsOK'
  BY <1>1, <1>2, <1>3 DEF GrowsOK, Checked
<1> QED
  BY <1>5, <1>6, <1>7, <1>8

LEMMA GitFailsKeeps ==
  ASSUME IInv, GitFails
  PROVE  IInv'
<1> USE DEF IInv
<1>1. TypeOK'
  BY DEF TypeOK, GitFails, Release, store, local, history
<1>2. Grown
  BY SameGrows DEF GitFails
<1> QED
  BY <1>1, <1>2, IdleKeeps DEF GitFails, Release, local, PublishedOK

LEMMA FinishKeeps ==
  ASSUME IInv, Finish
  PROVE  IInv'
<1> USE DEF IInv
<1>1. /\ pc = "finish" /\ pc' = "free" /\ req' = NoRequest /\ req \in Request
      /\ metaHead' = IF req.dry THEN metaHead ELSE Head
      /\ acked' = IF req.dry THEN acked ELSE acked \cup {Head}
      /\ UNCHANGED <<made, tree, anc, remote, tracking, tip, aside, onBranch, index, work,
                     unmerged, published>>
  BY DEF Finish, Release, store, local, TypeOK
<1>2. Head' = Head /\ Head \in 1 .. made /\ Head \in Commit
  BY <1>1, HeadIsMade DEF Head
<1> DEFINE row == [hash |-> req, response |-> Head]
<1>3. records' = IF req.key \in Key THEN [records EXCEPT ![req.key] = row] ELSE records
  <2>1. req.key \in Key => records[req.key] = NoRecord
    BY <1>1 DEF RowsOK, Working
  <2> QED
    BY <2>1, Zenon DEF Finish, SaveIdempotentResponse
<1>4. row \in [hash : Request, response : Commit] /\ row.hash = req /\ row.response = Head
  BY <1>1, <1>2
<1> HIDE DEF row
<1>5. records' \in RecordsOver(Request, Commit)
  BY <1>3, <1>4 DEF TypeOK, RecordsOver
<1>6. TypeOK'
  BY <1>1, <1>2, <1>5 DEF TypeOK
<1>7. AncestryOK' /\ PublishedOK'
  BY <1>1 DEF AncestryOK, PublishedOK
<1>8. CheckedOK' /\ ValidatedOK'
  BY <1>1 DEF CheckedOK, Checked, ValidatedOK
<1>9. RowsOK'
  <2>1. ASSUME NEW k \in Key, records'[k] # NoRecord, ~records'[k].hash.dry
        PROVE  records'[k].response \in acked'
    <3>1. CASE k = req.key
      BY <1>1, <1>3, <1>4, <2>1, <3>1 DEF TypeOK, RecordsOver
    <3>2. CASE k # req.key
      <4>1. records'[k] = records[k]
        BY <1>3, <3>2 DEF TypeOK, RecordsOver
      <4> QED
        BY <1>1, <2>1, <4>1 DEF RowsOK
    <3> QED
      BY <3>1, <3>2
  <2> QED
    BY <1>1, <2>1 DEF RowsOK, Working
<1>10. GrowsOK => GrowsOK'
  BY <1>1, <1>2 DEF GrowsOK, Checked
<1> QED
  BY <1>6, <1>7, <1>8, <1>9, <1>10

-----------------------------------------------------------------------------
(* The environment *)

LEMMA OtherPushKeeps ==
  ASSUME IInv, NEW p \in Path, NEW x \in Content, OtherPush(p, x)
  PROVE  IInv'
<1> USE DEF IInv
<1> DEFINE t == [tree[remote] EXCEPT ![p] = x]
<1>1. /\ remote' = made + 1 /\ published' = published \cup {made + 1}
      /\ UNCHANGED <<tracking, tip, aside, onBranch, index, work, unmerged, metaHead, pc, req,
                     acked, records>>
  BY DEF OtherPush, local
<1>2. Head' = Head /\ Head \in 1 .. made /\ remote \in 1 .. made
  BY <1>1, HeadIsMade DEF Head, TypeOK
<1>3. t \in Tree
  BY <1>2, TreesAreTrees DEF Tree
<1>4. /\ made' = made + 1 /\ made' \in Commit
      /\ tree' \in [Commit -> Tree] /\ anc' \in [Commit -> SUBSET Commit]
      /\ anc'[made + 1] = anc[remote] \cup {made + 1}
      /\ \A c \in 1 .. made : anc'[c] = anc[c] /\ tree'[c] = tree[c]
      /\ AncestryOK'
  BY <1>2, <1>3, NewCommitGrows DEF OtherPush
<1>5. /\ made \in Nat /\ 1 .. made \subseteq 1 .. made' /\ made + 1 \in 1 .. made'
      /\ made + 1 \notin 1 .. made
  BY <1>4, BoundAssumption DEF TypeOK, Commit
<1>6. TypeOK'
  <2>1. {remote, tracking, tip, aside, metaHead}' \subseteq 1 .. made'
    BY <1>1, <1>5 DEF TypeOK
  <2>2. published' \subseteq 1 .. made' /\ acked' \subseteq 1 .. made'
    BY <1>1, <1>5 DEF TypeOK
  <2> QED
    BY <1>1, <1>4, <2>1, <2>2 DEF TypeOK
<1>7. PublishedOK'
  <2>1. published \subseteq 1 .. made /\ remote \in published
    BY DEF TypeOK, PublishedOK
  <2> QED
    BY <1>1, <1>2, <1>4, <2>1 DEF PublishedOK
<1>8. CheckedOK'
  <2>1. anc[Head] \subseteq 1 .. Head
    BY <1>2 DEF AncestryOK
  <2>2. made + 1 \notin anc[Head]
    BY <1>2, <1>5, <2>1
  <2> QED
    BY <1>1, <1>2, <1>4, <1>5, <2>2 DEF CheckedOK, Checked
<1>9. ValidatedOK'
  <2>1. pc = "push" => req.expected \in 1 .. made
    BY DEF CheckedOK, Checked
  <2> QED
    BY <1>1, <1>2, <1>4, <2>1 DEF ValidatedOK, Passes
<1>10. RowsOK'
  BY <1>1 DEF RowsOK, Working
<1>11. GrowsOK => GrowsOK'
  BY <1>1, <1>2, <1>4 DEF GrowsOK, Checked
<1> QED
  BY <1>4, <1>6, <1>7, <1>8, <1>9, <1>10, <1>11

LEMMA RewindKeeps ==
  ASSUME IInv, NEW c \in 1 .. made, Rewind(c)
  PROVE  IInv'
<1> USE DEF IInv
<1>1. /\ MayRewind /\ c \in anc[remote] /\ remote' = c
      /\ UNCHANGED <<made, tree, anc, tracking, tip, aside, onBranch, index, work, unmerged,
                     metaHead, pc, req, published, acked, records>>
  BY DEF Rewind, store, local, history
<1>2. Head' = Head /\ anc[c] \subseteq anc[remote]
  BY <1>1 DEF Head, AncestryOK, TypeOK
<1>3. TypeOK' /\ AncestryOK'
  BY <1>1 DEF TypeOK, AncestryOK
<1>4. PublishedOK' /\ CheckedOK'
  BY <1>1, <1>2 DEF PublishedOK, CheckedOK, Checked
<1>5. ValidatedOK' /\ RowsOK'
  BY <1>1, <1>2 DEF ValidatedOK, Passes, RowsOK, Working
<1> QED
  BY <1>1, <1>3, <1>4, <1>5

LEMMA CrashKeeps ==
  ASSUME IInv, Crash
  PROVE  IInv'
<1> USE DEF IInv
<1>1. metaHead' \in published /\ pc' = "stale" /\ req' = NoRequest
  BY DEF Crash, PublishedOK
<1>2. metaHead' \in 1 .. made
  BY <1>1 DEF TypeOK
<1>3. TypeOK'
  BY <1>1, <1>2 DEF TypeOK, Crash, store, local, history
<1>4. Grown
  BY SameGrows DEF Crash
<1> QED
  BY <1>1, <1>3, <1>4, IdleKeeps DEF Crash, local, PublishedOK

LEMMA NextKeeps == IInv /\ [Next]_vars => IInv'
<1> SUFFICES ASSUME IInv, [Next]_vars PROVE IInv'
  OBVIOUS
<1>1. ASSUME NEW r \in Requests, Begin(r) PROVE IInv'
  BY <1>1, BeginKeeps
<1>2. CASE Fetch \/ Add \/ Stage \/ GitCommit \/ GitFails \/ Finish
  BY <1>2, FetchKeeps, AddKeeps, StageKeeps, GitCommitKeeps, GitFailsKeeps, FinishKeeps
<1>3. ASSUME NEW ok \in BOOLEAN, Push(ok) PROVE IInv'
  BY <1>3, PushKeeps
<1>4. ASSUME NEW p \in Path, NEW x \in Content, OtherPush(p, x) PROVE IInv'
  BY <1>4, OtherPushKeeps
<1>5. ASSUME NEW c \in 1 .. made, Rewind(c) PROVE IInv'
  BY <1>5, RewindKeeps
<1>6. CASE Crash
  BY <1>6, CrashKeeps
<1>7. CASE OperatorUnlocks
  <2>1. TypeOK'
    BY <1>7 DEF IInv, TypeOK, OperatorUnlocks, store, local, history
  <2>2. Grown
    BY <1>7, SameGrows DEF IInv, OperatorUnlocks
  <2> QED
    BY <1>7, <2>1, <2>2, IdleKeeps DEF IInv, OperatorUnlocks, local, PublishedOK
<1>8. CASE UNCHANGED vars
  <2>1. UNCHANGED <<made, tree, anc, remote, tracking, tip, aside, onBranch, index, work, unmerged,
                    metaHead, pc, req, published, acked, records>>
    BY <1>8 DEF vars, store, local, history
  <2>2. Head' = Head
    BY <2>1 DEF Head
  <2> QED
    BY <2>1, <2>2 DEF IInv, TypeOK, AncestryOK, PublishedOK, CheckedOK, Checked, ValidatedOK,
                      Passes, RowsOK, Working, GrowsOK
<1> QED
  BY <1>1, <1>2, <1>3, <1>4, <1>5, <1>6, <1>7, <1>8, OthersKeep DEF Next

LEMMA Inductive == Spec => []IInv
BY InitEstablishes, NextKeeps, PTL DEF Spec

-----------------------------------------------------------------------------
(* Theorems *)

(* The only step of the gateway that moves the branch. *)
LEMMA GatewayPushIsPush ==
  ASSUME TypeOK, Next, GatewayPush
  PROVE  pc = "push" /\ remote' = Head /\ remote \in anc[Head] /\ UNCHANGED store
<1>1. ASSUME NEW ok \in BOOLEAN, Push(ok)
      PROVE  pc = "push" /\ remote' = Head /\ remote \in anc[Head] /\ UNCHANGED store
  BY <1>1 DEF Push
<1>2. \A r \in Requests : ~Begin(r)
  BY DEF GatewayPush, Begin
<1>3. ~Fetch /\ ~Add /\ ~Stage /\ ~GitCommit /\ ~GitFails /\ ~Finish /\ ~Crash /\ ~OperatorUnlocks
  BY DEF GatewayPush, Fetch, Add, Stage, GitCommit, GitFails, Finish, Crash, OperatorUnlocks
<1>4. /\ \A refresh, clean \in BOOLEAN : ~Prepare(refresh, clean)
      /\ \A clean \in BOOLEAN : ~Reset(clean)
  BY DEF GatewayPush, Prepare, Reset
<1>5. /\ \A p \in Path, x \in Content : ~Edit(p, x)
      /\ \A p \in Path : ~ScriptStages(p)
      /\ ~ScriptCommits /\ ~ScriptDetaches /\ ~ScriptReturns /\ ~ScriptConflicts
  BY DEF GatewayPush, Edit, ScriptStages, ScriptCommits, ScriptDetaches, ScriptReturns,
         ScriptConflicts
<1>6. \A p \in Path, x \in Content : ~OtherPush(p, x)
  BY DEF GatewayPush, OtherPush
<1>7. \A c \in 1 .. made : ~Rewind(c)
  BY DEF GatewayPush, Rewind
<1> QED
  BY <1>1, <1>2, <1>3, <1>4, <1>5, <1>6, <1>7 DEF Next

(* meta.json never names a commit the remote has not had: not after a      *)
(* failed push, a script's commit or a crash.                              *)
THEOREM MetaIsPublished == Spec => []MetaHeadWasPublished
<1>1. IInv => MetaHeadWasPublished
  BY DEF IInv, PublishedOK, MetaHeadWasPublished
<1> QED
  BY <1>1, Inductive, PTL

(* The push of commit_and_push never takes a commit off the branch that    *)
(* the expected head did not contain, although others push and rewind the  *)
(* branch between the fetch and the push.                                  *)
THEOREM NothingIsOverwritten == Spec => PushOverwritesNothing
<1>1. IInv /\ [Next]_vars => [GatewayPush => remote \in anc[req.expected]]_vars
  <2> SUFFICES ASSUME IInv, Next, GatewayPush PROVE remote \in anc[req.expected]
    OBVIOUS
  <2>1. pc = "push" /\ remote \in anc[Head]
    BY GatewayPushIsPush DEF IInv
  <2>2. remote \in anc[remote]
    BY DEF IInv, TypeOK, AncestryOK
  <2> QED
    BY <2>1, <2>2 DEF IInv, CheckedOK, Checked
<1> QED
  BY <1>1, Inductive, PTL DEF Spec, PushOverwritesNothing

(* The difference a push makes to the expected head touches only paths     *)
(* that policy allows: what the index held, what an earlier attempt or a   *)
(* script left committed, and whatever others pushed meanwhile.            *)
THEOREM DiffIsAllowed == Spec => PublishedDiffIsAllowed
<1>1. IInv /\ [Next]_vars
        => [GatewayPush => Differs(tree[req.expected], tree[remote']) \subseteq Allowed]_vars
  <2> SUFFICES ASSUME IInv, Next, GatewayPush
               PROVE  Differs(tree[req.expected], tree[remote']) \subseteq Allowed
    OBVIOUS
  <2> QED
    BY GatewayPushIsPush DEF IInv, ValidatedOK
<1> QED
  BY <1>1, Inductive, PTL DEF Spec, PublishedDiffIsAllowed

(* A selected path is published only with content policy inspected: the    *)
(* index was filled from the inspected work tree under the lock.           *)
THEOREM SelectedIsInspected == Spec => SelectedContentIsAllowed
<1>1. IInv /\ [Next]_vars
        => [GatewayPush => \A p \in Differs(tree[req.expected], tree[remote']) \cap req.paths :
              tree[remote'][p] \notin Denied]_vars
  <2> SUFFICES ASSUME IInv, Next, GatewayPush,
                      NEW p \in Differs(tree[req.expected], tree[remote']) \cap req.paths
               PROVE  tree[remote'][p] \notin Denied
    OBVIOUS
  <2> QED
    BY GatewayPushIsPush DEF IInv, ValidatedOK
<1> QED
  BY <1>1, Inductive, PTL DEF Spec, SelectedContentIsAllowed

(* When nobody rewinds the branch, a push replaces exactly the head the    *)
(* request expected: a push that raced in between is rejected as no        *)
(* fast-forward.                                                           *)
THEOREM ExpectedHeadIsReplaced ==
  ASSUME ~MayRewind
  PROVE  Spec => PushReplacesExpectedHead
<1>1. IInv /\ [Next]_vars => [GatewayPush => remote = req.expected]_vars
  <2> SUFFICES ASSUME IInv, Next, GatewayPush PROVE remote = req.expected
    OBVIOUS
  <2>1. pc = "push" /\ remote \in anc[Head]
    BY GatewayPushIsPush DEF IInv
  <2>2. /\ remote \in 1 .. made /\ remote \in anc[remote] /\ anc[remote] \subseteq 1 .. remote
        /\ req.expected \in 1 .. made /\ anc[req.expected] \subseteq 1 .. req.expected
    BY <2>1 DEF IInv, TypeOK, AncestryOK, CheckedOK, Checked
  <2>3. remote \in anc[req.expected] /\ req.expected \in anc[remote]
    BY <2>1, <2>2 DEF IInv, CheckedOK, Checked, GrowsOK
  <2>4. remote \in 1 .. req.expected /\ req.expected \in 1 .. remote
    BY <2>2, <2>3
  <2> QED
    BY <2>4
<1> QED
  BY <1>1, Inductive, PTL DEF Spec, PushReplacesExpectedHead

(* When nobody rewinds the branch, a commit answered as pushed stays on    *)
(* it, and the commit a replayed answer names was pushed.                  *)
THEOREM AcknowledgedStaysPublished ==
  ASSUME ~MayRewind
  PROVE  Spec => []AcknowledgedIsPublished
<1>1. IInv => AcknowledgedIsPublished
  BY DEF IInv, GrowsOK, RowsOK, AcknowledgedIsPublished
<1> QED
  BY <1>1, Inductive, PTL
=============================================================================
