------------------------- MODULE PrepareRepo_proofs -------------------------
(***************************************************************************)
(* Theorems about PrepareRepo: what a workspace with a meta.json is, for   *)
(* any workspaces, handlers and pushes, however many prepares were cut     *)
(* short before.                                                           *)
(***************************************************************************)
EXTENDS PrepareRepo, TLAPS

(* A handler alone uses its workspace. *)
Exclusive == \A g, h \in Handler : pc[g] # "idle" /\ pc[h] # "idle" /\ ws[g] = ws[h] => g = h

(* What repo/ r of a workspace with head_sha m is, locked or not.  Nothing *)
(* makes a clone's origin the mirror again or goes back behind meta.json.  *)
Sound(r, m, wasCut) ==
  /\ r.head <= r.tracking /\ r.tracking <= tip /\ m <= r.head
  /\ m > 0 => /\ r.state = "git" /\ r.origin = "forge" /\ r.venv = "runs"
              /\ r.named \/ wasCut

WorkspaceOK(w) ==
  /\ Sound(repo[w], meta[w], w \in cut)
  /\ w \notin locks /\ repo[w].state = "git" /\ ~repo[w].named => w \in cut

(* What has been done to repo/ r when command p is awaited. *)
Reached(p, r, options, received, wasCut) ==
  /\ p = "clone" => r.state = "none"
  /\ p \in {"identity", "fetch", "checkout", "reset", "venv", "validate"} =>
       r.state = "git" /\ r.origin = "forge"
  /\ p \notin {"clone", "setup_origin", "identity"} /\ r.state = "git" /\ ~r.named => wasCut
  /\ p = "checkout" /\ "refresh" \in options => r.tracking >= received
  /\ p \in {"venv", "validate"} /\ options # {} => r.head >= received

HandlerOK(h) ==
  pc[h] # "idle" =>
    /\ since[h] <= tip
    /\ Reached(pc[h], repo[ws[h]], want[h], since[h], ws[h] \in cut)

IInv ==
  /\ TypeOK /\ mirror.tip <= tip /\ Exclusive
  /\ \A w \in Workspace : WorkspaceOK(w)
  /\ \A h \in Handler : HandlerOK(h)

Mirror == [state : {"none", "half", "whole"}, tip : Version]

-----------------------------------------------------------------------------
(* Clones *)

LEMMA TipIsVersion == TypeOK => tip \in Version /\ tip \in Nat /\ Version \subseteq Nat /\ 0 \in Version
BY TipAssumption DEF TypeOK, Version

(* A field of a clone changes, the others stay. *)
LEMMA OriginChanges ==
  ASSUME NEW r \in Repo
  PROVE  LET n == [r EXCEPT !.origin = "forge"] IN
         /\ n \in Repo /\ n.origin = "forge" /\ n.state = r.state /\ n.tracking = r.tracking
         /\ n.head = r.head /\ n.named = r.named /\ n.venv = r.venv
BY DEF Repo

LEMMA NameChanges ==
  ASSUME NEW r \in Repo
  PROVE  LET n == [r EXCEPT !.named = TRUE] IN
         /\ n \in Repo /\ n.named /\ n.state = r.state /\ n.tracking = r.tracking
         /\ n.head = r.head /\ n.origin = r.origin /\ n.venv = r.venv
BY DEF Repo

LEMMA TrackingChanges ==
  ASSUME NEW r \in Repo, NEW v \in Version
  PROVE  LET n == [r EXCEPT !.tracking = v] IN
         /\ n \in Repo /\ n.tracking = v /\ n.state = r.state /\ n.named = r.named
         /\ n.head = r.head /\ n.origin = r.origin /\ n.venv = r.venv
BY DEF Repo

LEMMA HeadChanges ==
  ASSUME NEW r \in Repo, NEW v \in Version
  PROVE  LET n == [r EXCEPT !.head = v] IN
         /\ n \in Repo /\ n.head = v /\ n.state = r.state /\ n.named = r.named
         /\ n.tracking = r.tracking /\ n.origin = r.origin /\ n.venv = r.venv
BY DEF Repo

LEMMA BothChange ==
  ASSUME NEW r \in Repo, NEW v \in Version
  PROVE  LET n == [r EXCEPT !.tracking = v, !.head = v] IN
         /\ n \in Repo /\ n.head = v /\ n.tracking = v /\ n.state = r.state /\ n.named = r.named
         /\ n.origin = r.origin /\ n.venv = r.venv
BY DEF Repo

LEMMA VenvChanges ==
  ASSUME NEW r \in Repo, NEW v \in Venv
  PROVE  LET n == [r EXCEPT !.venv = v] IN
         /\ n \in Repo /\ n.venv = v /\ n.state = r.state /\ n.named = r.named
         /\ n.head = r.head /\ n.tracking = r.tracking /\ n.origin = r.origin
BY DEF Repo

LEMMA FreshRepo ==
  /\ NoRepo \in Repo /\ NoRepo.head = 0 /\ NoRepo.tracking = 0 /\ ~NoRepo.named
  /\ NoRepo.state = "none"
BY TipAssumption DEF NoRepo, Repo, Version, Venv

LEMMA StateChanges ==
  ASSUME NEW r \in Repo, NEW s \in {"none", "torn", "git"}
  PROVE  LET n == [r EXCEPT !.state = s] IN
         /\ n \in Repo /\ n.state = s /\ n.tracking = r.tracking /\ n.head = r.head
         /\ n.named = r.named
BY DEF Repo

LEMMA CloneChanges ==
  ASSUME NEW r \in Repo, NEW v \in Version
  PROVE  LET n == [r EXCEPT !.state = "git", !.tracking = v] IN
         /\ n \in Repo /\ n.state = "git" /\ n.tracking = v /\ n.head = r.head
         /\ n.named = r.named
BY DEF Repo

-----------------------------------------------------------------------------
(* Steps of one handler: what is left to show is about its own clone. *)

LEMMA AwaitKeeps ==
  ASSUME IInv, NEW h \in Handler, pc[h] # "idle", NEW next \in Command, NEW n \in Repo,
         Await(h, next), SetRepo(h, n), mirror' \in Mirror, mirror'.tip <= tip,
         UNCHANGED <<forge, meta, cut>>,
         Sound(n, meta[ws[h]], ws[h] \in cut),
         Reached(next, n, want[h], since[h], ws[h] \in cut)
  PROVE  IInv'
<1> USE DEF IInv
<1>1. ws[h] \in Workspace /\ ws[h] \in locks
  BY DEF TypeOK
<1>2. /\ pc' = [pc EXCEPT ![h] = next] /\ repo' = [repo EXCEPT ![ws[h]] = n]
      /\ UNCHANGED <<tip, orphan, meta, locks, ws, want, since, cut>>
  BY DEF Await, SetRepo, forge
<1>3. next # "idle"
  BY DEF Command
<1>4. TypeOK'
  BY <1>1, <1>2, <1>3 DEF TypeOK, Mirror
<1>5. Exclusive'
  BY <1>2 DEF Exclusive, TypeOK
<1>6. ASSUME NEW w \in Workspace PROVE WorkspaceOK(w)'
  <2>1. CASE w = ws[h]
    BY <1>1, <1>2, <2>1 DEF WorkspaceOK, Sound, TypeOK
  <2>2. CASE w # ws[h]
    BY <1>2, <2>2 DEF WorkspaceOK, Sound, TypeOK
  <2> QED
    BY <2>1, <2>2
<1>7. ASSUME NEW g \in Handler PROVE HandlerOK(g)'
  <2>1. CASE g = h
    BY <1>1, <1>2, <2>1 DEF HandlerOK, Reached, TypeOK
  <2>2. CASE g # h /\ pc[g] # "idle"
    <3>1. ws[g] # ws[h] /\ ws[g] \in Workspace
      BY <2>2 DEF Exclusive, TypeOK
    <3>2. repo'[ws[g]] = repo[ws[g]] /\ pc'[g] = pc[g]
      BY <1>2, <2>2, <3>1 DEF TypeOK
    <3> QED
      BY <1>2, <2>2, <3>2 DEF HandlerOK, Reached
  <2>3. CASE g # h /\ pc[g] = "idle"
    BY <1>2, <2>3 DEF HandlerOK, TypeOK
  <2> QED
    BY <2>1, <2>2, <2>3
<1> QED
  BY <1>2, <1>4, <1>5, <1>6, <1>7

LEMMA LeaveKeeps ==
  ASSUME IInv, NEW h \in Handler, pc[h] # "idle", NEW n \in Repo, NEW m \in Version,
         Leave(h), SetRepo(h, n), meta' = [meta EXCEPT ![ws[h]] = m],
         mirror' \in Mirror, mirror'.tip <= tip, UNCHANGED forge,
         cut' \in {cut, cut \cup {ws[h]}},
         Sound(n, m, ws[h] \in cut'),
         n.state = "git" /\ ~n.named => ws[h] \in cut'
  PROVE  IInv'
<1> USE DEF IInv
<1>1. ws[h] \in Workspace /\ ws[h] \in locks /\ NoWorkspace \notin Workspace /\ 0 \in Version
  BY NullAssumption, TipIsVersion DEF TypeOK
<1>2. /\ pc' = [pc EXCEPT ![h] = "idle"] /\ repo' = [repo EXCEPT ![ws[h]] = n]
      /\ want' = [want EXCEPT ![h] = {}] /\ since' = [since EXCEPT ![h] = 0]
      /\ locks' = locks \ {ws[h]} /\ ws' = [ws EXCEPT ![h] = NoWorkspace]
      /\ UNCHANGED <<tip, orphan>>
  BY DEF Leave, SetRepo, forge
<1>3. \A g \in Handler \ {h} : /\ pc'[g] = pc[g] /\ ws'[g] = ws[g] /\ want'[g] = want[g]
                               /\ since'[g] = since[g]
                               /\ pc[g] # "idle" => ws[g] # ws[h] /\ repo'[ws[g]] = repo[ws[g]]
  BY <1>1, <1>2 DEF TypeOK, Exclusive
<1>4. pc'[h] = "idle" /\ ws'[h] = NoWorkspace
  BY <1>2 DEF TypeOK
<1>5. TypeOK'
  <2>1. \A g \in Handler : IF pc'[g] = "idle" THEN ws'[g] = NoWorkspace ELSE ws'[g] \in locks'
    BY <1>2, <1>3, <1>4 DEF TypeOK
  <2>2. cut' \subseteq Workspace
    BY <1>1 DEF TypeOK
  <2> QED
    BY <1>1, <1>2, <2>1, <2>2 DEF TypeOK, Mirror
<1>6. Exclusive'
  BY <1>3, <1>4 DEF Exclusive
<1>7. ASSUME NEW w \in Workspace PROVE WorkspaceOK(w)'
  <2>1. CASE w = ws[h]
    <3>1. repo'[w] = n /\ meta'[w] = m
      BY <1>2, <2>1 DEF TypeOK
    <3> QED
      BY <1>2, <2>1, <3>1 DEF WorkspaceOK, Sound
  <2>2. CASE w # ws[h]
    <3>1. repo'[w] = repo[w] /\ meta'[w] = meta[w] /\ (w \in cut' <=> w \in cut)
          /\ (w \in locks' <=> w \in locks)
      BY <1>2, <2>2 DEF TypeOK
    <3> QED
      BY <1>2, <3>1 DEF WorkspaceOK, Sound
  <2> QED
    BY <2>1, <2>2
<1>8. ASSUME NEW g \in Handler PROVE HandlerOK(g)'
  <2>1. CASE g = h
    BY <1>4, <2>1 DEF HandlerOK
  <2>2. CASE g # h /\ pc[g] # "idle"
    <3>1. ws[g] \in cut' <=> ws[g] \in cut
      BY <1>3, <2>2
    <3> QED
      BY <1>2, <1>3, <2>2, <3>1 DEF HandlerOK, Reached
  <2>3. CASE g # h /\ pc[g] = "idle"
    BY <1>3, <2>3 DEF HandlerOK
  <2> QED
    BY <2>1, <2>2, <2>3
<1> QED
  BY <1>2, <1>5, <1>6, <1>7, <1>8

-----------------------------------------------------------------------------
(* Every step *)

LEMMA InitEstablishes == Init => IInv
<1> SUFFICES ASSUME Init PROVE IInv
  OBVIOUS
<1>1. 0 \in Version /\ 1 \in Version /\ NoRepo \in Repo
  BY FreshRepo, TipAssumption DEF Version
<1>2. TypeOK
  BY <1>1 DEF Init, TypeOK
<1>3. \A w \in Workspace : WorkspaceOK(w)
  <2> SUFFICES ASSUME NEW w \in Workspace PROVE WorkspaceOK(w)
    OBVIOUS
  <2>1. repo[w] = NoRepo /\ meta[w] = 0 /\ tip = 1
    BY DEF Init
  <2> QED
    BY <2>1, FreshRepo DEF WorkspaceOK, Sound
<1> QED
  BY <1>2, <1>3 DEF Init, IInv, Exclusive, HandlerOK

LEMMA EnterKeeps ==
  ASSUME IInv, NEW h \in Handler, NEW w \in Workspace, NEW o \in SUBSET Option, Enter(h, w, o)
  PROVE  IInv'
<1> USE DEF IInv
<1> DEFINE p == TestMirror(w, o)
           s == IF o = {} THEN 0 ELSE tip
<1>1. /\ pc[h] = "idle" /\ w \notin locks
      /\ pc' = [pc EXCEPT ![h] = p] /\ ws' = [ws EXCEPT ![h] = w]
      /\ want' = [want EXCEPT ![h] = o] /\ since' = [since EXCEPT ![h] = s]
      /\ locks' = locks \cup {w}
      /\ UNCHANGED <<tip, orphan, mirror, repo, meta, cut>>
  BY DEF Enter, forge
<1>2. p \in {"clone_mirror", "fetch_mirror", "clone", "origin"}
  BY DEF TestMirror, Enters
<1>3. p = "clone" => repo[w].state = "none"
  BY DEF TestMirror, Enters
<1>4. s \in Version /\ s <= tip
  BY TipIsVersion
<1>5. p \in Command /\ p # "idle"
  BY <1>2 DEF Command
<1> HIDE DEF p, s
<1>6. TypeOK'
  BY <1>1, <1>4, <1>5 DEF TypeOK
<1>7. Exclusive'
  BY <1>1 DEF TypeOK, Exclusive
<1>8. ASSUME NEW v \in Workspace PROVE WorkspaceOK(v)'
  BY <1>1 DEF WorkspaceOK, Sound
<1>9. ASSUME NEW g \in Handler PROVE HandlerOK(g)'
  <2>1. CASE g = h
    <3>1. /\ pc'[g] = p /\ ws'[g] = w /\ want'[g] = o /\ since'[g] = s
          /\ repo'[w] = repo[w]
      BY <1>1, <2>1 DEF TypeOK
    <3>2. repo[w].state = "git" /\ ~repo[w].named => w \in cut
      BY <1>1 DEF WorkspaceOK
    <3> QED
      BY <1>1, <1>2, <1>3, <1>4, <3>1, <3>2 DEF HandlerOK, Reached
  <2>2. CASE g # h
    <3>1. pc'[g] = pc[g] /\ ws'[g] = ws[g] /\ want'[g] = want[g] /\ since'[g] = since[g]
      BY <1>1, <2>2 DEF TypeOK
    <3> QED
      BY <1>1, <3>1 DEF HandlerOK, Reached
  <2> QED
    BY <2>1, <2>2
<1> QED
  BY <1>1, <1>6, <1>7, <1>8, <1>9

(* What the lemmas about one handler need to know of it. *)
LEMMA AtWork ==
  ASSUME IInv, NEW h \in Handler, pc[h] # "idle"
  PROVE  /\ ws[h] \in Workspace /\ repo[ws[h]] \in Repo /\ meta[ws[h]] \in Version
         /\ pc[h] \in Command
         /\ Sound(repo[ws[h]], meta[ws[h]], ws[h] \in cut)
         /\ since[h] <= tip
         /\ Reached(pc[h], repo[ws[h]], want[h], since[h], ws[h] \in cut)
         /\ repo = [repo EXCEPT ![ws[h]] = repo[ws[h]]]
         /\ meta = [meta EXCEPT ![ws[h]] = meta[ws[h]]]
         /\ mirror \in Mirror /\ mirror.tip <= tip
         /\ meta[ws[h]] \in Nat /\ tip \in Nat /\ since[h] \in Nat
         /\ repo[ws[h]].head \in Nat /\ repo[ws[h]].tracking \in Nat
<1>1. ws[h] \in Workspace /\ repo[ws[h]] \in Repo /\ meta[ws[h]] \in Version /\ pc[h] \in Command
      /\ since[h] \in Version
  BY DEF IInv, TypeOK
<1>2. repo[ws[h]].head \in Version /\ repo[ws[h]].tracking \in Version
  BY <1>1 DEF Repo
<1>3. Version \subseteq Nat /\ tip \in Nat
  BY TipIsVersion DEF IInv
<1>4. Sound(repo[ws[h]], meta[ws[h]], ws[h] \in cut)
  BY <1>1 DEF IInv, WorkspaceOK
<1>5. since[h] <= tip /\ Reached(pc[h], repo[ws[h]], want[h], since[h], ws[h] \in cut)
  BY DEF IInv, HandlerOK
<1> QED
  BY <1>1, <1>2, <1>3, <1>4, <1>5 DEF IInv, TypeOK, Mirror

LEMMA MirrorStepsKeep ==
  ASSUME IInv, NEW h \in Handler, StartMirror(h) \/ MirrorFilled(h) \/ MirrorFetched(h)
  PROVE  IInv'
<1> DEFINE r == repo[ws[h]]
           next == IF StartMirror(h) THEN "fill_mirror" ELSE Enters(ws[h])
<1>1. pc[h] \in {"clone_mirror", "fill_mirror", "fetch_mirror"}
  BY DEF StartMirror, MirrorFilled, MirrorFetched
<1>2. /\ r \in Repo /\ Sound(r, meta[ws[h]], ws[h] \in cut)
      /\ Reached(pc[h], r, want[h], since[h], ws[h] \in cut)
      /\ repo = [repo EXCEPT ![ws[h]] = r] /\ tip \in Nat
  BY <1>1, AtWork
<1>3. mirror' \in Mirror /\ mirror'.tip <= tip
  BY TipIsVersion DEF StartMirror, MirrorFilled, MirrorFetched, Mirror, IInv
<1>4. Await(h, next) /\ SetRepo(h, r) /\ UNCHANGED <<forge, meta, cut>>
  BY <1>2 DEF StartMirror, MirrorFilled, MirrorFetched, SetRepo
<1>5. next \in {"fill_mirror", "clone", "origin"} /\ (next = "clone" => r.state = "none")
  BY DEF Enters
<1>6. next \in Command
  BY <1>5 DEF Command
<1>7. Reached(next, r, want[h], since[h], ws[h] \in cut)
  BY <1>1, <1>2, <1>5 DEF Reached
<1> HIDE DEF r, next
<1>8. pc[h] # "idle"
  BY <1>1
<1>9. Sound(r, meta[ws[h]], ws[h] \in cut)
  BY <1>2
<1> QED
  BY <1>2, <1>3, <1>4, <1>6, <1>7, <1>8, <1>9, AwaitKeeps

LEMMA ClonedKeeps ==
  ASSUME IInv, NEW h \in Handler, Cloned(h)
  PROVE  IInv'
<1> DEFINE r == repo[ws[h]]
           n == [NoRepo EXCEPT !.state = "git", !.tracking = mirror.tip]
<1>1. pc[h] = "clone" /\ pc[h] # "idle"
  BY DEF Cloned
<1>2. /\ Reached("clone", r, want[h], since[h], ws[h] \in cut) /\ meta[ws[h]] \in Nat
      /\ Sound(r, meta[ws[h]], ws[h] \in cut) /\ mirror \in Mirror /\ mirror.tip <= tip
  BY <1>1, AtWork
<1>3. meta[ws[h]] = 0
  BY <1>2 DEF Reached, Sound
<1>4. mirror.tip \in Version /\ mirror.tip \in Nat
  BY <1>2, TipIsVersion DEF IInv, Mirror
<1>5. n \in Repo /\ n.tracking = mirror.tip /\ n.head = 0
  BY <1>4, FreshRepo, CloneChanges
<1>6. Sound(n, meta[ws[h]], ws[h] \in cut)
  BY <1>2, <1>3, <1>4, <1>5 DEF Sound
<1>7. Reached("setup_origin", n, want[h], since[h], ws[h] \in cut)
  BY DEF Reached
<1>8. /\ Await(h, "setup_origin") /\ SetRepo(h, n) /\ UNCHANGED <<forge, meta, cut>>
      /\ mirror' \in Mirror /\ mirror'.tip <= tip
  BY <1>2 DEF Cloned
<1>9. "setup_origin" \in Command
  BY DEF Command
<1> HIDE DEF n
<1> QED
  BY <1>1, <1>5, <1>6, <1>7, <1>8, <1>9, AwaitKeeps

(* A git command in the clone succeeds. *)
LEMMA RunKeeps ==
  ASSUME IInv, NEW h \in Handler, NEW command \in Command, NEW next \in Command, NEW n \in Repo,
         Run(h, command, next), SetRepo(h, n),
         Sound(n, meta[ws[h]], ws[h] \in cut),
         Reached(next, n, want[h], since[h], ws[h] \in cut)
  PROVE  IInv'
<1>1. pc[h] # "idle" /\ Await(h, next) /\ UNCHANGED <<forge, meta, cut>> /\ mirror' = mirror
  BY DEF Run, Command
<1>2. mirror' \in Mirror /\ mirror'.tip <= tip
  BY <1>1, AtWork
<1> QED
  BY <1>1, <1>2, AwaitKeeps

LEMMA OriginStepsKeep ==
  ASSUME IInv, NEW h \in Handler, SetupOrigin(h) \/ Reuse(h)
  PROVE  IInv'
<1> DEFINE r == repo[ws[h]]
           n == [r EXCEPT !.origin = "forge"]
           next == IF SetupOrigin(h) THEN "identity" ELSE BeforeCheckout(h)
           command == IF SetupOrigin(h) THEN "setup_origin" ELSE "origin"
<1>1. Run(h, command, next) /\ SetRepo(h, n) /\ pc[h] = command /\ r.state = "git"
  BY DEF SetupOrigin, Reuse, Run
<1>2. command \in {"setup_origin", "origin"} /\ pc[h] # "idle"
  BY <1>1
<1>3. next \in {"identity", "fetch", "checkout"} /\ (next # "identity" => command = "origin")
      /\ (next = "checkout" => "refresh" \notin want[h])
  BY DEF BeforeCheckout
<1>4. command \in Command /\ next \in Command
  BY <1>2, <1>3 DEF Command
<1>5. r \in Repo /\ Sound(r, meta[ws[h]], ws[h] \in cut)
      /\ Reached(pc[h], r, want[h], since[h], ws[h] \in cut)
  BY <1>2, AtWork
<1>6. /\ n \in Repo /\ n.origin = "forge" /\ n.state = "git" /\ n.tracking = r.tracking
      /\ n.head = r.head /\ n.named = r.named /\ n.venv = r.venv
  BY <1>1, <1>5, OriginChanges
<1> HIDE DEF n, next, command, r
<1>7. Sound(n, meta[ws[h]], ws[h] \in cut)
  BY <1>5, <1>6 DEF Sound
<1>8. Reached(next, n, want[h], since[h], ws[h] \in cut)
  BY <1>1, <1>2, <1>3, <1>5, <1>6 DEF Reached
<1> QED
  BY <1>1, <1>4, <1>6, <1>7, <1>8, RunKeeps

LEMMA SetUserKeeps ==
  ASSUME IInv, NEW h \in Handler, SetUser(h)
  PROVE  IInv'
<1> DEFINE r == repo[ws[h]]
           n == [r EXCEPT !.named = TRUE]
           next == BeforeCheckout(h)
<1>1. Run(h, "identity", next) /\ SetRepo(h, n) /\ pc[h] = "identity" /\ pc[h] # "idle"
  BY DEF SetUser, Run
<1>2. next \in {"fetch", "checkout"} /\ (next = "checkout" => "refresh" \notin want[h])
  BY DEF BeforeCheckout
<1>3. next \in Command /\ "identity" \in Command
  BY <1>2 DEF Command
<1>4. r \in Repo /\ Sound(r, meta[ws[h]], ws[h] \in cut)
      /\ Reached(pc[h], r, want[h], since[h], ws[h] \in cut)
  BY <1>1, AtWork
<1>5. /\ n \in Repo /\ n.named /\ n.state = r.state /\ n.tracking = r.tracking
      /\ n.head = r.head /\ n.origin = r.origin /\ n.venv = r.venv
  BY <1>4, NameChanges
<1> HIDE DEF n, next, r
<1>6. Sound(n, meta[ws[h]], ws[h] \in cut)
  BY <1>4, <1>5 DEF Sound
<1>7. Reached(next, n, want[h], since[h], ws[h] \in cut)
  BY <1>1, <1>2, <1>4, <1>5 DEF Reached
<1> QED
  BY <1>1, <1>3, <1>5, <1>6, <1>7, RunKeeps

LEMMA BranchStepsKeep ==
  ASSUME IInv, NEW h \in Handler, Fetched(h) \/ CheckedOut(h) \/ Reset(h)
  PROVE  IInv'
<1> DEFINE r == repo[ws[h]]
<1>1. pc[h] \in {"fetch", "checkout", "reset"}
  BY DEF Fetched, CheckedOut, Reset
<1>2. /\ r \in Repo /\ Sound(r, meta[ws[h]], ws[h] \in cut) /\ since[h] <= tip
      /\ Reached(pc[h], r, want[h], since[h], ws[h] \in cut)
      /\ meta[ws[h]] \in Nat /\ tip \in Nat /\ since[h] \in Nat
      /\ r.head \in Nat /\ r.tracking \in Nat
  BY <1>1, AtWork
<1>3. r.origin = "forge" /\ r.state = "git" /\ Remote(ws[h]) = tip /\ tip \in Version
  BY <1>1, <1>2, TipIsVersion DEF Reached, Remote, IInv
<1>4. {"fetch", "checkout", "reset", "venv"} \subseteq Command
  BY DEF Command
<1>5. CASE Fetched(h)
  <2> DEFINE n == [r EXCEPT !.tracking = tip]
  <2>1. Run(h, "fetch", "checkout") /\ SetRepo(h, n) /\ pc[h] = "fetch"
    BY <1>3, <1>5 DEF Fetched
  <2>2. /\ n \in Repo /\ n.tracking = tip /\ n.state = r.state /\ n.named = r.named
        /\ n.head = r.head /\ n.origin = r.origin /\ n.venv = r.venv
    BY <1>2, <1>3, TrackingChanges
  <2> HIDE DEF n, r
  <2>3. Sound(n, meta[ws[h]], ws[h] \in cut)
    BY <1>2, <2>2 DEF Sound
  <2>4. Reached("checkout", n, want[h], since[h], ws[h] \in cut)
    BY <1>2, <1>3, <2>1, <2>2 DEF Reached
  <2> QED
    BY <1>4, <2>1, <2>2, <2>3, <2>4, RunKeeps
<1>6. CASE CheckedOut(h)
  <2> DEFINE n == [r EXCEPT !.head = r.tracking]
             next == IF "clean" \in want[h] THEN "reset" ELSE "venv"
  <2>1. Run(h, "checkout", next) /\ SetRepo(h, n) /\ pc[h] = "checkout"
    BY <1>6 DEF CheckedOut
  <2>2. /\ n \in Repo /\ n.head = r.tracking /\ n.state = r.state /\ n.named = r.named
        /\ n.tracking = r.tracking /\ n.origin = r.origin /\ n.venv = r.venv
    <3>1. r.tracking \in Version
      BY <1>2 DEF Repo
    <3> QED
      BY <1>2, <3>1, HeadChanges
  <2>3. next \in {"reset", "venv"} /\ next \in Command
    BY <1>4
  <2>4. next = "venv" /\ want[h] # {} => "refresh" \in want[h]
    <3>1. want[h] \subseteq Option
      BY DEF IInv, TypeOK
    <3> QED
      BY <3>1 DEF Option
  <2> HIDE DEF n, r, next
  <2>5. Sound(n, meta[ws[h]], ws[h] \in cut)
    BY <1>2, <2>2 DEF Sound
  <2>6. Reached(next, n, want[h], since[h], ws[h] \in cut)
    BY <1>2, <1>3, <2>1, <2>2, <2>3, <2>4 DEF Reached
  <2> QED
    BY <1>4, <2>1, <2>2, <2>3, <2>5, <2>6, RunKeeps
<1>7. CASE Reset(h)
  <2> DEFINE n == [r EXCEPT !.tracking = tip, !.head = tip]
  <2>1. Run(h, "reset", "venv") /\ SetRepo(h, n) /\ pc[h] = "reset"
    BY <1>3, <1>7 DEF Reset
  <2>2. /\ n \in Repo /\ n.head = tip /\ n.tracking = tip /\ n.state = r.state
        /\ n.named = r.named /\ n.origin = r.origin /\ n.venv = r.venv
    BY <1>2, <1>3, BothChange
  <2> HIDE DEF n, r
  <2>3. Sound(n, meta[ws[h]], ws[h] \in cut)
    BY <1>2, <2>2 DEF Sound
  <2>4. Reached("venv", n, want[h], since[h], ws[h] \in cut)
    BY <1>2, <1>3, <2>1, <2>2 DEF Reached
  <2> QED
    BY <1>4, <2>1, <2>2, <2>3, <2>4, RunKeeps
<1> QED
  BY <1>5, <1>6, <1>7

LEMMA VenvMadeKeeps ==
  ASSUME IInv, NEW h \in Handler, VenvMade(h)
  PROVE  IInv'
<1> DEFINE r == repo[ws[h]]
           v == IF r.venv = "none" THEN "runs" ELSE r.venv
           n == [r EXCEPT !.venv = v]
<1>1. Run(h, "venv", "validate") /\ SetRepo(h, n) /\ pc[h] = "venv" /\ pc[h] # "idle"
  BY DEF VenvMade, Run
<1>2. r \in Repo /\ Sound(r, meta[ws[h]], ws[h] \in cut)
      /\ Reached(pc[h], r, want[h], since[h], ws[h] \in cut)
  BY <1>1, AtWork
<1>3. v \in Venv
  BY <1>2 DEF Repo, Venv
<1>4. r.venv = "runs" => v = "runs"
  OBVIOUS
<1> HIDE DEF r, v
<1>5. /\ n \in Repo /\ n.venv = v /\ n.state = r.state /\ n.named = r.named
      /\ n.head = r.head /\ n.tracking = r.tracking /\ n.origin = r.origin
  BY <1>2, <1>3, VenvChanges
<1> HIDE DEF n
<1>6. Sound(n, meta[ws[h]], ws[h] \in cut)
  BY <1>2, <1>4, <1>5 DEF Sound
<1>7. Reached("validate", n, want[h], since[h], ws[h] \in cut)
  BY <1>1, <1>2, <1>5 DEF Reached
<1>8. "venv" \in Command /\ "validate" \in Command
  BY DEF Command
<1> QED
  BY <1>1, <1>5, <1>6, <1>7, <1>8, RunKeeps

LEMMA EndsKeep ==
  ASSUME IInv, NEW h \in Handler,
         MirrorFails(h) \/ CloneFails(h) \/ VenvFails(h) \/ Prepared(h) \/ CommandFails(h)
  PROVE  IInv'
<1> DEFINE r == repo[ws[h]]
           m == meta[ws[h]]
<1>1. pc[h] # "idle" /\ Leave(h) /\ UNCHANGED forge
  BY DEF MirrorFails, CloneFails, VenvFails, Prepared, CommandFails, Command
<1>2. /\ r \in Repo /\ m \in Version /\ Sound(r, m, ws[h] \in cut) /\ pc[h] \in Command
      /\ Reached(pc[h], r, want[h], since[h], ws[h] \in cut)
      /\ repo = [repo EXCEPT ![ws[h]] = r] /\ meta = [meta EXCEPT ![ws[h]] = m]
      /\ mirror \in Mirror /\ mirror.tip <= tip /\ tip \in Nat /\ m \in Nat
      /\ r.head \in Nat /\ r.tracking \in Nat
  BY <1>1, AtWork
<1>3. mirror' \in Mirror /\ mirror'.tip <= tip
  BY <1>2, TipIsVersion
     DEF MirrorFails, CloneFails, VenvFails, Prepared, CommandFails, Mirror, IInv
<1>4. CASE MirrorFails(h) \/ CommandFails(h)
  <2>1. SetRepo(h, r) /\ meta' = [meta EXCEPT ![ws[h]] = m] /\ cut' \in {cut, cut \cup {ws[h]}}
    BY <1>2, <1>4 DEF MirrorFails, CommandFails, SetRepo
  <2>2. pc[h] # "clone" /\ (pc[h] \in {"setup_origin", "identity"} => ws[h] \in cut')
    BY <1>4 DEF MirrorFails, CommandFails
  <2> HIDE DEF r, m
  <2>3. Sound(r, m, ws[h] \in cut')
    BY <1>2, <2>1 DEF Sound
  <2>4. r.state = "git" /\ ~r.named => ws[h] \in cut'
    BY <1>2, <2>1, <2>2 DEF Reached
  <2> QED
    BY <1>1, <1>2, <1>3, <2>1, <2>3, <2>4, LeaveKeeps
<1>5. CASE CloneFails(h)
  <2>1. PICK left \in {"none", "torn", "git"} :
          /\ SetRepo(h, [NoRepo EXCEPT !.state = left])
          /\ cut' = IF left = "none" THEN cut ELSE cut \cup {ws[h]}
    BY <1>5 DEF CloneFails
  <2> DEFINE n == [NoRepo EXCEPT !.state = left]
  <2>2. n \in Repo /\ n.state = left /\ n.tracking = 0 /\ n.head = 0
    BY FreshRepo, StateChanges
  <2>3. m = 0
    BY <1>2, <1>5 DEF CloneFails, Reached, Sound
  <2>4. SetRepo(h, n) /\ meta' = [meta EXCEPT ![ws[h]] = m] /\ cut' \in {cut, cut \cup {ws[h]}}
    BY <1>2, <1>5, <2>1 DEF CloneFails
  <2> HIDE DEF n, m, r
  <2>5. Sound(n, m, ws[h] \in cut')
    BY <1>2, <2>2, <2>3 DEF Sound
  <2>6. n.state = "git" /\ ~n.named => ws[h] \in cut'
    BY <2>1, <2>2
  <2> QED
    BY <1>1, <1>2, <1>3, <2>2, <2>4, <2>5, <2>6, LeaveKeeps
<1>6. CASE VenvFails(h)
  <2>1. PICK left \in Venv : SetRepo(h, [r EXCEPT !.venv = left])
    BY <1>6 DEF VenvFails
  <2> DEFINE n == [r EXCEPT !.venv = left]
  <2>2. /\ n \in Repo /\ n.state = r.state /\ n.named = r.named
        /\ n.head = r.head /\ n.tracking = r.tracking /\ n.origin = r.origin
    BY <1>2, VenvChanges
  <2>3. m = 0
    BY <1>2, <1>6 DEF VenvFails, Sound
  <2>4. SetRepo(h, n) /\ meta' = [meta EXCEPT ![ws[h]] = m] /\ cut' = cut /\ pc[h] = "venv"
    BY <1>2, <1>6, <2>1 DEF VenvFails
  <2> HIDE DEF n, m, r
  <2>5. Sound(n, m, ws[h] \in cut')
    BY <1>2, <2>2, <2>3 DEF Sound
  <2>6. n.state = "git" /\ ~n.named => ws[h] \in cut'
    BY <1>2, <2>2, <2>4 DEF Reached
  <2> QED
    BY <1>1, <1>2, <1>3, <2>2, <2>4, <2>5, <2>6, LeaveKeeps
<1>7. CASE Prepared(h)
  <2>1. /\ SetRepo(h, r) /\ meta' = [meta EXCEPT ![ws[h]] = r.head] /\ cut' = cut
        /\ pc[h] = "validate" /\ r.venv = "runs"
    BY <1>2, <1>7 DEF Prepared, SetRepo
  <2>2. r.head \in Version
    BY <1>2 DEF Repo
  <2> HIDE DEF r, m
  <2>3. r.state = "git" /\ r.origin = "forge" /\ (~r.named => ws[h] \in cut)
    BY <1>2, <2>1 DEF Reached
  <2>4. Sound(r, r.head, ws[h] \in cut')
    BY <1>2, <2>1, <2>3 DEF Sound
  <2> QED
    BY <1>1, <1>2, <1>3, <2>1, <2>2, <2>3, <2>4, LeaveKeeps
<1> QED
  BY <1>4, <1>5, <1>6, <1>7

LEMMA PublishKeeps ==
  ASSUME IInv, NEW w \in Workspace, Publish(w)
  PROVE  IInv'
<1> USE DEF IInv
<1> DEFINE r == repo[w]
           n == [r EXCEPT !.head = tip + 1, !.tracking = tip + 1, !.named = TRUE]
<1>1. r \in Repo /\ meta[w] > 0 /\ w \notin locks /\ tip < MaxTip /\ tip \in Nat /\ Version \subseteq Nat
  BY TipIsVersion DEF TypeOK, Publish
<1>2. tip + 1 \in Version /\ tip + 1 \in Nat
  BY <1>1, TipAssumption DEF Version
<1>3. /\ n \in Repo /\ n.head = tip + 1 /\ n.tracking = tip + 1
      /\ n.state = r.state /\ n.origin = r.origin /\ n.venv = r.venv /\ n.named
  BY <1>1, <1>2 DEF Repo
<1>4. repo' = [repo EXCEPT ![w] = n]
  <2>1. repo' = [repo EXCEPT ![w] = [[[@ EXCEPT !.head = tip + 1] EXCEPT !.tracking = tip + 1]
                                       EXCEPT !.named = TRUE]]
    BY Zenon DEF Publish
  <2>2. [[[r EXCEPT !.head = tip + 1] EXCEPT !.tracking = tip + 1] EXCEPT !.named = TRUE] = n
    BY <1>1 DEF Repo
  <2> QED
    BY <2>1, <2>2, Zenon
<1> HIDE DEF n
<1>5. /\ tip' = tip + 1 /\ meta' = [meta EXCEPT ![w] = tip + 1] /\ cut' = cut \ {w}
      /\ UNCHANGED <<mirror, orphan, locks, pc, ws, want, since>>
  BY DEF Publish, calls
<1>6. repo'[w] = n /\ meta'[w] = tip + 1 /\ \A v \in Workspace \ {w} : repo'[v] = repo[v] /\ meta'[v] = meta[v]
  BY <1>4, <1>5 DEF TypeOK
<1>7. TypeOK'
  BY <1>2, <1>3, <1>4, <1>5 DEF TypeOK
<1>8. mirror' = mirror /\ mirror.tip \in Nat /\ mirror'.tip <= tip'
  <2>1. mirror.tip \in Nat /\ mirror.tip <= tip
    BY <1>1 DEF TypeOK
  <2>2. mirror' = mirror
    BY <1>5
  <2>3. mirror.tip <= tip'
    BY <1>1, <1>5, <2>1
  <2> QED
    BY <2>1, <2>2, <2>3, Zenon
<1>9. Exclusive'
  BY <1>5 DEF Exclusive
<1>10. ASSUME NEW v \in Workspace PROVE WorkspaceOK(v)'
  <2>1. CASE v = w
    BY <1>1, <1>2, <1>3, <1>5, <1>6, <2>1 DEF WorkspaceOK, Sound
  <2>2. CASE v # w
    <3>1. repo[v].tracking \in Nat
      BY <1>1 DEF TypeOK, Repo
    <3> QED
      BY <1>1, <1>5, <1>6, <2>2, <3>1 DEF WorkspaceOK, Sound
  <2> QED
    BY <2>1, <2>2
<1>11. ASSUME NEW g \in Handler PROVE HandlerOK(g)'
  <2>1. pc[g] # "idle" => ws[g] # w /\ ws[g] \in Workspace /\ since[g] \in Nat
    BY <1>1 DEF TypeOK
  <2> QED
    BY <1>1, <1>5, <1>6, <2>1 DEF HandlerOK, Reached
<1> QED
  BY <1>7, <1>8, <1>9, <1>10, <1>11

(* Others push, the orphaned clone ends, or the gateway dies. *)
LEMMA WorldKeeps ==
  ASSUME IInv, OthersPush \/ OrphanEnds \/ Crash
  PROVE  IInv'
<1> USE DEF IInv
<1>1. tip \in Nat /\ Version \subseteq Nat /\ mirror.tip \in Nat /\ 0 \in Version /\ tip \in Version
  BY TipIsVersion DEF TypeOK
<1>2. ASSUME NEW w \in Workspace PROVE repo[w].tracking \in Nat
  BY <1>1, <1>2 DEF TypeOK, Repo
<1>3. CASE OthersPush
  <2>1. tip' = tip + 1 /\ tip' \in Version
    BY <1>1, <1>3, TipAssumption DEF OthersPush, Version
  <2>2. UNCHANGED <<mirror, orphan, repo, meta, locks, pc, ws, want, since, cut>>
    BY <1>3 DEF OthersPush, calls
  <2>3. TypeOK' /\ Exclusive' /\ mirror'.tip <= tip'
    BY <1>1, <2>1, <2>2 DEF TypeOK, Exclusive
  <2>4. ASSUME NEW w \in Workspace PROVE WorkspaceOK(w)'
    BY <1>1, <1>2, <2>1, <2>2 DEF WorkspaceOK, Sound
  <2>5. ASSUME NEW g \in Handler PROVE HandlerOK(g)'
    <3>1. since[g] \in Nat
      BY <1>1 DEF TypeOK
    <3> QED
      BY <1>1, <2>1, <2>2, <3>1 DEF HandlerOK, Reached
  <2> QED
    BY <2>3, <2>4, <2>5
<1>4. CASE OrphanEnds
  <2>1. UNCHANGED <<tip, repo, meta, locks, pc, ws, want, since, cut>> /\ orphan' \in BOOLEAN
    BY <1>4 DEF OrphanEnds, calls
  <2>2. mirror' \in [state : {"none", "half", "whole"}, tip : Version] /\ mirror'.tip <= tip
    BY <1>1, <1>4 DEF OrphanEnds, TypeOK
  <2>3. TypeOK' /\ Exclusive' /\ mirror'.tip <= tip'
    BY <2>1, <2>2 DEF TypeOK, Exclusive
  <2> QED
    BY <2>1, <2>3 DEF WorkspaceOK, Sound, HandlerOK, Reached
<1>5. CASE Crash
  <2>1. /\ UNCHANGED <<tip, mirror, repo, meta, locks, cut>> /\ orphan' \in BOOLEAN
        /\ pc' = [h \in Handler |-> "idle"] /\ ws' = [h \in Handler |-> NoWorkspace]
        /\ want' = [h \in Handler |-> {}] /\ since' = [h \in Handler |-> 0]
    BY <1>5 DEF Crash, TypeOK
  <2>2. TypeOK' /\ Exclusive'
    BY <1>1, <2>1 DEF TypeOK, Exclusive
  <2> QED
    BY <2>1, <2>2 DEF WorkspaceOK, Sound, HandlerOK
<1> QED
  BY <1>3, <1>4, <1>5

LEMMA NextKeeps == IInv /\ [Next]_vars => IInv'
<1> SUFFICES ASSUME IInv, [Next]_vars PROVE IInv'
  OBVIOUS
<1>1. ASSUME NEW h \in Handler, Step(h) PROVE IInv'
  BY <1>1, MirrorStepsKeep, ClonedKeeps, OriginStepsKeep, SetUserKeeps, BranchStepsKeep,
     VenvMadeKeeps, EndsKeep DEF Step
<1>2. ASSUME NEW h \in Handler, NEW w \in Workspace, NEW o \in SUBSET Option, Enter(h, w, o)
      PROVE  IInv'
  BY <1>2, EnterKeeps
<1>3. ASSUME NEW w \in Workspace, Publish(w) PROVE IInv'
  BY <1>3, PublishKeeps
<1>4. CASE OthersPush \/ Crash \/ OrphanEnds
  BY <1>4, WorldKeeps
<1>5. CASE UNCHANGED vars
  BY <1>5 DEF IInv, TypeOK, Exclusive, WorkspaceOK, Sound, HandlerOK, Reached, vars, calls
<1> QED
  BY <1>1, <1>2, <1>3, <1>4, <1>5 DEF Next

LEMMA Inductive == Spec => []IInv
BY InitEstablishes, NextKeeps, PTL DEF Spec

-----------------------------------------------------------------------------
(* Theorems *)

(* A workspace that nobody holds and that has a meta.json is a repository  *)
(* whose origin is the forge, stands at its head_sha or later and has an   *)
(* interpreter that runs, whatever was killed in its earlier prepares and  *)
(* in the mirror they share.                                               *)
THEOREM PreparedWorkspacesAreUsable == Spec => []PreparedIsUsable
<1>1. IInv => PreparedIsUsable
  <2> SUFFICES ASSUME IInv, NEW w \in Workspace, meta[w] > 0
               PROVE  /\ repo[w].state = "git" /\ repo[w].origin = "forge"
                      /\ repo[w].head >= meta[w] /\ repo[w].venv = "runs"
    BY DEF PreparedIsUsable
  <2>1. meta[w] \in Nat /\ repo[w].head \in Nat
    BY TipIsVersion DEF IInv, TypeOK, Repo
  <2> QED
    BY <2>1 DEF IInv, WorkspaceOK, Sound
<1> QED
  BY <1>1, Inductive, PTL

(* The commit identity is missing only where the first setup was cut short *)
(* between the clone and git config, which no later prepare repairs, and   *)
(* only until the first commit_and_push, which sets it before it commits.  *)
THEOREM OnlyCutSetupsLackIdentity == Spec => []UnnamedOnlyAfterCut
<1>1. IInv => UnnamedOnlyAfterCut
  BY DEF IInv, WorkspaceOK, Sound, UnnamedOnlyAfterCut
<1> QED
  BY <1>1, Inductive, PTL

(* A prepare with refresh or clean answers no head older than the branch   *)
(* was when the request arrived, through any mirror.                       *)
THEOREM RefreshIsCurrent == Spec => RefreshedIsCurrent
<1> DEFINE Current == \A h \in Handler : Prepared(h) /\ want[h] # {} => meta'[ws[h]] >= since[h]
<1>1. IInv /\ [Next]_vars => [Current]_vars
  <2> SUFFICES ASSUME IInv, NEW h \in Handler, Prepared(h), want[h] # {}
               PROVE  meta'[ws[h]] >= since[h]
    OBVIOUS
  <2>1. pc[h] = "validate" /\ meta' = [meta EXCEPT ![ws[h]] = repo[ws[h]].head]
    BY DEF Prepared
  <2>2. Reached(pc[h], repo[ws[h]], want[h], since[h], ws[h] \in cut) /\ ws[h] \in Workspace
    BY <2>1, AtWork
  <2>3. meta'[ws[h]] = repo[ws[h]].head
    BY <2>1, <2>2 DEF IInv, TypeOK
  <2> QED
    BY <2>1, <2>2, <2>3 DEF Reached
<1> QED
  BY <1>1, Inductive, PTL DEF Spec, RefreshedIsCurrent

(* No step moves the head_sha of a workspace back: what it answered, or    *)
(* published, stays an ancestor of what it answers later.                  *)
THEOREM HeadsOnlyAdvance == Spec => HeadNeverGoesBack
<1> DEFINE Forward == \A w \in Workspace : meta'[w] >= meta[w]
<1>1. IInv /\ [Next]_vars => [Forward]_vars
  <2> SUFFICES ASSUME IInv, Next, NEW w \in Workspace PROVE meta'[w] >= meta[w]
    OBVIOUS
  <2>1. meta[w] \in Nat /\ tip \in Nat /\ repo[w].head \in Nat /\ repo[w].tracking \in Nat
        /\ Sound(repo[w], meta[w], w \in cut)
    BY TipIsVersion DEF IInv, TypeOK, Repo, WorkspaceOK
  <2>2. CASE meta' = meta
    BY <2>1, <2>2
  <2>3. ASSUME NEW h \in Handler, Prepared(h) PROVE meta'[w] >= meta[w]
    <3>1. meta' = [meta EXCEPT ![ws[h]] = repo[ws[h]].head]
      BY <2>3 DEF Prepared
    <3> QED
      BY <2>1, <3>1 DEF Sound, IInv, TypeOK
  <2>4. ASSUME NEW v \in Workspace, Publish(v) PROVE meta'[w] >= meta[w]
    BY <2>1, <2>4 DEF Publish, Sound, IInv, TypeOK
  <2>5. ASSUME NEW h \in Handler, Step(h), ~Prepared(h) PROVE meta' = meta
    <3>1. CASE StartMirror(h) \/ MirrorFilled(h) \/ MirrorFails(h) \/ MirrorFetched(h)
               \/ Cloned(h) \/ CloneFails(h) \/ VenvFails(h) \/ CommandFails(h)
      BY <3>1 DEF StartMirror, MirrorFilled, MirrorFails, MirrorFetched, Cloned, CloneFails,
                  VenvFails, CommandFails
    <3>2. CASE SetupOrigin(h) \/ SetUser(h) \/ Reuse(h) \/ Fetched(h) \/ CheckedOut(h)
               \/ Reset(h) \/ VenvMade(h)
      BY <3>2 DEF SetupOrigin, SetUser, Reuse, Fetched, CheckedOut, Reset, VenvMade, Run
    <3> QED
      BY <2>5, <3>1, <3>2 DEF Step
  <2>6. ASSUME NEW h \in Handler, NEW v \in Workspace, NEW o \in SUBSET Option, Enter(h, v, o)
        PROVE  meta' = meta
    BY <2>6 DEF Enter
  <2>7. CASE OthersPush \/ Crash \/ OrphanEnds
    BY <2>2, <2>7 DEF OthersPush, Crash, OrphanEnds
  <2> QED
    BY <2>2, <2>3, <2>4, <2>5, <2>6, <2>7 DEF Next
<1> QED
  BY <1>1, Inductive, PTL DEF Spec, HeadNeverGoesBack
=============================================================================
