------------------------ MODULE WorkspaceStore_proofs ------------------------
(***************************************************************************)
(* Theorems about WorkspaceStore, and that its lock files implement the    *)
(* lock of LockService, for any number of workspaces and handlers.         *)
(***************************************************************************)
EXTENDS WorkspaceStore, FiniteSetTheorems, TLAPS

(* A handler past its first await knows its workspace, and a prepare knows *)
(* its target.                                                             *)
CallsOK ==
  \A h \in Handler :
    /\ pc[h] \in Locked \cup {"runinfo", "download"} => ws[h] \in Workspace
    /\ pc[h] \in {"forge", "mirror", "clone", "checkout", "leave"} => target[h] \in Target

(* Between the comparison and save_meta nobody else writes meta.json, and  *)
(* a clone starts only where there is none.                                *)
PrepareAgrees ==
  \A h \in Handler :
    /\ pc[h] \in {"mirror", "clone", "checkout"} => meta[ws[h]] \in {NoMeta, target[h]}
    /\ pc[h] = "clone" => repo[ws[h]] = "none"

(* What does not exist is empty. *)
AbsentIsEmpty ==
  \A w \in Workspace \ dirs : meta[w] = NoMeta /\ repo[w] = "none"

(* A lock left by a crash belongs to nobody. *)
StaleIsNotHeld ==
  \A h \in Handler, w \in stale : ~Holds(h, w)

IInv == TypeOK /\ StaleIsNotHeld /\ AbsentIsEmpty /\ CallsOK /\ MutualExclusion /\ NoLeakedLock

LEMMA ZeroAge == 0 \in Ages
BY TTLAssumption DEF Ages

LEMMA NextAge == \A a \in Ages : a <= TTL => a + 1 \in Ages
BY TTLAssumption DEF Ages

LEMMA InitIInv == Init => IInv
<1> SUFFICES ASSUME Init PROVE IInv
  OBVIOUS
<1>1. TypeOK
  BY ZeroAge DEF Init, TypeOK, DiskTypeOK, FilesTypeOK, CallsTypeOK, RepoState, Locked, Waiting
<1>2. StaleIsNotHeld /\ AbsentIsEmpty /\ CallsOK /\ MutualExclusion /\ NoLeakedLock
  BY DEF Init, StaleIsNotHeld, AbsentIsEmpty, CallsOK, MutualExclusion, NoLeakedLock, Holds, Locked
<1> QED
  BY <1>1, <1>2 DEF IInv

(* Receiving a request. *)
LEMMA ReceiveIInv ==
  ASSUME IInv, NEW h \in Handler, Receive(h)
  PROVE  IInv'
<1> USE DEF IInv, DiskTypeOK, FilesTypeOK, CallsTypeOK, Holds, Locked, Waiting, Readable
<1>1. ASSUME NEW w \in Workspace \cup {NoWorkspace}, NEW t \in Target, ReceivePrepare(h, w, t)
      PROVE  IInv'
  <2> USE <1>1 DEF ReceivePrepare, Await, disk, history
  <2>1. TypeOK'
    <3>1. DiskTypeOK'
      BY ZeroAge, NextAge, NullAssumption DEF TypeOK, RepoState, CallsOK
    <3>2. FilesTypeOK'
      BY NullAssumption DEF TypeOK, StaleIsNotHeld, AbsentIsEmpty, CallsOK, MutualExclusion
    <3>3. CallsTypeOK'
      BY DEF TypeOK, CallsOK
    <3> QED BY <3>1, <3>2, <3>3 DEF TypeOK
  <2>2. AbsentIsEmpty'
    BY DEF TypeOK, AbsentIsEmpty, CallsOK, MutualExclusion
  <2>3. CallsOK'
    BY DEF TypeOK, CallsOK
  <2>4. MutualExclusion'
    BY DEF TypeOK, CallsOK, MutualExclusion
  <2>5. NoLeakedLock'
    BY DEF TypeOK, CallsOK, NoLeakedLock, MutualExclusion
  <2>6. StaleIsNotHeld'
    BY DEF TypeOK, CallsOK, StaleIsNotHeld
  <2> QED BY <2>1, <2>2, <2>3, <2>4, <2>5, <2>6
<1>2. ASSUME NEW w \in Workspace, Operate(h, w)
      PROVE  IInv'
  <2> USE <1>2 DEF Operate, Await, Answer, disk, history
  <2>1. TypeOK'
    <3>1. DiskTypeOK'
      BY ZeroAge, NextAge, NullAssumption DEF TypeOK, RepoState, CallsOK
    <3>2. FilesTypeOK'
      BY NullAssumption DEF TypeOK, StaleIsNotHeld, AbsentIsEmpty, CallsOK, MutualExclusion
    <3>3. CallsTypeOK'
      <4>1. CASE w \in lockFile
        BY <4>1 DEF TypeOK
      <4>2. CASE w \notin lockFile
        <5>1. /\ pc' = [pc EXCEPT ![h] = "operate"]
              /\ ws' = [ws EXCEPT ![h] = w]
              /\ target' = target
          BY <4>2
        <5> HIDE <1>2 DEF Operate
        <5> QED BY <5>1 DEF TypeOK
      <4> QED BY <4>1, <4>2
    <3> QED BY <3>1, <3>2, <3>3 DEF TypeOK
  <2>2. AbsentIsEmpty'
    BY DEF TypeOK, AbsentIsEmpty, CallsOK, MutualExclusion
  <2>3. CallsOK'
    BY DEF TypeOK, CallsOK
  <2>4. MutualExclusion'
    BY DEF TypeOK, CallsOK, MutualExclusion
  <2>5. NoLeakedLock'
    BY DEF TypeOK, CallsOK, NoLeakedLock, MutualExclusion
  <2>6. StaleIsNotHeld'
    BY DEF TypeOK, CallsOK, StaleIsNotHeld
  <2> QED BY <2>1, <2>2, <2>3, <2>4, <2>5, <2>6
<1>3. ASSUME NEW w \in Workspace, ReceiveSync(h, w)
      PROVE  IInv'
  <2> USE <1>3 DEF ReceiveSync, Await, disk, history
  <2>1. TypeOK'
    <3>1. DiskTypeOK'
      BY ZeroAge, NextAge, NullAssumption DEF TypeOK, RepoState, CallsOK
    <3>2. FilesTypeOK'
      BY NullAssumption DEF TypeOK, StaleIsNotHeld, AbsentIsEmpty, CallsOK, MutualExclusion
    <3>3. CallsTypeOK'
      BY DEF TypeOK, CallsOK
    <3> QED BY <3>1, <3>2, <3>3 DEF TypeOK
  <2>2. AbsentIsEmpty'
    BY DEF TypeOK, AbsentIsEmpty, CallsOK, MutualExclusion
  <2>3. CallsOK'
    BY DEF TypeOK, CallsOK
  <2>4. MutualExclusion'
    BY DEF TypeOK, CallsOK, MutualExclusion
  <2>5. NoLeakedLock'
    BY DEF TypeOK, CallsOK, NoLeakedLock, MutualExclusion
  <2>6. StaleIsNotHeld'
    BY DEF TypeOK, CallsOK, StaleIsNotHeld
  <2> QED BY <2>1, <2>2, <2>3, <2>4, <2>5, <2>6
<1> QED
  BY <1>1, <1>2, <1>3 DEF Receive

(* Steps of an operation after its lock was taken, or that gives up. *)
LEMMA ProgressIInv ==
  ASSUME IInv, NEW h \in Handler, Progress(h), ~PrepareEnter(h)
  PROVE  IInv'
<1> USE DEF IInv, DiskTypeOK, FilesTypeOK, CallsTypeOK, Holds, Locked, Waiting
<1>1. ASSUME ForgeFails(h)
      PROVE  IInv'
  <2> USE <1>1 DEF ForgeFails, Answer, disk, history
  <2>1. TypeOK'
    <3>1. DiskTypeOK'
      BY ZeroAge, NextAge, NullAssumption DEF TypeOK, RepoState, CallsOK
    <3>2. FilesTypeOK'
      BY NullAssumption DEF TypeOK, StaleIsNotHeld, AbsentIsEmpty, CallsOK, MutualExclusion
    <3>3. CallsTypeOK'
      BY DEF TypeOK, CallsOK
    <3> QED BY <3>1, <3>2, <3>3 DEF TypeOK
  <2>2. AbsentIsEmpty'
    BY DEF TypeOK, AbsentIsEmpty, CallsOK, MutualExclusion
  <2>3. CallsOK'
    BY DEF TypeOK, CallsOK
  <2>4. MutualExclusion'
    BY DEF TypeOK, CallsOK, MutualExclusion
  <2>5. NoLeakedLock'
    BY DEF TypeOK, CallsOK, NoLeakedLock, MutualExclusion
  <2>6. StaleIsNotHeld'
    BY DEF TypeOK, CallsOK, StaleIsNotHeld
  <2> QED BY <2>1, <2>2, <2>3, <2>4, <2>5, <2>6
<1>2. ASSUME MirrorReady(h)
      PROVE  IInv'
  <2> USE <1>2 DEF MirrorReady, Await, disk, history
  <2>1. TypeOK'
    <3>1. DiskTypeOK'
      BY ZeroAge, NextAge, NullAssumption DEF TypeOK, RepoState, CallsOK
    <3>2. FilesTypeOK'
      BY NullAssumption DEF TypeOK, StaleIsNotHeld, AbsentIsEmpty, CallsOK, MutualExclusion
    <3>3. CallsTypeOK'
      BY DEF TypeOK, CallsOK
    <3> QED BY <3>1, <3>2, <3>3 DEF TypeOK
  <2>2. AbsentIsEmpty'
    BY DEF TypeOK, AbsentIsEmpty, CallsOK, MutualExclusion
  <2>3. CallsOK'
    BY DEF TypeOK, CallsOK
  <2>4. MutualExclusion'
    BY DEF TypeOK, CallsOK, MutualExclusion
  <2>5. NoLeakedLock'
    BY DEF TypeOK, CallsOK, NoLeakedLock, MutualExclusion
  <2>6. StaleIsNotHeld'
    BY DEF TypeOK, CallsOK, StaleIsNotHeld
  <2> QED BY <2>1, <2>2, <2>3, <2>4, <2>5, <2>6
<1>3. ASSUME CloneDone(h)
      PROVE  IInv'
  <2> USE <1>3 DEF CloneDone, Await, disk, history
  <2>1. TypeOK'
    <3>1. DiskTypeOK'
      BY ZeroAge, NextAge, NullAssumption DEF TypeOK, RepoState, CallsOK
    <3>2. FilesTypeOK'
      BY NullAssumption DEF TypeOK, StaleIsNotHeld, AbsentIsEmpty, CallsOK, MutualExclusion
    <3>3. CallsTypeOK'
      BY DEF TypeOK, CallsOK
    <3> QED BY <3>1, <3>2, <3>3 DEF TypeOK
  <2>2. AbsentIsEmpty'
    BY DEF TypeOK, AbsentIsEmpty, CallsOK, MutualExclusion
  <2>3. CallsOK'
    BY DEF TypeOK, CallsOK
  <2>4. MutualExclusion'
    BY DEF TypeOK, CallsOK, MutualExclusion
  <2>5. NoLeakedLock'
    BY DEF TypeOK, CallsOK, NoLeakedLock, MutualExclusion
  <2>6. StaleIsNotHeld'
    BY DEF TypeOK, CallsOK, StaleIsNotHeld
  <2> QED BY <2>1, <2>2, <2>3, <2>4, <2>5, <2>6
<1>4. ASSUME CloneFails(h)
      PROVE  IInv'
  <2> USE <1>4 DEF CloneFails, Release, Answer, history
  <2>1. TypeOK'
    <3>1. DiskTypeOK'
      BY ZeroAge, NextAge, NullAssumption DEF TypeOK, RepoState, CallsOK
    <3>2. FilesTypeOK'
      BY NullAssumption DEF TypeOK, StaleIsNotHeld, AbsentIsEmpty, CallsOK, MutualExclusion
    <3>3. CallsTypeOK'
      BY DEF TypeOK, CallsOK
    <3> QED BY <3>1, <3>2, <3>3 DEF TypeOK
  <2>2. AbsentIsEmpty'
    BY DEF TypeOK, AbsentIsEmpty, CallsOK, MutualExclusion
  <2>3. CallsOK'
    BY DEF TypeOK, CallsOK
  <2>4. MutualExclusion'
    BY DEF TypeOK, CallsOK, MutualExclusion
  <2>5. NoLeakedLock'
    BY DEF TypeOK, CallsOK, NoLeakedLock, MutualExclusion
  <2>6. StaleIsNotHeld'
    BY DEF TypeOK, CallsOK, StaleIsNotHeld
  <2> QED BY <2>1, <2>2, <2>3, <2>4, <2>5, <2>6
<1>5. ASSUME PrepareDone(h)
      PROVE  IInv'
  <2> USE <1>5 DEF PrepareDone, Await, history
  <2>1. TypeOK'
    <3>1. DiskTypeOK'
      BY ZeroAge, NextAge, NullAssumption DEF TypeOK, RepoState, CallsOK
    <3>2. FilesTypeOK'
      BY NullAssumption DEF TypeOK, StaleIsNotHeld, AbsentIsEmpty, CallsOK, MutualExclusion
    <3>3. CallsTypeOK'
      BY DEF TypeOK, CallsOK
    <3> QED BY <3>1, <3>2, <3>3 DEF TypeOK
  <2>2. AbsentIsEmpty'
    BY DEF TypeOK, AbsentIsEmpty, CallsOK, MutualExclusion
  <2>3. CallsOK'
    BY DEF TypeOK, CallsOK
  <2>4. MutualExclusion'
    BY DEF TypeOK, CallsOK, MutualExclusion
  <2>5. NoLeakedLock'
    BY DEF TypeOK, CallsOK, NoLeakedLock, MutualExclusion
  <2>6. StaleIsNotHeld'
    BY DEF TypeOK, CallsOK, StaleIsNotHeld
  <2> QED BY <2>1, <2>2, <2>3, <2>4, <2>5, <2>6
<1>6. ASSUME PrepareFails(h)
      PROVE  IInv'
  <2> USE <1>6 DEF PrepareFails, Release, Answer, history
  <2>1. TypeOK'
    <3>1. DiskTypeOK'
      BY ZeroAge, NextAge, NullAssumption DEF TypeOK, RepoState, CallsOK
    <3>2. FilesTypeOK'
      BY NullAssumption DEF TypeOK, StaleIsNotHeld, AbsentIsEmpty, CallsOK, MutualExclusion
    <3>3. CallsTypeOK'
      BY DEF TypeOK, CallsOK
    <3> QED BY <3>1, <3>2, <3>3 DEF TypeOK
  <2>2. AbsentIsEmpty'
    BY DEF TypeOK, AbsentIsEmpty, CallsOK, MutualExclusion
  <2>3. CallsOK'
    BY DEF TypeOK, CallsOK
  <2>4. MutualExclusion'
    BY DEF TypeOK, CallsOK, MutualExclusion
  <2>5. NoLeakedLock'
    BY DEF TypeOK, CallsOK, NoLeakedLock, MutualExclusion
  <2>6. StaleIsNotHeld'
    BY DEF TypeOK, CallsOK, StaleIsNotHeld
  <2> QED BY <2>1, <2>2, <2>3, <2>4, <2>5, <2>6
<1>7. ASSUME LeaveLock(h)
      PROVE  IInv'
  <2> USE <1>7 DEF LeaveLock, Release, Answer, history
  <2>1. TypeOK'
    <3>1. DiskTypeOK'
      BY ZeroAge, NextAge, NullAssumption DEF TypeOK, RepoState, CallsOK
    <3>2. FilesTypeOK'
      BY NullAssumption DEF TypeOK, StaleIsNotHeld, AbsentIsEmpty, CallsOK, MutualExclusion
    <3>3. CallsTypeOK'
      BY DEF TypeOK, CallsOK
    <3> QED BY <3>1, <3>2, <3>3 DEF TypeOK
  <2>2. AbsentIsEmpty'
    BY DEF TypeOK, AbsentIsEmpty, CallsOK, MutualExclusion
  <2>3. CallsOK'
    BY DEF TypeOK, CallsOK
  <2>4. MutualExclusion'
    BY DEF TypeOK, CallsOK, MutualExclusion
  <2>5. NoLeakedLock'
    BY DEF TypeOK, CallsOK, NoLeakedLock, MutualExclusion
  <2>6. StaleIsNotHeld'
    BY DEF TypeOK, CallsOK, StaleIsNotHeld
  <2> QED BY <2>1, <2>2, <2>3, <2>4, <2>5, <2>6
<1>8. ASSUME SyncWindow(h)
      PROVE  IInv'
  <2> USE <1>8 DEF SyncWindow, Recreate, Answer, Await, disk, history
  <2>1. TypeOK'
    <3>1. DiskTypeOK'
      BY ZeroAge, NextAge, NullAssumption DEF TypeOK, RepoState, CallsOK
    <3>2. FilesTypeOK'
      BY NullAssumption DEF TypeOK, StaleIsNotHeld, AbsentIsEmpty, CallsOK, MutualExclusion
    <3>3. CallsTypeOK'
      BY DEF TypeOK, CallsOK
    <3> QED BY <3>1, <3>2, <3>3 DEF TypeOK
  <2>2. AbsentIsEmpty'
    BY DEF TypeOK, AbsentIsEmpty, CallsOK, MutualExclusion
  <2>3. CallsOK'
    BY DEF TypeOK, CallsOK
  <2>4. MutualExclusion'
    BY DEF TypeOK, CallsOK, MutualExclusion
  <2>5. NoLeakedLock'
    BY DEF TypeOK, CallsOK, NoLeakedLock, MutualExclusion
  <2>6. StaleIsNotHeld'
    BY DEF TypeOK, CallsOK, StaleIsNotHeld
  <2> QED BY <2>1, <2>2, <2>3, <2>4, <2>5, <2>6
<1> QED
  BY <1>1, <1>2, <1>3, <1>4, <1>5, <1>6, <1>7, <1>8 DEF Progress

(* Crashes and the passing of time. *)
LEMMA EnvironmentIInv ==
  ASSUME IInv, Crash \/ Tick \/ (\E h \in Handler : CrashInSync(h)) \/ UNCHANGED vars
  PROVE  IInv'
<1> USE DEF IInv, DiskTypeOK, FilesTypeOK, CallsTypeOK, Holds, Locked, Waiting
<1>1. ASSUME Crash
      PROVE  IInv'
  <2> USE <1>1 DEF Crash, Restart, Caught, history
  <2>1. TypeOK'
    <3>1. DiskTypeOK'
      BY ZeroAge, NextAge, NullAssumption DEF TypeOK, RepoState, CallsOK
    <3>2. FilesTypeOK'
      BY NullAssumption DEF TypeOK, StaleIsNotHeld, AbsentIsEmpty, CallsOK, MutualExclusion
    <3>3. CallsTypeOK'
      BY DEF TypeOK, CallsOK
    <3> QED BY <3>1, <3>2, <3>3 DEF TypeOK
  <2>2. AbsentIsEmpty'
    BY DEF TypeOK, AbsentIsEmpty, CallsOK, MutualExclusion
  <2>3. CallsOK'
    BY DEF TypeOK, CallsOK
  <2>4. MutualExclusion'
    BY DEF TypeOK, CallsOK, MutualExclusion
  <2>5. NoLeakedLock'
    BY DEF TypeOK, CallsOK, NoLeakedLock, MutualExclusion
  <2>6. StaleIsNotHeld'
    BY DEF TypeOK, CallsOK, StaleIsNotHeld
  <2> QED BY <2>1, <2>2, <2>3, <2>4, <2>5, <2>6
<1>2. ASSUME Tick
      PROVE  IInv'
  <2> USE <1>2 DEF Tick, calls, history
  <2>1. TypeOK'
    <3>1. DiskTypeOK'
      BY ZeroAge, NextAge, NullAssumption DEF TypeOK, RepoState, CallsOK
    <3>2. FilesTypeOK'
      BY NullAssumption DEF TypeOK, StaleIsNotHeld, AbsentIsEmpty, CallsOK, MutualExclusion
    <3>3. CallsTypeOK'
      BY DEF TypeOK, CallsOK
    <3> QED BY <3>1, <3>2, <3>3 DEF TypeOK
  <2>2. AbsentIsEmpty'
    BY DEF TypeOK, AbsentIsEmpty, CallsOK, MutualExclusion
  <2>3. CallsOK'
    BY DEF TypeOK, CallsOK
  <2>4. MutualExclusion'
    BY DEF TypeOK, CallsOK, MutualExclusion
  <2>5. NoLeakedLock'
    BY DEF TypeOK, CallsOK, NoLeakedLock, MutualExclusion
  <2>6. StaleIsNotHeld'
    BY DEF TypeOK, CallsOK, StaleIsNotHeld
  <2> QED BY <2>1, <2>2, <2>3, <2>4, <2>5, <2>6
<1>3. ASSUME NEW h \in Handler, CrashInSync(h)
      PROVE  IInv'
  <2> USE <1>3 DEF CrashInSync, Recreate, Restart, Caught
  <2>1. TypeOK'
    <3>1. DiskTypeOK'
      BY ZeroAge, NextAge, NullAssumption DEF TypeOK, RepoState, CallsOK
    <3>2. FilesTypeOK'
      BY NullAssumption DEF TypeOK, StaleIsNotHeld, AbsentIsEmpty, CallsOK, MutualExclusion
    <3>3. CallsTypeOK'
      BY DEF TypeOK, CallsOK
    <3> QED BY <3>1, <3>2, <3>3 DEF TypeOK
  <2>2. AbsentIsEmpty'
    BY DEF TypeOK, AbsentIsEmpty, CallsOK, MutualExclusion
  <2>3. CallsOK'
    BY DEF TypeOK, CallsOK
  <2>4. MutualExclusion'
    BY DEF TypeOK, CallsOK, MutualExclusion
  <2>5. NoLeakedLock'
    BY DEF TypeOK, CallsOK, NoLeakedLock, MutualExclusion
  <2>6. StaleIsNotHeld'
    BY DEF TypeOK, CallsOK, StaleIsNotHeld
  <2> QED BY <2>1, <2>2, <2>3, <2>4, <2>5, <2>6
<1>4. ASSUME UNCHANGED vars
      PROVE  IInv'
  <2> USE <1>4 DEF vars, disk, calls, history
  <2>1. TypeOK'
    <3>1. DiskTypeOK'
      BY ZeroAge, NextAge, NullAssumption DEF TypeOK, RepoState, CallsOK
    <3>2. FilesTypeOK'
      BY NullAssumption DEF TypeOK, StaleIsNotHeld, AbsentIsEmpty, CallsOK, MutualExclusion
    <3>3. CallsTypeOK'
      BY DEF TypeOK, CallsOK
    <3> QED BY <3>1, <3>2, <3>3 DEF TypeOK
  <2>2. AbsentIsEmpty'
    BY DEF TypeOK, AbsentIsEmpty, CallsOK, MutualExclusion
  <2>3. CallsOK'
    BY DEF TypeOK, CallsOK
  <2>4. MutualExclusion'
    BY DEF TypeOK, CallsOK, MutualExclusion
  <2>5. NoLeakedLock'
    BY DEF TypeOK, CallsOK, NoLeakedLock, MutualExclusion
  <2>6. StaleIsNotHeld'
    BY DEF TypeOK, CallsOK, StaleIsNotHeld
  <2> QED BY <2>1, <2>2, <2>3, <2>4, <2>5, <2>6
<1> QED
  BY <1>1, <1>2, <1>3, <1>4

-----------------------------------------------------------------------------
(* prepare's entry *)

(* What prune leaves: locked directories are untouched, meta.json is kept  *)
(* or lost, and a directory that is gone is empty.                         *)
PruneFacts(d, kept) ==
  /\ kept \subseteq Expired
  /\ d.dirs = dirs \ (Expired \ kept) /\ lockFile \subseteq d.dirs /\ kept \subseteq d.dirs
  /\ d.meta \in [Workspace -> Target \cup {NoMeta, TornMeta}]
  /\ d.repo \in [Workspace -> RepoState]
  /\ d.age \in [Workspace -> Ages]
  /\ \A w \in Workspace \ d.dirs : d.meta[w] = NoMeta /\ d.repo[w] = "none"
  /\ \A w \in Workspace : d.meta[w] \in {meta[w], NoMeta}
  /\ \A w \in Workspace \ kept : d.repo[w] = repo[w] \/ d.meta[w] = NoMeta
  /\ \A w \in lockFile : d.meta[w] = meta[w] /\ d.repo[w] = repo[w]

LEMMA Pruned ==
  ASSUME IInv, NEW kept \in SUBSET Expired,
         NEW left \in [kept -> UNION {Remains(w) : w \in kept}],
         \A w \in kept : left[w] \in Remains(w),
         NEW d, d = Prune(kept, left)
  PROVE  PruneFacts(d, kept)
<1> USE DEF IInv, TypeOK, DiskTypeOK, FilesTypeOK
<1>1. /\ d.dirs = dirs \ (Expired \ kept)
      /\ d.meta = [w \in Workspace |-> IF w \in Expired \ kept THEN NoMeta
                                       ELSE IF w \in kept THEN left[w].meta ELSE meta[w]]
      /\ d.repo = [w \in Workspace |-> IF w \in Expired \ kept THEN "none"
                                       ELSE IF w \in kept THEN left[w].repo ELSE repo[w]]
      /\ d.age = [w \in Workspace |-> IF w \in Expired THEN 0 ELSE age[w]]
  BY DEF Prune
<1>2. \A w \in kept : /\ left[w].meta \in {meta[w], NoMeta}
                      /\ left[w].repo \in {"none", "broken"}
  BY DEF Remains
<1>3. Expired \subseteq dirs /\ Expired \cap lockFile = {}
  BY DEF Expired
<1>4. d.dirs = dirs \ (Expired \ kept) /\ lockFile \subseteq d.dirs /\ kept \subseteq d.dirs
  BY <1>1, <1>3
<1>5. /\ d.meta \in [Workspace -> Target \cup {NoMeta, TornMeta}]
      /\ d.repo \in [Workspace -> RepoState]
      /\ d.age \in [Workspace -> Ages]
  BY <1>1, <1>2, <1>3, ZeroAge DEF RepoState
<1>6. \A w \in Workspace \ d.dirs : d.meta[w] = NoMeta /\ d.repo[w] = "none"
  BY <1>1, <1>3 DEF AbsentIsEmpty
<1>7. \A w \in Workspace : d.meta[w] \in {meta[w], NoMeta}
  BY <1>1, <1>2
<1>8. \A w \in lockFile : d.meta[w] = meta[w] /\ d.repo[w] = repo[w]
  BY <1>1, <1>3
<1>9. \A w \in Workspace \ kept : d.repo[w] = repo[w] \/ d.meta[w] = NoMeta
  BY <1>1
<1> QED
  BY <1>4, <1>5, <1>6, <1>7, <1>8, <1>9 DEF PruneFacts

(* prepare's entry prunes to some disk d and goes on from there. *)
EnteredFrom(h, kept, d) ==
  /\ meta' = d.meta /\ repo' = d.repo
  /\ torn' = (torn \cap d.dirs) \cup kept
  /\ revived' = revived \cap d.dirs
  /\ stale' = stale
  /\ Enter(h, d)

LEMMA Entry ==
  ASSUME IInv, NEW h \in Handler, PrepareEnter(h)
  PROVE  \E kept, d : PruneFacts(d, kept) /\ EnteredFrom(h, kept, d)
<1>1. PICK kept \in SUBSET Expired :
      \E left \in [kept -> UNION {Remains(w) : w \in kept}] :
        /\ \A w \in kept : left[w] \in Remains(w)
        /\ EnteredFrom(h, kept, Prune(kept, left))
  BY Zenon DEF PrepareEnter, EnteredFrom
<1>2. PICK left \in [kept -> UNION {Remains(w) : w \in kept}] :
        /\ \A w \in kept : left[w] \in Remains(w)
        /\ EnteredFrom(h, kept, Prune(kept, left))
  BY <1>1, Zenon
<1>3. PICK d : d = Prune(kept, left)
  OBVIOUS
<1>4. PruneFacts(d, kept)
  BY <1>2, <1>3, Pruned, ZenonT(30)
<1> QED
  BY <1>2, <1>3, <1>4, Zenon

LEMMA PrepareEnterIInv ==
  ASSUME IInv, NEW h \in Handler, PrepareEnter(h)
  PROVE  IInv'
<1>2. PICK kept, d : PruneFacts(d, kept) /\ EnteredFrom(h, kept, d)
  BY Entry
<1>4. /\ meta' = d.meta /\ repo' = d.repo
      /\ torn' = (torn \cap d.dirs) \cup kept
      /\ revived' = revived \cap d.dirs
      /\ stale' = stale
      /\ Enter(h, d)
  BY <1>2 DEF EnteredFrom
<1>5. /\ d.dirs \subseteq dirs /\ lockFile \subseteq d.dirs /\ kept \subseteq d.dirs
      /\ d.meta \in [Workspace -> Target \cup {NoMeta, TornMeta}]
      /\ d.repo \in [Workspace -> RepoState]
      /\ d.age \in [Workspace -> Ages]
      /\ \A w \in Workspace \ d.dirs : d.meta[w] = NoMeta /\ d.repo[w] = "none"
  BY <1>2 DEF PruneFacts
<1>6. pc[h] = "forge"
  BY DEF PrepareEnter
<1> USE DEF IInv, DiskTypeOK, FilesTypeOK, CallsTypeOK, Holds, Locked, Waiting
<1>7. CASE LimitReached(h, d)
  <2> USE <1>7 DEF LimitReached, Answer
  <2>1. TypeOK'
    <3>1. DiskTypeOK'
      BY <1>4, <1>5, ZeroAge DEF TypeOK
    <3>2. FilesTypeOK'
      BY <1>4, <1>5 DEF TypeOK
    <3>3. CallsTypeOK'
      BY <1>6 DEF TypeOK
    <3> QED BY <3>1, <3>2, <3>3 DEF TypeOK
  <2>2. AbsentIsEmpty'
    BY <1>4, <1>5 DEF AbsentIsEmpty
  <2>3. CallsOK'
    BY <1>6 DEF TypeOK, CallsOK
  <2>4. MutualExclusion'
    BY <1>6 DEF TypeOK, CallsOK, MutualExclusion
  <2>5. NoLeakedLock'
    BY <1>4, <1>6 DEF TypeOK, CallsOK, NoLeakedLock, MutualExclusion
  <2>6. StaleIsNotHeld'
    BY <1>4, <1>6 DEF TypeOK, CallsOK, StaleIsNotHeld
  <2> QED BY <2>1, <2>2, <2>3, <2>4, <2>5, <2>6
<1>8. ASSUME NEW w \in Workspace, Busy(h, d, w) PROVE IInv'
  <2> USE <1>8 DEF Busy, Answer
  <2>1. TypeOK'
    <3>1. DiskTypeOK'
      BY <1>4, <1>5, ZeroAge DEF TypeOK
    <3>2. FilesTypeOK'
      BY <1>4, <1>5 DEF TypeOK
    <3>3. CallsTypeOK'
      BY <1>6 DEF TypeOK
    <3> QED BY <3>1, <3>2, <3>3 DEF TypeOK
  <2>2. AbsentIsEmpty'
    BY <1>4, <1>5 DEF AbsentIsEmpty
  <2>3. CallsOK'
    BY <1>6 DEF TypeOK, CallsOK
  <2>4. MutualExclusion'
    BY <1>6 DEF TypeOK, CallsOK, MutualExclusion
  <2>5. NoLeakedLock'
    BY <1>4, <1>6 DEF TypeOK, CallsOK, NoLeakedLock, MutualExclusion
  <2>6. StaleIsNotHeld'
    BY <1>4, <1>6 DEF TypeOK, CallsOK, StaleIsNotHeld
  <2> QED BY <2>1, <2>2, <2>3, <2>4, <2>5, <2>6
<1>9. ASSUME NEW w \in Workspace, MetaRefuses(h, d, w) PROVE IInv'
  <2> USE <1>9 DEF MetaRefuses, Answer
  <2>1. TypeOK'
    <3>1. DiskTypeOK'
      BY <1>4, <1>5, ZeroAge DEF TypeOK
    <3>2. FilesTypeOK'
      BY <1>4, <1>5 DEF TypeOK
    <3>3. CallsTypeOK'
      BY <1>6 DEF TypeOK
    <3> QED BY <3>1, <3>2, <3>3 DEF TypeOK
  <2>2. AbsentIsEmpty'
    BY <1>4, <1>5 DEF AbsentIsEmpty
  <2>3. CallsOK'
    BY <1>6 DEF TypeOK, CallsOK
  <2>4. MutualExclusion'
    BY <1>6 DEF TypeOK, CallsOK, MutualExclusion
  <2>5. NoLeakedLock'
    BY <1>4, <1>6 DEF TypeOK, CallsOK, NoLeakedLock, MutualExclusion
  <2>6. StaleIsNotHeld'
    BY <1>4, <1>6 DEF TypeOK, CallsOK, StaleIsNotHeld
  <2> QED BY <2>1, <2>2, <2>3, <2>4, <2>5, <2>6
<1>10. ASSUME NEW w \in Workspace, EntersLock(h, d, w) PROVE IInv'
  <2> USE <1>10 DEF EntersLock, Await
  <2>1. TypeOK'
    <3>1. DiskTypeOK'
      BY <1>4, <1>5, ZeroAge DEF TypeOK
    <3>2. FilesTypeOK'
      BY <1>4, <1>5 DEF TypeOK
    <3>3. CallsTypeOK'
      BY <1>6 DEF TypeOK
    <3> QED BY <3>1, <3>2, <3>3 DEF TypeOK
  <2>2. AbsentIsEmpty'
    BY <1>4, <1>5 DEF AbsentIsEmpty
  <2>3. CallsOK'
    BY <1>6 DEF TypeOK, CallsOK
  <2>4. MutualExclusion'
    BY <1>6 DEF TypeOK, CallsOK, MutualExclusion
  <2>5. NoLeakedLock'
    BY <1>4, <1>6 DEF TypeOK, CallsOK, NoLeakedLock, MutualExclusion
  <2>6. StaleIsNotHeld'
    BY <1>4, <1>6 DEF TypeOK, CallsOK, StaleIsNotHeld
  <2> QED BY <2>1, <2>2, <2>3, <2>4, <2>5, <2>6
<1> QED
  BY <1>4, <1>7, <1>8, <1>9, <1>10 DEF Enter

LEMMA NextIInv == IInv /\ [Next]_vars => IInv'
<1> SUFFICES ASSUME IInv, [Next]_vars PROVE IInv'
  OBVIOUS
<1>1. ASSUME NEW h \in Handler, Receive(h) PROVE IInv'
  BY <1>1, ReceiveIInv
<1>2. ASSUME NEW h \in Handler, Progress(h) PROVE IInv'
  BY <1>2, ProgressIInv, PrepareEnterIInv
<1>3. CASE Crash \/ Tick \/ (\E h \in Handler : CrashInSync(h)) \/ UNCHANGED vars
  BY <1>3, EnvironmentIInv
<1> QED
  BY <1>1, <1>2, <1>3 DEF Next

-----------------------------------------------------------------------------
(* Safety of the directories *)

(* Every reachable state is well typed.                                    *)
THEOREM TypeCorrect == Spec => []TypeOK
<1>1. IInv => TypeOK
  BY DEF IInv
<1> QED
  BY InitIInv, NextIInv, <1>1, PTL DEF Spec

(* No two requests work inside one workspace, for any number of requests   *)
(* and workspaces, through prunes, failures, crashes and restarts.         *)
THEOREM Exclusion == Spec => []MutualExclusion
<1>1. IInv => MutualExclusion
  BY DEF IInv
<1> QED
  BY InitIInv, NextIInv, <1>1, PTL DEF Spec

(* A lock file nobody holds was left by a crash: every error path of every *)
(* operation unlocks.                                                      *)
THEOREM LocksAreGivenBack == Spec => []NoLeakedLock
<1>1. IInv => NoLeakedLock
  BY DEF IInv
<1> QED
  BY InitIInv, NextIInv, <1>1, PTL DEF Spec

(* A directory is removed only when it outlived its TTL unused.            *)
THEOREM RemovalIsSafe == Spec => RemovedOnlyWhenUnused
<1>1. ASSUME IInv, [Next]_vars,
             NEW w \in dirs \ dirs'
      PROVE  age[w] > TTL /\ w \notin lockFile /\ \A h \in Handler : ~Holds(h, w)
  <2>1. PICK h \in Handler : PrepareEnter(h)
    <3> USE <1>1 DEF Next, vars, disk
    <3>1. CASE Crash \/ Tick \/ UNCHANGED vars
      BY <3>1 DEF Crash, Tick
    <3>2. ASSUME NEW h \in Handler, Receive(h) PROVE FALSE
      BY <3>2 DEF Receive, ReceivePrepare, Operate, ReceiveSync
    <3>3. ASSUME NEW h \in Handler, CrashInSync(h) PROVE FALSE
      BY <3>3 DEF CrashInSync, Recreate
    <3>4. ASSUME NEW h \in Handler, Progress(h), ~PrepareEnter(h) PROVE FALSE
      BY <3>4 DEF Progress, ForgeFails, MirrorReady, CloneDone, CloneFails, PrepareDone,
                  PrepareFails, LeaveLock, SyncWindow, Release, Recreate
    <3> QED BY <3>1, <3>2, <3>3, <3>4
  <2>2. PICK kept, d : PruneFacts(d, kept) /\ EnteredFrom(h, kept, d)
    BY <1>1, <2>1, Entry
  <2>3. d.dirs \subseteq dirs'
    BY <2>2 DEF EnteredFrom, Enter, LimitReached, Busy, MetaRefuses, EntersLock
  <2>4. w \in Expired
    BY <1>1, <2>2, <2>3 DEF PruneFacts
  <2> QED
    BY <1>1, <2>4 DEF Expired, IInv, MutualExclusion, TypeOK, DiskTypeOK, FilesTypeOK
<1>2. IInv /\ [Next]_vars => [\A w \in dirs \ dirs' :
        age[w] > TTL /\ w \notin lockFile /\ \A h \in Handler : ~Holds(h, w)]_vars
  BY <1>1
<1> QED
  BY InitIInv, NextIInv, <1>2, PTL DEF Spec, RemovedOnlyWhenUnused

-----------------------------------------------------------------------------
(* The number of directories *)

Counted == dirs \ revived

LEMMA CountedIsFinite == ASSUME IInv PROVE IsFiniteSet(Counted) /\ IsFiniteSet(dirs)
BY CountAssumption, FS_Subset DEF IInv, TypeOK, DiskTypeOK, Counted

(* Only prepare's entry makes a directory that counts.                     *)
LEMMA OtherStepsCountNothing ==
  ASSUME IInv, [Next]_vars, ~\E h \in Handler : PrepareEnter(h)
  PROVE  Counted' = Counted
<1> USE DEF Counted, disk, history
<1>1. CASE Crash \/ Tick \/ UNCHANGED vars
  BY <1>1 DEF Crash, Tick, vars
<1>2. ASSUME NEW h \in Handler, Receive(h) PROVE Counted' = Counted
  BY <1>2 DEF Receive, ReceivePrepare, Operate, ReceiveSync
<1>3. ASSUME NEW h \in Handler, CrashInSync(h) PROVE Counted' = Counted
  BY <1>3 DEF CrashInSync, Recreate
<1>4. ASSUME NEW h \in Handler, Progress(h) PROVE Counted' = Counted
  BY <1>4 DEF Progress, ForgeFails, MirrorReady, CloneDone, CloneFails, PrepareDone,
              PrepareFails, LeaveLock, SyncWindow, Release, Recreate
<1> QED
  BY <1>1, <1>2, <1>3, <1>4 DEF Next

LEMMA EntryRespectsLimit ==
  ASSUME IInv, CountExceededOnlyByRevival, NEW h \in Handler, PrepareEnter(h)
  PROVE  CountExceededOnlyByRevival'
<1>1. PICK kept, d : PruneFacts(d, kept) /\ EnteredFrom(h, kept, d)
  BY Entry
<1>2. /\ revived' = revived \cap d.dirs
      /\ d.dirs \subseteq dirs
      /\ \A w \in Workspace \ d.dirs : d.meta[w] = NoMeta
  BY <1>1 DEF EnteredFrom, PruneFacts
<1>3. /\ IsFiniteSet(Counted) /\ IsFiniteSet(dirs) /\ Cardinality(Counted) <= MaxCount
  BY CountedIsFinite DEF CountExceededOnlyByRevival, Counted
<1>4. CASE dirs' \subseteq d.dirs
  <2>1. Counted' \subseteq Counted
    BY <1>2, <1>4 DEF Counted
  <2>2. Cardinality(Counted') <= Cardinality(Counted) /\ IsFiniteSet(Counted')
    BY <1>3, <2>1, FS_Subset
  <2>3. Cardinality(Counted') \in Nat /\ Cardinality(Counted) \in Nat
    BY <1>3, <2>2, FS_CardinalityType
  <2> QED
    BY <1>3, <2>2, <2>3, CountAssumption DEF CountExceededOnlyByRevival, Counted
<1>5. ASSUME NEW w \in Workspace, dirs' = d.dirs \cup {w}, ~Full(d)
      PROVE  CountExceededOnlyByRevival'
  <2>1. IsFiniteSet(d.dirs) /\ Cardinality(d.dirs) \in Nat
    BY <1>2, <1>3, FS_Subset, FS_CardinalityType
  <2>2. IsFiniteSet(dirs') /\ Cardinality(dirs') <= Cardinality(d.dirs) + 1
    <3>1. IsFiniteSet(d.dirs \cup {w}) /\ Cardinality(d.dirs \cup {w}) =
            IF w \in d.dirs THEN Cardinality(d.dirs) ELSE Cardinality(d.dirs) + 1
      BY <2>1, FS_AddElement
    <3>2. Cardinality(d.dirs \cup {w}) <= Cardinality(d.dirs) + 1
      BY <2>1, <3>1
    <3> QED BY <1>5, <3>1, <3>2
  <2>3. Cardinality(dirs') <= MaxCount
    BY <1>5, <2>1, <2>2, FS_CardinalityType, CountAssumption DEF Full
  <2>4. Counted' \subseteq dirs'
    BY DEF Counted
  <2>5. IsFiniteSet(Counted') /\ Cardinality(Counted') <= Cardinality(dirs')
    BY <2>2, <2>4, FS_Subset
  <2> QED
    BY <2>2, <2>3, <2>5, FS_CardinalityType, CountAssumption
    DEF CountExceededOnlyByRevival, Counted
<1>6. dirs' \subseteq d.dirs \/ \E w \in Workspace : dirs' = d.dirs \cup {w} /\ ~Full(d)
  <2>1. Enter(h, d)
    BY <1>1 DEF EnteredFrom
  <2>2. CASE LimitReached(h, d)
    BY <2>2 DEF LimitReached
  <2>3. ASSUME NEW w \in Workspace, Chosen(h, d, w),
               Busy(h, d, w) \/ MetaRefuses(h, d, w) \/ EntersLock(h, d, w)
        PROVE  dirs' \subseteq d.dirs \/ (dirs' = d.dirs \cup {w} /\ ~Full(d))
    <3>1. CASE Busy(h, d, w)
      BY <3>1 DEF Busy
    <3>2. CASE dirs' = d.dirs \cup {w}
      BY <1>2, <2>3, <3>2 DEF Chosen
    <3> QED
      BY <2>3, <3>1, <3>2 DEF MetaRefuses, EntersLock
  <2> QED
    BY <2>1, <2>2, <2>3 DEF Enter
<1> QED
  BY <1>4, <1>5, <1>6

(* Racing prepares never exceed the limit; only sync's re-creation of a    *)
(* pruned directory does.                                                  *)
THEOREM LimitIsKept == Spec => []CountExceededOnlyByRevival
<1>1. Init => CountExceededOnlyByRevival
  BY CountAssumption, FS_EmptySet DEF Init, CountExceededOnlyByRevival
<1>2. IInv /\ CountExceededOnlyByRevival /\ [Next]_vars => CountExceededOnlyByRevival'
  BY EntryRespectsLimit, OtherStepsCountNothing DEF CountExceededOnlyByRevival, Counted
<1> QED
  BY InitIInv, NextIInv, <1>1, <1>2, PTL DEF Spec

-----------------------------------------------------------------------------
(* What meta.json says *)

MetaInv == PrepareAgrees /\ PreparedIsCloned

LEMMA EntryKeepsMeta ==
  ASSUME IInv, MetaInv, NEW h \in Handler, PrepareEnter(h)
  PROVE  MetaInv'
<1> USE DEF MetaInv, IInv, TypeOK, CallsTypeOK, Locked, Holds
<1>1. PICK kept, d : PruneFacts(d, kept) /\ EnteredFrom(h, kept, d)
  BY Entry
<1>2. /\ meta' = d.meta /\ repo' = d.repo
      /\ torn' = (torn \cap d.dirs) \cup kept
      /\ \A w \in lockFile : meta'[w] = meta[w] /\ repo'[w] = repo[w]
      /\ \A w \in Workspace : meta'[w] \in {meta[w], NoMeta}
      /\ \A w \in Workspace \ kept : repo'[w] = repo[w] \/ meta'[w] = NoMeta
      /\ \A w \in Workspace \ d.dirs : meta'[w] = NoMeta
  BY <1>1 DEF EnteredFrom, PruneFacts
<1>3. PreparedIsCloned'
  BY <1>2, NullAssumption DEF PreparedIsCloned, Readable
<1>4. \A g \in Handler \ {h} : pc'[g] = pc[g] /\ ws'[g] = ws[g] /\ target'[g] = target[g]
  BY <1>1 DEF EnteredFrom, Enter, LimitReached, Busy, MetaRefuses, EntersLock, Answer, Await
<1>5. pc'[h] \in {"idle", "mirror"} /\ (pc'[h] = "mirror" => meta'[ws'[h]] \in {NoMeta, target'[h]})
  BY <1>1 DEF EnteredFrom, Enter, LimitReached, Busy, MetaRefuses, EntersLock, Answer, Await
<1>6. \A g \in Handler : pc[g] \in Locked => ws[g] \in lockFile
  BY DEF MutualExclusion, CallsOK
<1>7. PrepareAgrees'
  BY <1>2, <1>4, <1>5, <1>6 DEF PrepareAgrees
<1> QED
  BY <1>3, <1>7

LEMMA ProgressKeepsMeta ==
  ASSUME IInv, MetaInv, NEW h \in Handler, Progress(h), ~PrepareEnter(h)
  PROVE  MetaInv'
<1> USE DEF MetaInv, IInv, TypeOK, CallsTypeOK, DiskTypeOK, FilesTypeOK, Locked, Holds,
            Waiting, Readable, disk, history, RepoState
<1>1. CASE ForgeFails(h)
  <2>1. PrepareAgrees'
    BY <1>1 DEF ForgeFails, Answer, PrepareAgrees
  <2>2. PreparedIsCloned'
    BY <1>1 DEF ForgeFails, PreparedIsCloned
  <2> QED BY <2>1, <2>2
<1>2. CASE MirrorReady(h)
  <2>1. PrepareAgrees'
    BY <1>2 DEF MirrorReady, Await, PrepareAgrees
  <2>2. PreparedIsCloned'
    BY <1>2 DEF MirrorReady, PreparedIsCloned
  <2> QED BY <2>1, <2>2
<1>3. CASE CloneDone(h)
  <2>1. PrepareAgrees'
    BY <1>3 DEF CloneDone, Await, PrepareAgrees, MutualExclusion, CallsOK
  <2>2. PreparedIsCloned'
    BY <1>3 DEF CloneDone, PreparedIsCloned, CallsOK
  <2> QED BY <2>1, <2>2
<1>4. CASE CloneFails(h)
  <2>1. PrepareAgrees'
    BY <1>4 DEF CloneFails, Release, Answer, PrepareAgrees, MutualExclusion, CallsOK
  <2>2. PreparedIsCloned'
    BY <1>4 DEF CloneFails, Release, PreparedIsCloned, PrepareAgrees, CallsOK
  <2> QED BY <2>1, <2>2
<1>5. CASE PrepareDone(h)
  <2>1. PrepareAgrees'
    BY <1>5 DEF PrepareDone, Await, PrepareAgrees, MutualExclusion, CallsOK
  <2>2. PreparedIsCloned'
    BY <1>5 DEF PrepareDone, PreparedIsCloned, CallsOK
  <2> QED BY <2>1, <2>2
<1>6. CASE PrepareFails(h)
  <2>1. PrepareAgrees'
    BY <1>6 DEF PrepareFails, Release, Answer, PrepareAgrees
  <2>2. PreparedIsCloned'
    BY <1>6 DEF PrepareFails, Release, PreparedIsCloned
  <2> QED BY <2>1, <2>2
<1>7. CASE LeaveLock(h)
  <2>1. PrepareAgrees'
    BY <1>7 DEF LeaveLock, Release, Answer, PrepareAgrees
  <2>2. PreparedIsCloned'
    BY <1>7 DEF LeaveLock, Release, PreparedIsCloned
  <2> QED BY <2>1, <2>2
<1>8. CASE SyncWindow(h)
  <2>1. PrepareAgrees'
    BY <1>8 DEF SyncWindow, Recreate, Answer, Await, PrepareAgrees, MutualExclusion, CallsOK
  <2>2. PreparedIsCloned'
    BY <1>8 DEF SyncWindow, Recreate, PreparedIsCloned, CallsOK
  <2> QED BY <2>1, <2>2
<1> QED
  BY <1>1, <1>2, <1>3, <1>4, <1>5, <1>6, <1>7, <1>8 DEF Progress

LEMMA OthersKeepMeta ==
  ASSUME IInv, MetaInv,
         \/ \E h \in Handler : Receive(h) \/ CrashInSync(h)
         \/ Crash \/ Tick \/ UNCHANGED vars
  PROVE  MetaInv'
<1> USE DEF MetaInv, IInv, TypeOK, CallsTypeOK, DiskTypeOK, FilesTypeOK, Locked, Holds,
            Waiting, Readable, disk, history, RepoState
<1>1. ASSUME NEW h \in Handler, Receive(h) PROVE MetaInv'
  <2>1. /\ meta' = meta /\ repo' = repo /\ torn' = torn
        /\ \A g \in Handler \ {h} : pc'[g] = pc[g] /\ ws'[g] = ws[g] /\ target'[g] = target[g]
        /\ pc'[h] \in {"idle", "forge", "operate", "runinfo"}
    BY <1>1 DEF Receive, ReceivePrepare, Operate, ReceiveSync, Await, Answer
  <2> QED
    BY <2>1 DEF PrepareAgrees, PreparedIsCloned
<1>2. ASSUME NEW h \in Handler, CrashInSync(h) PROVE MetaInv'
  <2>1. PrepareAgrees'
    BY <1>2 DEF CrashInSync, Restart, PrepareAgrees
  <2>2. PreparedIsCloned'
    BY <1>2 DEF CrashInSync, Recreate, PreparedIsCloned, CallsOK
  <2> QED BY <2>1, <2>2
<1>3. CASE Crash
  <2>1. PrepareAgrees'
    BY <1>3 DEF Crash, Restart, PrepareAgrees
  <2>2. PICK cut \in SUBSET Caught({"clone"}), half \in SUBSET Caught({"checkout", "operate"}) :
          /\ repo' = [w \in Workspace |-> IF w \in cut THEN "partial" ELSE repo[w]]
          /\ meta' = [w \in Workspace |-> IF w \in half THEN TornMeta ELSE meta[w]]
    BY <1>3 DEF Crash
  <2>3. \A w \in cut : repo[w] = "none"
    BY DEF Caught, PrepareAgrees
  <2>4. torn' = torn
    BY <1>3 DEF Crash
  <2>5. PreparedIsCloned'
    BY <2>2, <2>3, <2>4, NullAssumption DEF PreparedIsCloned
  <2> QED BY <2>1, <2>5
<1>4. CASE Tick \/ UNCHANGED vars
  BY <1>4 DEF Tick, vars, calls, PrepareAgrees, PreparedIsCloned
<1> QED
  BY <1>1, <1>2, <1>3, <1>4

LEMMA NextMetaInv == IInv /\ MetaInv /\ [Next]_vars => MetaInv'
BY EntryKeepsMeta, ProgressKeepsMeta, OthersKeepMeta DEF Next

LEMMA InitMetaInv == Init => MetaInv
BY NullAssumption DEF Init, MetaInv, PrepareAgrees, PreparedIsCloned, Readable

(* A workspace whose meta.json parses has a complete clone, but for what a *)
(* failed removal left: prepare writes meta.json last, under the lock.     *)
THEOREM MetaIsWrittenLast == Spec => []PreparedIsCloned
<1>1. MetaInv => PreparedIsCloned
  BY DEF MetaInv
<1> QED
  BY InitIInv, InitMetaInv, NextIInv, NextMetaInv, <1>1, PTL DEF Spec

(* No interleaving of prepares retargets a workspace.                      *)
THEOREM TargetIsKept == Spec => TargetFixed
<1>1. ASSUME IInv, MetaInv, [Next]_vars, NEW w \in Workspace,
             meta[w] \in Target, meta'[w] \in Target
      PROVE  meta'[w] = meta[w]
  <2> USE <1>1 DEF vars, disk
  <2>1. CASE Tick \/ UNCHANGED vars
    BY <2>1 DEF Tick
  <2>2. CASE Crash
    BY <2>2, NullAssumption DEF Crash
  <2>3. ASSUME NEW h \in Handler, Receive(h) \/ CrashInSync(h) PROVE meta'[w] = meta[w]
    BY <2>3 DEF Receive, ReceivePrepare, Operate, ReceiveSync, CrashInSync, Recreate
  <2>4. ASSUME NEW h \in Handler, PrepareEnter(h) PROVE meta'[w] = meta[w]
    <3>1. PICK kept, d : PruneFacts(d, kept) /\ EnteredFrom(h, kept, d)
      BY <2>4, Entry
    <3> QED
      BY <3>1, NullAssumption DEF PruneFacts, EnteredFrom
  <2>5. ASSUME NEW h \in Handler, PrepareDone(h) PROVE meta'[w] = meta[w]
    BY <2>5, NullAssumption
    DEF PrepareDone, MetaInv, PrepareAgrees, IInv, TypeOK, DiskTypeOK
  <2>6. ASSUME NEW h \in Handler, Progress(h), ~PrepareEnter(h), ~PrepareDone(h)
        PROVE  meta'[w] = meta[w]
    BY <2>6 DEF Progress, ForgeFails, MirrorReady, CloneDone, CloneFails, PrepareFails,
                LeaveLock, SyncWindow, Recreate
  <2> QED
    BY <2>1, <2>2, <2>3, <2>4, <2>5, <2>6 DEF Next
<1>2. IInv /\ MetaInv /\ [Next]_vars =>
        [\A w \in Workspace :
           meta[w] \in Target /\ meta'[w] \in Target => meta'[w] = meta[w]]_vars
  BY <1>1
<1> QED
  BY InitIInv, InitMetaInv, NextIInv, NextMetaInv, <1>2, PTL DEF Spec, TargetFixed

-----------------------------------------------------------------------------
(* The lock files implement the abstract lock of LockService.              *)

LEMMA HeldIsHolds ==
  \A h \in Handler, w \in Workspace : <<h, w>> \in HeldLocks <=> Holds(h, w)
BY DEF HeldLocks

LEMMA FilesAreOfWorkspaces == IInv => lockFile \subseteq Workspace
BY DEF IInv, TypeOK, DiskTypeOK, FilesTypeOK

(* A step that leaves holders and lock files alone is a stutter.           *)
LEMMA Quiet ==
  ASSUME IInv,
         \A h \in Handler, w \in Workspace : Holds(h, w)' <=> Holds(h, w),
         lockFile' = lockFile
  PROVE  UNCHANGED Lock!locked
<1>1. HeldLocks' = HeldLocks
  BY DEF HeldLocks
<1>2. DeadLocks' = DeadLocks
  BY FilesAreOfWorkspaces DEF DeadLocks
<1> QED
  BY <1>1, <1>2 DEF Lock!locked

(* A lock file made by a handler without one takes a free lock.            *)
LEMMA Acquires ==
  ASSUME IInv, NEW h \in Handler, NEW w \in Workspace,
         w \notin lockFile, pc[h] \notin Locked,
         lockFile' = lockFile \cup {w},
         \A g \in Handler, v \in Workspace : Holds(g, v)' <=> Holds(g, v) \/ (g = h /\ v = w)
  PROVE  Lock!Acquire(h, w)
<1>1. \A g \in Handler : ~Holds(g, w)
  BY DEF IInv, MutualExclusion
<1>2. Lock!Free(w)
  BY <1>1, HeldIsHolds DEF Lock!Free, DeadLocks
<1>3. \A v \in Workspace : <<h, v>> \notin HeldLocks
  BY HeldIsHolds DEF Holds
<1>4. HeldLocks' = HeldLocks \cup {<<h, w>>}
  BY DEF HeldLocks
<1>5. DeadLocks' = DeadLocks
  BY <1>1, FilesAreOfWorkspaces DEF DeadLocks
<1> QED
  BY <1>2, <1>3, <1>4, <1>5 DEF Lock!Acquire

(* A lock file removed by the handler that leaves gives the lock back.     *)
LEMMA Releases ==
  ASSUME IInv, NEW h \in Handler, NEW w \in Workspace, Holds(h, w),
         lockFile' = lockFile \ {w},
         \A g \in Handler, v \in Workspace : Holds(g, v)' <=> Holds(g, v) /\ g # h
  PROVE  Lock!Release(h, w)
<1>1. <<h, w>> \in HeldLocks
  BY HeldIsHolds
<1>2. HeldLocks' = HeldLocks \ {<<h, w>>}
  BY DEF HeldLocks, Holds
<1>3. \A v \in lockFile \ {w} : Holds(h, v) <=> FALSE
  BY DEF Holds
<1>4. DeadLocks' = DeadLocks
  BY <1>3, FilesAreOfWorkspaces DEF DeadLocks
<1> QED
  BY <1>1, <1>2, <1>4 DEF Lock!Release

(* When the process dies, no lock file goes and the ones of its handlers   *)
(* stay, with those it was making.                                         *)
LEMMA Dies ==
  ASSUME IInv, NEW inside \in SUBSET (Workspace \ lockFile),
         lockFile' = lockFile \cup inside,
         \A g \in Handler, v \in Workspace : ~Holds(g, v)'
  PROVE  Lock!Die
<1>1. HeldLocks' = {}
  BY DEF HeldLocks
<1>2. \A w \in Workspace : w \in lockFile \/ \A g \in Handler : ~Holds(g, w)
  BY DEF IInv, MutualExclusion
<1>3. inside \in SUBSET {w \in Workspace : Lock!Free(w)}
  BY <1>2, HeldIsHolds DEF Lock!Free, DeadLocks
<1>4. DeadLocks' = lockFile'
  BY FilesAreOfWorkspaces DEF DeadLocks
<1>5. lockFile = DeadLocks \cup {w \in Workspace : \E h \in Handler : <<h, w>> \in HeldLocks}
  BY <1>2, FilesAreOfWorkspaces, HeldIsHolds DEF DeadLocks
<1>6. DeadLocks' = DeadLocks \cup inside
                   \cup {w \in Workspace : \E h \in Handler : <<h, w>> \in HeldLocks}
  BY <1>4, <1>5
<1> QED
  BY <1>1, <1>3, <1>6 DEF Lock!Die

-----------------------------------------------------------------------------
(* What the steps of a handler do to the holders *)

LEMMA AwaitHolds ==
  ASSUME IInv, NEW h \in Handler, NEW where, NEW w, Await(h, where, w)
  PROVE  \A g \in Handler, v \in Workspace :
           Holds(g, v)' <=> IF g = h THEN where \in Locked /\ w = v ELSE Holds(g, v)
BY DEF IInv, TypeOK, CallsTypeOK, Await, Holds

LEMMA AnswerHolds ==
  ASSUME IInv, NEW h \in Handler, Answer(h)
  PROVE  \A g \in Handler, v \in Workspace : Holds(g, v)' <=> Holds(g, v) /\ g # h
BY DEF IInv, TypeOK, CallsTypeOK, Answer, Holds, Locked

(* A handler outside every lock holds nothing. *)
LEMMA OutsideHolds ==
  ASSUME NEW h \in Handler, pc[h] \in {"idle", "forge", "runinfo", "download"}
  PROVE  pc[h] \notin Locked /\ \A v \in Workspace : ~Holds(h, v)
BY DEF Holds, Locked

LEMMA ReleaseReleases ==
  ASSUME IInv, NEW h \in Handler, pc[h] \in Locked, Release(h)
  PROVE  Lock!Release(h, ws[h])
<1>1. ws[h] \in Workspace /\ Holds(h, ws[h])
  BY DEF IInv, CallsOK, Holds
<1>2. Answer(h) /\ lockFile' = lockFile \ {ws[h]}
  BY DEF Release
<1> QED
  BY <1>1, <1>2, AnswerHolds, Releases

(* Receiving a request takes a lock or none. *)
LEMMA ReceiveLocks ==
  ASSUME IInv, NEW h \in Handler, Receive(h)
  PROVE  (\E w \in Workspace : Lock!Acquire(h, w)) \/ UNCHANGED Lock!locked
<1>1. pc[h] = "idle"
  BY DEF Receive, ReceivePrepare, Operate, ReceiveSync
<1>2. \A v \in Workspace : ~Holds(h, v)
  BY <1>1, OutsideHolds
<1>3. ASSUME NEW w \in Workspace \cup {NoWorkspace}, NEW t \in Target, ReceivePrepare(h, w, t)
      PROVE  UNCHANGED Lock!locked
  <2>1. Await(h, "forge", w) /\ lockFile' = lockFile
    BY <1>3 DEF ReceivePrepare, disk
  <2> QED
    BY <1>2, <2>1, AwaitHolds, Quiet DEF Locked
<1>4. ASSUME NEW w \in Workspace, ReceiveSync(h, w)
      PROVE  UNCHANGED Lock!locked
  <2>1. Await(h, "runinfo", w) /\ lockFile' = lockFile
    BY <1>4 DEF ReceiveSync, disk
  <2> QED
    BY <1>2, <2>1, AwaitHolds, Quiet DEF Locked
<1>5. ASSUME NEW w \in Workspace, Operate(h, w)
      PROVE  Lock!Acquire(h, w) \/ UNCHANGED Lock!locked
  <2>1. CASE w \in lockFile
    <3>1. Answer(h) /\ lockFile' = lockFile
      BY <1>5, <2>1 DEF Operate, disk
    <3> QED
      BY <1>2, <3>1, AnswerHolds, Quiet
  <2>2. CASE w \notin lockFile
    <3>1. Await(h, "operate", w) /\ lockFile' = lockFile \cup {w}
      BY <1>5, <2>2 DEF Operate
    <3>2. \A g \in Handler, v \in Workspace : Holds(g, v)' <=> Holds(g, v) \/ (g = h /\ v = w)
      BY <1>2, <3>1, AwaitHolds DEF Locked
    <3> QED
      BY <1>1, <2>2, <3>1, <3>2, OutsideHolds, Acquires
  <2> QED BY <2>1, <2>2
<1> QED
  BY <1>3, <1>4, <1>5 DEF Receive

(* The entry of prepare takes the lock of the workspace it chose or none:  *)
(* what it prunes is not locked.                                           *)
LEMMA EntryLocks ==
  ASSUME IInv, NEW h \in Handler, PrepareEnter(h)
  PROVE  (\E w \in Workspace : Lock!Acquire(h, w)) \/ UNCHANGED Lock!locked
<1>1. pc[h] = "forge" /\ \A v \in Workspace : ~Holds(h, v)
  BY OutsideHolds DEF PrepareEnter
<1>2. PICK kept, d : EnteredFrom(h, kept, d)
  BY Entry
<1>3. ASSUME Answer(h), lockFile' = lockFile
      PROVE  UNCHANGED Lock!locked
  BY <1>1, <1>3, AnswerHolds, Quiet
<1>4. ASSUME NEW w \in Workspace, EntersLock(h, d, w)
      PROVE  Lock!Acquire(h, w)
  <2>1. w \notin lockFile /\ Await(h, "mirror", w) /\ lockFile' = lockFile \cup {w}
    BY <1>4 DEF EntersLock
  <2>2. \A g \in Handler, v \in Workspace : Holds(g, v)' <=> Holds(g, v) \/ (g = h /\ v = w)
    BY <1>1, <2>1, AwaitHolds DEF Locked
  <2> QED
    BY <1>1, <2>1, <2>2, OutsideHolds, Acquires
<1> QED
  BY <1>2, <1>3, <1>4 DEF EnteredFrom, Enter, LimitReached, Busy, MetaRefuses

(* Every other step of a handler keeps its lock or gives it back. *)
LEMMA ProgressLocks ==
  ASSUME IInv, NEW h \in Handler, Progress(h), ~PrepareEnter(h)
  PROVE  (\E w \in Workspace : Lock!Release(h, w)) \/ UNCHANGED Lock!locked
<1>1. ASSUME NEW where \in Locked, pc[h] \in Locked, Await(h, where, ws[h]), lockFile' = lockFile
      PROVE  UNCHANGED Lock!locked
  <2>1. \A g \in Handler, v \in Workspace : Holds(g, v)' <=> Holds(g, v)
    BY <1>1, AwaitHolds DEF Holds
  <2> QED BY <1>1, <2>1, Quiet
<1>2. CASE MirrorReady(h) \/ CloneDone(h) \/ PrepareDone(h)
  BY <1>1, <1>2 DEF MirrorReady, CloneDone, PrepareDone, disk, Locked
<1>3. CASE CloneFails(h) \/ PrepareFails(h) \/ LeaveLock(h)
  <2>1. pc[h] \in Locked /\ Release(h)
    BY <1>3 DEF CloneFails, PrepareFails, LeaveLock, Locked
  <2>2. ws[h] \in Workspace
    BY <2>1 DEF IInv, CallsOK
  <2> QED BY <2>1, <2>2, ReleaseReleases
<1>4. CASE ForgeFails(h) \/ SyncWindow(h)
  <2>1. \A v \in Workspace : ~Holds(h, v)
    BY <1>4, OutsideHolds DEF ForgeFails, SyncWindow
  <2>2. lockFile' = lockFile
    BY <1>4 DEF ForgeFails, SyncWindow, disk
  <2>3. Answer(h) \/ Await(h, "download", ws[h])
    BY <1>4 DEF ForgeFails, SyncWindow
  <2>4. CASE Answer(h)
    BY <2>1, <2>2, <2>4, AnswerHolds, Quiet
  <2>5. CASE Await(h, "download", ws[h])
    BY <2>1, <2>2, <2>5, AwaitHolds, Quiet DEF Locked
  <2> QED BY <2>3, <2>4, <2>5
<1> QED
  BY <1>2, <1>3, <1>4 DEF Progress

(* A crash frees nothing; time changes nothing. *)
LEMMA EnvironmentLocks ==
  ASSUME IInv, Crash \/ Tick \/ (\E h \in Handler : CrashInSync(h)) \/ UNCHANGED vars
  PROVE  Lock!Die \/ UNCHANGED Lock!locked
<1>1. ASSUME Restart PROVE \A g \in Handler, v \in Workspace : ~Holds(g, v)'
  BY <1>1 DEF Restart, Holds, Locked
<1>2. CASE Crash
  <2>1. Restart /\ lockFile' = lockFile \cup {}
    BY <1>2 DEF Crash
  <2> QED BY <1>1, <2>1, Dies
<1>3. ASSUME NEW h \in Handler, CrashInSync(h) PROVE Lock!Die
  <2>1. Restart /\ lockFile' = lockFile \cup {ws[h]} /\ ws[h] \notin lockFile
    BY <1>3 DEF CrashInSync
  <2>2. {ws[h]} \in SUBSET (Workspace \ lockFile)
    BY <1>3, <2>1 DEF CrashInSync, IInv, CallsOK
  <2> QED BY <1>1, <2>1, <2>2, Dies
<1>4. CASE Tick \/ UNCHANGED vars
  <2>1. lockFile' = lockFile /\ pc' = pc /\ ws' = ws
    BY <1>4 DEF Tick, calls, vars, disk
  <2> QED BY <2>1, Quiet DEF Holds
<1> QED
  BY <1>2, <1>3, <1>4

-----------------------------------------------------------------------------
(* Lock files, made with O_EXCL and removed on every way out, implement    *)
(* the abstract lock whatever prune, artifact synchronisation, failures    *)
(* and crashes do around them (WorkspaceManager.lock).                     *)
THEOREM LockFilesImplementLock == Spec => ImplementsLock
<1>1. Init => Lock!Init
  BY DEF Init, Lock!Init, HeldLocks, DeadLocks, Holds, Locked
<1>2. IInv /\ [Next]_vars => [Lock!Next]_(Lock!locked)
  <2> SUFFICES ASSUME IInv, [Next]_vars PROVE Lock!Next \/ UNCHANGED Lock!locked
    OBVIOUS
  <2>1. ASSUME NEW h \in Handler, Receive(h) \/ Progress(h)
        PROVE  Lock!Next \/ UNCHANGED Lock!locked
    BY <2>1, ReceiveLocks, EntryLocks, ProgressLocks DEF Lock!Next
  <2>2. CASE Crash \/ Tick \/ (\E h \in Handler : CrashInSync(h)) \/ UNCHANGED vars
    BY <2>2, EnvironmentLocks DEF Lock!Next
  <2> QED BY <2>1, <2>2 DEF Next
<1> QED
  BY InitIInv, NextIInv, <1>1, <1>2, PTL DEF Spec, ImplementsLock, Lock!Spec
=============================================================================
