-------------------------- MODULE FileEdits_proofs --------------------------
(***************************************************************************)
(* Theorems about FileEdits and TextPatch: what edits leave of a work      *)
(* tree and where hunks go, for any tree, requests, texts and hunks.       *)
(***************************************************************************)
EXTENDS FileEdits, SequenceTheorems, WellFoundedInduction, TLAPS

-----------------------------------------------------------------------------
(* Numbers and loops *)

LEMMA LeastNumber ==
  ASSUME NEW T, T \subseteq Nat, T # {}
  PROVE  \E x \in T : \A y \in T : x <= y
<1> DEFINE R == OpToRel(<, Nat)
<1>1. \A x, y \in Nat : y < x => <<y, x>> \in R
  BY DEF OpToRel
<1>2. IsWellFoundedOn(R, Nat)
  BY NatLessThanWellFounded
<1> HIDE DEF R
<1>3. PICK x \in T : \A y \in T : ~(<<y, x>> \in R)
  BY <1>2, WFMin, Zenon
<1>4. \A y \in T : x \in Nat /\ y \in Nat /\ ~(y < x)
  BY <1>1, <1>3
<1>5. \A y \in T : x <= y
  BY <1>4
<1> QED
  BY <1>3, <1>5

(* What holds at the start of a loop and is kept by its steps holds at     *)
(* each.                                                                   *)
LEMMA Induction ==
  ASSUME NEW N \in Nat, NEW T, 0 \in T, \A n \in 0 .. N : n < N /\ n \in T => n + 1 \in T
  PROVE  \A n \in 0 .. N : n \in T
<1> DEFINE U == {n \in 0 .. N : n \notin T}
<1> SUFFICES ASSUME U # {} PROVE FALSE
  OBVIOUS
<1>1. U \subseteq Nat
  OBVIOUS
<1>2. PICK n \in U : \A m \in U : n <= m
  BY <1>1, LeastNumber
<1>3. n \in 0 .. N /\ n \notin T /\ n # 0
  BY <1>2
<1>4. n - 1 \in 0 .. N /\ n - 1 < N /\ n - 1 + 1 = n /\ ~(n <= n - 1)
  BY <1>3
<1>5. n - 1 \notin T
  BY <1>3, <1>4
<1>6. n - 1 \in U
  BY <1>4, <1>5
<1> QED
  BY <1>2, <1>4, <1>6

(* The states a loop goes through are a function of its passes. *)
LEMMA LoopExists ==
  ASSUME NEW N \in Nat, NEW S, NEW start \in S, NEW next \in [1 .. N -> [S -> S]]
  PROVE  \E g \in [0 .. N -> S] :
           g[0] = start /\ \A n \in 1 .. N : g[n] = next[n][g[n - 1]]
<1> DEFINE Upto(g, n) == g[0] = start /\ \A k \in 1 .. n : g[k] = next[k][g[k - 1]]
           T == {n \in 0 .. N : \E g \in [0 .. N -> S] : Upto(g, n)}
<1>1. 0 \in T
  <2> DEFINE g == [k \in 0 .. N |-> start]
  <2>1. g \in [0 .. N -> S] /\ g[0] = start
    OBVIOUS
  <2> HIDE DEF g
  <2>2. Upto(g, 0)
    BY <2>1
  <2> QED
    BY <2>1, <2>2
<1>2. ASSUME NEW n \in 0 .. N, n < N, n \in T PROVE n + 1 \in T
  <2>1. PICK g \in [0 .. N -> S] : Upto(g, n)
    BY <1>2
  <2> DEFINE h == [g EXCEPT ![n + 1] = next[n + 1][g[n]]]
  <2>2. n + 1 \in 1 .. N /\ n + 1 \in 0 .. N /\ n + 1 # 0 /\ n + 1 - 1 = n
    BY <1>2
  <2>3. next[n + 1][g[n]] \in S
    BY <2>2
  <2>4. h \in [0 .. N -> S] /\ h[n + 1] = next[n + 1][g[n]]
        /\ \A k \in 0 .. N : k # n + 1 => h[k] = g[k]
    BY <2>2, <2>3
  <2> HIDE DEF h
  <2>5. \A k \in 1 .. n + 1 : h[k] = next[k][h[k - 1]]
    <3> TAKE k \in 1 .. n + 1
    <3>1. k - 1 \in 0 .. N /\ k - 1 # n + 1 /\ (k = n + 1 \/ (k \in 1 .. n /\ k # n + 1 /\ k \in 0 .. N))
      BY <1>2
    <3>2. h[k - 1] = g[k - 1]
      BY <3>1, <2>4
    <3> QED
      BY <2>1, <2>2, <2>4, <3>1, <3>2
  <2>6. Upto(h, n + 1)
    BY <2>1, <2>2, <2>4, <2>5
  <2> QED
    BY <2>2, <2>4, <2>6
<1> HIDE DEF T
<1>3. \A n \in 0 .. N : n < N /\ n \in T => n + 1 \in T
  BY <1>2
<1>4. \A n \in 0 .. N : n \in T
  BY ONLY N \in Nat, <1>1, <1>3, Induction
<1>5. N \in T
  BY <1>4
<1> QED
  BY <1>5 DEF T

-----------------------------------------------------------------------------
(* Undoing from the snapshots *)

State == [file : Tree, dirs : SUBSET Path, ok : BOOLEAN]

LEMMA RestoreType ==
  ASSUME NEW s \in State, NEW p \in Path, before.file \in Tree, Dir \in [Path -> Path \cup {Top}]
  PROVE  Restore(s, p) \in State
BY DEF Restore, State, Parents, Tree

LEMMA RestoredByLoop ==
  ASSUME file \in Tree, dirs \subseteq Path, before.file \in Tree,
         NEW N \in Nat, Len(req.ops) = N, \A n \in 1 .. N : req.ops[n].path \in Path
  PROVE  \E g \in [0 .. N -> State] :
           /\ g[0] = [file |-> file, dirs |-> dirs, ok |-> TRUE]
           /\ \A n \in 1 .. N : g[n] = Restore(g[n - 1], req.ops[n].path)
           /\ Restored = g[N]
<1> DEFINE start == [file |-> file, dirs |-> dirs, ok |-> TRUE]
           next == [n \in 1 .. N |-> [s \in State |-> Restore(s, req.ops[n].path)]]
           after[n \in 0 .. Len(req.ops)] ==
             IF n = 0 THEN [file |-> file, dirs |-> dirs, ok |-> TRUE]
             ELSE Restore(after[n - 1], req.ops[n].path)
<1>1. start \in State
  BY DEF State
<1>2. next \in [1 .. N -> [State -> State]]
  BY RestoreType, TreeAssumption
<1>3. \A n \in 1 .. N, s \in State : next[n][s] = Restore(s, req.ops[n].path)
  OBVIOUS
<1> HIDE DEF next, start
<1>4. PICK g \in [0 .. N -> State] : g[0] = start /\ \A n \in 1 .. N : g[n] = next[n][g[n - 1]]
  <2>1. PICK A, a, f : A = State /\ a = start /\ f = next
    OBVIOUS
  <2>2. a \in A /\ f \in [1 .. N -> [A -> A]]
    BY <1>1, <1>2, <2>1
  <2>3. \E g \in [0 .. N -> A] : g[0] = a /\ \A n \in 1 .. N : g[n] = f[n][g[n - 1]]
    BY ONLY N \in Nat, <2>2, LoopExists
  <2> QED
    BY <2>1, <2>3
<1>5. \A n \in 1 .. N : g[n] = Restore(g[n - 1], req.ops[n].path)
  BY <1>3, <1>4
<1>6. g = [n \in 0 .. Len(req.ops) |->
             IF n = 0 THEN [file |-> file, dirs |-> dirs, ok |-> TRUE]
             ELSE Restore(g[n - 1], req.ops[n].path)]
  BY <1>4, <1>5 DEF start
<1>7. after = [n \in 0 .. Len(req.ops) |->
             IF n = 0 THEN [file |-> file, dirs |-> dirs, ok |-> TRUE]
             ELSE Restore(after[n - 1], req.ops[n].path)]
  BY <1>6
<1>8. Restored = after[Len(req.ops)]
  BY DEF Restored
<1> HIDE DEF after, start
<1>14. \A n \in 1 .. N : after[n] = Restore(after[n - 1], req.ops[n].path)
  <2> TAKE n \in 1 .. N
  <2>1. n \in 0 .. Len(req.ops) /\ n # 0
    OBVIOUS
  <2> DEFINE body(k) == IF k = 0 THEN [file |-> file, dirs |-> dirs, ok |-> TRUE]
                        ELSE Restore(after[k - 1], req.ops[k].path)
  <2>2. after = [k \in 0 .. Len(req.ops) |-> body(k)]
    BY <1>7
  <2>3. body(n) = Restore(after[n - 1], req.ops[n].path)
    BY <2>1
  <2> HIDE DEF body
  <2>4. after[n] = body(n)
    BY ONLY <2>1, <2>2
  <2> QED
    BY <2>3, <2>4
<1> DEFINE T == {n \in 0 .. N : after[n] = g[n]}
<1>9. 0 \in T
  BY <1>4, <1>7 DEF start
<1>10. ASSUME NEW n \in 0 .. N, n < N, n \in T PROVE n + 1 \in T
  <2>1. n + 1 \in 1 .. N /\ n + 1 \in 0 .. N /\ n + 1 # 0 /\ n + 1 - 1 = n
    BY <1>10
  <2>2. after[n + 1] = Restore(after[n + 1 - 1], req.ops[n + 1].path)
    BY ONLY <2>1, <1>14
  <2>3. g[n + 1] = Restore(g[n], req.ops[n + 1].path)
    BY <2>1, <1>5
  <2> QED
    BY <1>10, <2>1, <2>2, <2>3
<1>11. \A n \in 0 .. N : n < N /\ n \in T => n + 1 \in T
  BY <1>10
<1> HIDE DEF T
<1>12. \A n \in 0 .. N : n \in T
  BY ONLY N \in Nat, <1>9, <1>11, Induction
<1>13. after[N] = g[N]
  BY <1>12 DEF T
<1> QED
  BY <1>4, <1>5, <1>8, <1>13 DEF start

(* Dir of a path is the root or a path of the root. *)
LEMMA DirOf ==
  \A p \in Path : /\ Parents(p) \subseteq Path /\ (Dir[p] = Top <=> Parents(p) = {})
                  /\ \A d : d \in Parents(p) <=> d = Dir[p] /\ d # Top
                  /\ Dir[p] # Top => Dir[p] \in Path /\ Dir[p] # p /\ Parents(p) = {Dir[p]}
BY TreeAssumption DEF Parents

(* One restoration keeps the shape of a tree: below a directory of before  *)
(* there never was a file in its place.                                    *)
RestoredWell(s) ==
  /\ s \in State /\ AllNormal(s.file) /\ IsTree(s.file, s.dirs)
  /\ \A p \in Path : s.file[p] \in {file[p], before.file[p]}

LEMMA RestoreKeeps ==
  ASSUME file \in Tree, before.file \in Tree, AllNormal(before.file),
         IsTree(file, dirs), IsTree(before.file, before.dirs),
         before.dirs \subseteq dirs, before.dirs \subseteq Path,
         NEW s, RestoredWell(s), NEW p \in Path
  PROVE  RestoredWell(Restore(s, p))
<1> DEFINE r == Restore(s, p)
           empty == {d \in {Dir[p]} : \A q \in Path : Dir[q] = d => q = p \/ s.file[q] = Absent}
<1> SUFFICES RestoredWell(r)
  OBVIOUS
<1>1. s \in State /\ s.file \in Tree /\ s.dirs \subseteq Path
  BY DEF RestoredWell, State
<1>2. CASE ~s.ok
  BY <1>2 DEF Restore
<1>3. CASE s.ok /\ before.file[p] = Absent
  <2>1. r = [s EXCEPT !.file[p] = Absent, !.dirs = @ \ empty]
    BY <1>3 DEF Restore
  <2> HIDE DEF r
  <2>2. /\ r \in State /\ r.dirs = s.dirs \ empty
        /\ r.file \in Tree /\ r.file[p] = Absent /\ \A q \in Path : q # p => r.file[q] = s.file[q]
    BY <1>1, <2>1, <1>3 DEF State, Tree
  <2>3. IsTree(r.file, r.dirs)
    <3> SUFFICES ASSUME NEW q \in Path, r.file[q] # Absent
                 PROVE  q \notin r.dirs /\ Parents(q) \subseteq r.dirs
      BY DEF IsTree
    <3>1. q # p /\ s.file[q] # Absent
      BY <2>2
    <3>2. q \notin s.dirs /\ Parents(q) \subseteq s.dirs
      BY <3>1 DEF RestoredWell, IsTree
    <3>3. \A d \in Parents(q) : d \notin empty
      BY <3>1, DirOf
    <3> QED
      BY <3>2, <3>3, <2>2
  <2>4. AllNormal(r.file) /\ \A q \in Path : r.file[q] \in {file[q], before.file[q]}
    BY <2>2, <1>3 DEF RestoredWell, AllNormal, IsText
  <2> QED
    BY <2>2, <2>3, <2>4 DEF RestoredWell
<1>4. CASE s.ok /\ before.file[p] # Absent /\ p \in s.dirs
  <2>1. r = [s EXCEPT !.ok = FALSE]
    BY <1>4 DEF Restore
  <2> HIDE DEF r
  <2>2. r \in State /\ r.file = s.file /\ r.dirs = s.dirs
    BY <1>1, <2>1 DEF State
  <2> QED
    BY <2>2 DEF RestoredWell
<1>5. CASE s.ok /\ before.file[p] # Absent /\ p \notin s.dirs
  <2>1. r = [s EXCEPT !.file[p] = before.file[p], !.dirs = @ \cup Parents(p)]
    BY <1>5 DEF Restore
  <2>2. before.file[p] \in Content /\ Parents(p) \subseteq Path
    BY DirOf DEF Tree
  <2> HIDE DEF r
  <2>3. /\ r \in State /\ r.dirs = s.dirs \cup Parents(p)
        /\ r.file \in Tree /\ r.file[p] = before.file[p]
        /\ \A q \in Path : q # p => r.file[q] = s.file[q]
    BY <1>1, <2>1, <2>2 DEF State, Tree
  <2>4. IsTree(r.file, r.dirs)
    <3> SUFFICES ASSUME NEW q \in Path, r.file[q] # Absent
                 PROVE  q \notin r.dirs /\ Parents(q) \subseteq r.dirs
      BY DEF IsTree
    <3>1. CASE q = p
      BY <3>1, <1>5, <2>3, DirOf
    <3>2. CASE q # p
      <4>1. s.file[q] # Absent /\ q \notin s.dirs /\ Parents(q) \subseteq s.dirs
        BY <3>2, <2>3 DEF RestoredWell, IsTree
      <4>2. \A d \in Parents(p) : d \in Path /\ d \in before.dirs
        BY <1>5, DirOf DEF IsTree
      <4>3. \A d \in Parents(p) : file[d] = Absent /\ before.file[d] = Absent
        BY <4>2 DEF IsTree
      <4>4. \A d \in Parents(p) : s.file[d] = Absent
        BY <4>2, <4>3 DEF RestoredWell
      <4> QED
        BY <4>1, <4>4, <2>3
    <3> QED
      BY <3>1, <3>2
  <2>5. AllNormal(r.file) /\ \A q \in Path : r.file[q] \in {file[q], before.file[q]}
    BY <2>3 DEF RestoredWell, AllNormal
  <2> QED
    BY <2>3, <2>4, <2>5 DEF RestoredWell
<1> QED
  BY <1>2, <1>3, <1>4, <1>5

(* When no directory is where a file was, the first n restorations put the *)
(* first n targets back, and what directories are left over are those of   *)
(* later ones.                                                             *)
PutBack(s, n) ==
  /\ s.ok
  /\ \A i \in 1 .. n : s.file[req.ops[i].path] = before.file[req.ops[i].path]
  /\ \A p \in Path \ Targets : s.file[p] = before.file[p]
  /\ \A d \in s.dirs \ before.dirs :
       \E i \in 1 .. Len(req.ops) : i > n /\ Dir[req.ops[i].path] = d
  /\ \A p \in Path : before.file[p] # Absent => p \notin s.dirs

LEMMA RestorePutsBack ==
  ASSUME before.file \in Tree, IsTree(before.file, before.dirs), before.dirs \subseteq Path,
         Len(req.ops) \in Nat, Targets = {req.ops[i].path : i \in 1 .. Len(req.ops)},
         Targets \subseteq Path,
         NEW s \in State, NEW n \in 0 .. Len(req.ops), n < Len(req.ops), PutBack(s, n)
  PROVE  PutBack(Restore(s, req.ops[n + 1].path), n + 1)
<1> DEFINE p == req.ops[n + 1].path
           r == Restore(s, p)
           empty == {d \in {Dir[p]} : \A q \in Path : Dir[q] = d => q = p \/ s.file[q] = Absent}
<1> SUFFICES PutBack(r, n + 1)
  OBVIOUS
<1>1. n + 1 \in 1 .. Len(req.ops) /\ p \in Targets /\ p \in Path /\ s.ok
  BY DEF PutBack
<1>2. \A i \in 1 .. Len(req.ops) : req.ops[i].path \in Targets /\ req.ops[i].path \in Path
  OBVIOUS
<1>3. \A i \in 1 .. n + 1 : i \in 1 .. n \/ i = n + 1
  OBVIOUS
<1>4. \A i \in 1 .. Len(req.ops) : i > n => i = n + 1 \/ i > n + 1
  OBVIOUS
<1> HIDE DEF p
<1>5. ASSUME r.file[p] = before.file[p],
             \A q \in Path : q # p => r.file[q] = s.file[q],
             r.ok,
             \A d \in r.dirs \ before.dirs : d \in s.dirs,
             Dir[p] \in r.dirs \ before.dirs =>
               \E i \in 1 .. Len(req.ops) : i > n + 1 /\ Dir[req.ops[i].path] = Dir[p],
             \A q \in Path : before.file[q] # Absent => q \notin r.dirs
      PROVE  PutBack(r, n + 1)
  <2> HIDE DEF r
  <2>1. \A i \in 1 .. n + 1 : r.file[req.ops[i].path] = before.file[req.ops[i].path]
    <3> TAKE i \in 1 .. n + 1
    <3>1. i \in 1 .. Len(req.ops)
      OBVIOUS
    <3>2. CASE req.ops[i].path = p
      BY <3>2, <1>5
    <3>3. CASE req.ops[i].path # p
      <4>1. i \in 1 .. n
        BY <3>3, <1>3 DEF p
      <4> QED
        BY <4>1, <3>1, <3>3, <1>2, <1>5 DEF PutBack
    <3> QED
      BY <3>2, <3>3
  <2>2. \A q \in Path \ Targets : r.file[q] = before.file[q]
    BY <1>1, <1>5 DEF PutBack
  <2>3. ASSUME NEW d \in r.dirs \ before.dirs
        PROVE  \E i \in 1 .. Len(req.ops) : i > n + 1 /\ Dir[req.ops[i].path] = d
    <3>1. PICK i \in 1 .. Len(req.ops) : i > n /\ Dir[req.ops[i].path] = d
      BY <1>5 DEF PutBack
    <3>2. CASE d = Dir[p]
      BY <3>2, <1>5
    <3>3. CASE d # Dir[p]
      <4>1. i # n + 1
        BY <3>1, <3>3 DEF p
      <4> QED
        BY <3>1, <4>1, <1>4
    <3> QED
      BY <3>2, <3>3
  <2> QED
    BY <2>1, <2>2, <2>3, <1>5 DEF PutBack
<1>6. CASE before.file[p] = Absent
  <2>1. r = [s EXCEPT !.file[p] = Absent, !.dirs = @ \ empty]
    BY <1>1, <1>6 DEF Restore
  <2> HIDE DEF r, empty
  <2>2. /\ r.dirs = s.dirs \ empty /\ r.ok
        /\ r.file[p] = Absent /\ \A q \in Path : q # p => r.file[q] = s.file[q]
    BY <1>1, <2>1 DEF State, Tree
  <2>3. ASSUME Dir[p] \in r.dirs \ before.dirs
        PROVE  \E i \in 1 .. Len(req.ops) : i > n + 1 /\ Dir[req.ops[i].path] = Dir[p]
    <3>1. Dir[p] \in s.dirs /\ Dir[p] \notin empty /\ Dir[p] # Top
      BY <2>2, <2>3, TreeAssumption DEF State
    <3>2. PICK q \in Path : Dir[q] = Dir[p] /\ q # p /\ s.file[q] # Absent
      BY <3>1 DEF empty
    <3>3. before.file[q] = Absent
      BY <3>1, <3>2, <2>3, DirOf DEF IsTree
    <3>4. q \in Targets
      BY <3>2, <3>3 DEF PutBack
    <3>5. PICK i \in 1 .. Len(req.ops) : q = req.ops[i].path
      BY <3>4
    <3>6. i \notin 1 .. n
      BY <3>2, <3>3, <3>5 DEF PutBack
    <3>7. i # n + 1
      BY <3>2, <3>5 DEF p
    <3>8. i > n
      BY <3>6
    <3> QED
      BY <3>2, <3>5, <3>7, <3>8, <1>4
  <2>4. \A q \in Path : before.file[q] # Absent => q \notin r.dirs
    BY <2>2 DEF PutBack
  <2> QED
    BY <1>5, <1>6, <2>2, <2>3, <2>4
<1>7. CASE before.file[p] # Absent
  <2>1. p \notin s.dirs
    BY <1>1, <1>7 DEF PutBack
  <2>2. r = [s EXCEPT !.file[p] = before.file[p], !.dirs = @ \cup Parents(p)]
    BY <1>1, <1>7, <2>1 DEF Restore
  <2> HIDE DEF r
  <2>3. /\ r.dirs = s.dirs \cup Parents(p) /\ r.ok
        /\ r.file[p] = before.file[p] /\ \A q \in Path : q # p => r.file[q] = s.file[q]
    BY <1>1, <2>2 DEF State, Tree
  <2>4. Parents(p) \subseteq before.dirs
    BY <1>1, <1>7 DEF IsTree
  <2>5. Dir[p] = Top \/ Dir[p] \in before.dirs
    BY <1>1, <2>4, DirOf
  <2>6. Top \notin s.dirs
    BY TreeAssumption DEF State
  <2>7. \A q \in Path : before.file[q] # Absent => q \notin r.dirs
    BY <2>3, <2>4 DEF PutBack, IsTree
  <2> QED
    BY <1>5, <2>3, <2>4, <2>5, <2>6, <2>7
<1> QED
  BY <1>6, <1>7

-----------------------------------------------------------------------------
(* Texts *)

LEMMA JoinIsNormal ==
  ASSUME NEW lines \in Seq(Line), NEW ends \in BOOLEAN
  PROVE  Join(lines, ends) \in Text /\ Normal(Join(lines, ends))
<1> DEFINE t == Join(lines, ends)
<1> SUFFICES t \in Text /\ Normal(t)
  OBVIOUS
<1>1. Len(lines) \in Nat /\ (lines = <<>> <=> Len(lines) = 0)
  BY LenProperties, EmptySeq
<1>2. CASE ends
  <2>1. t = [lines |-> IF lines = <<>> THEN <<Blank>> ELSE lines, ends |-> TRUE, crlf |-> FALSE]
    BY <1>2 DEF Join
  <2>2. <<Blank>> \in Seq(Line) /\ <<Blank>> # <<>>
    BY BlankAssumption
  <2> HIDE DEF t
  <2>3. t \in Text /\ t.ends /\ ~t.crlf /\ t.lines # <<>>
    BY <2>1, <2>2 DEF Text
  <2> QED
    BY <2>3 DEF Normal
<1>3. CASE ~ends /\ lines # <<>> /\ Last(lines) = Blank
  <2>1. t = [lines |-> Front(lines), ends |-> Len(lines) > 1, crlf |-> FALSE]
    BY <1>3 DEF Join
  <2> DEFINE n == Len(lines) - 1
  <2>2. Len(lines) > 0 /\ n \in 0 .. Len(lines) /\ (n > 0 <=> Len(lines) > 1)
    BY <1>1, <1>3
  <2>20. Front(lines) = SubSeq(lines, 1, n)
    BY DEF Front
  <2> HIDE DEF n
  <2>21. SubSeq(lines, 1, n) \in Seq(Line) /\ Len(SubSeq(lines, 1, n)) = n
    BY <2>2, <1>1
  <2>3. Front(lines) \in Seq(Line) /\ Len(Front(lines)) = n
    BY <2>20, <2>21
  <2>4. (Front(lines) = <<>>) <=> ~(Len(lines) > 1)
    BY <2>2, <2>3, EmptySeq
  <2> HIDE DEF t
  <2>5. t.lines = Front(lines) /\ t.ends = (Len(lines) > 1) /\ ~t.crlf /\ t \in Text
    BY <2>1, <2>3 DEF Text
  <2> QED
    BY <2>4, <2>5 DEF Normal
<1>4. CASE ~ends /\ ~(lines # <<>> /\ Last(lines) = Blank)
  <2>1. t = [lines |-> lines, ends |-> FALSE, crlf |-> FALSE]
    BY <1>4 DEF Join
  <2> HIDE DEF t
  <2>2. t \in Text /\ t.lines = lines /\ ~t.ends /\ ~t.crlf
    BY <2>1 DEF Text
  <2> QED
    BY <2>2, <1>4 DEF Normal
<1> QED
  BY <1>2, <1>3, <1>4

LEMMA WithCrlfIs ==
  ASSUME NEW t \in Text, NEW crlf \in BOOLEAN
  PROVE  /\ WithCrlf(t, crlf) \in Text
         /\ WithCrlf(t, crlf).lines = t.lines /\ WithCrlf(t, crlf).ends = t.ends
         /\ WithCrlf(t, crlf).crlf <=> crlf /\ (t.ends \/ Len(t.lines) > 1)
         /\ Normal(t) => Normal(WithCrlf(t, crlf))
<1> DEFINE w == WithCrlf(t, crlf)
           there == crlf /\ (t.ends \/ Len(t.lines) > 1)
<1>1. t.lines \in Seq(Line) /\ t.ends \in BOOLEAN /\ there \in BOOLEAN
  BY DEF Text
<1>2. w = [t EXCEPT !.crlf = there]
  BY DEF WithCrlf
<1> HIDE DEF w, there
<1>3. w \in Text /\ w.lines = t.lines /\ w.ends = t.ends /\ w.crlf = there
  BY <1>1, <1>2 DEF Text
<1>4. there <=> crlf /\ (t.ends \/ Len(t.lines) > 1)
  BY DEF there
<1>5. Normal(t) => Normal(w)
  BY <1>3, <1>4 DEF Normal
<1> QED
  BY <1>3, <1>4, <1>5 DEF w

LEMMA SameText ==
  ASSUME NEW t \in Text, NEW u \in Text, t.lines = u.lines, t.ends = u.ends, t.crlf <=> u.crlf
  PROVE  t = u
BY DEF Text

(* Normalizing what was just normalized changes nothing.                   *)
LEMMA NormalizingSettles ==
  ASSUME NEW t \in Text, Normal(t), NEW mode \in {"preserve", "lf", "crlf"}, NEW crlf \in BOOLEAN
  PROVE  LET u == NormalizeLineEndings(t, mode, crlf)
         IN  u \in Text /\ Normal(u) /\ NormalizeLineEndings(t, mode, u.crlf) = u
<1> DEFINE u == NormalizeLineEndings(t, mode, crlf)
<1> SUFFICES u \in Text /\ Normal(u) /\ NormalizeLineEndings(t, mode, u.crlf) = u
  OBVIOUS
<1>1. CASE mode = "lf"
  BY <1>1, WithCrlfIs DEF NormalizeLineEndings
<1>2. CASE mode = "crlf"
  BY <1>2, WithCrlfIs DEF NormalizeLineEndings
<1>3. CASE mode = "preserve"
  <2>1. /\ u = IF crlf THEN WithCrlf(t, TRUE) ELSE t
        /\ NormalizeLineEndings(t, mode, u.crlf) = IF u.crlf THEN WithCrlf(t, TRUE) ELSE t
    BY <1>3 DEF NormalizeLineEndings
  <2> DEFINE w == WithCrlf(t, TRUE)
  <2>2. /\ w \in Text /\ Normal(w) /\ w.lines = t.lines /\ w.ends = t.ends
        /\ w.crlf <=> (t.ends \/ Len(t.lines) > 1)
    BY WithCrlfIs
  <2> HIDE DEF w
  <2>3. t.crlf => w.crlf
    BY <2>2 DEF Normal
  <2>4. t.crlf \/ ~w.crlf => w = t
    BY <2>2, <2>3, SameText
  <2> QED
    BY <2>1, <2>2, <2>4 DEF w
<1> QED
  BY <1>1, <1>2, <1>3

-----------------------------------------------------------------------------
(* Hunks *)

LEMMA SmallestOf ==
  ASSUME NEW S, S \subseteq Nat, S # {}
  PROVE  Min(S) \in S /\ \A y \in S : Min(S) <= y
<1>1. \E x \in S : \A y \in S : x <= y
  BY LeastNumber
<1> QED
  BY <1>1 DEF Min

(* The cursor stays in the text.                                           *)
Search == {s \in [ok : BOOLEAN, lines : Seq(Line), cursor : Nat] : s.cursor <= Len(s.lines)}

LEMMA CandidateIs ==
  ASSUME NEW s \in Search, NEW h \in Hunk, Candidates(s, h) # {}
  PROVE  /\ Min(Candidates(s, h)) \in Candidates(s, h)
         /\ \A i \in Candidates(s, h) : Min(Candidates(s, h)) <= i
         /\ Min(Candidates(s, h)) \in Nat /\ Min(Candidates(s, h)) >= 1
         /\ Min(Candidates(s, h)) + Len(h.old) <= Len(s.lines) + 1
<1>1. /\ s.lines \in Seq(Line) /\ s.cursor \in Nat /\ s.cursor <= Len(s.lines)
      /\ h.old \in Seq(Line) /\ Len(s.lines) \in Nat /\ Len(h.old) \in Nat
      /\ h.old = <<>> => Len(h.old) = 0
  BY LenProperties, EmptySeq DEF Search, Hunk
<1>2. \A i \in Candidates(s, h) : i \in Nat /\ i >= 1 /\ i + Len(h.old) <= Len(s.lines) + 1
  <2>1. CASE h.old = <<>>
    BY <2>1, <1>1 DEF Candidates
  <2>2. CASE h.old # <<>>
    <3> TAKE i \in Candidates(s, h)
    <3>1. i \in Occurrences(s.lines, h.old, s.cursor) \/ i \in Occurrences(s.lines, h.old, 0)
      BY <2>2 DEF Candidates
    <3>2. \/ i \in s.cursor + 1 .. Len(s.lines) + 1 - Len(h.old)
          \/ i \in 0 + 1 .. Len(s.lines) + 1 - Len(h.old)
      BY <3>1 DEF Occurrences
    <3> DEFINE m == Len(s.lines)
               k == Len(h.old)
               c == s.cursor
    <3>3. m \in Nat /\ k \in Nat /\ c \in Nat
      BY <1>1
    <3>4. i \in c + 1 .. m + 1 - k \/ i \in 0 + 1 .. m + 1 - k
      BY <3>2
    <3> HIDE DEF m, k, c
    <3>5. i \in Nat /\ i >= 1 /\ i + k <= m + 1
      BY <3>3, <3>4
    <3> QED
      BY <3>5 DEF m, k
  <2> QED
    BY <2>1, <2>2
<1>3. Candidates(s, h) \subseteq Nat
  BY <1>2
<1> QED
  BY <1>2, <1>3, SmallestOf

LEMMA ReplacedIs ==
  ASSUME NEW lines \in Seq(Line), NEW i \in Nat, i >= 1, NEW old \in Seq(Line), NEW new \in Seq(Line),
         i + Len(old) <= Len(lines) + 1
  PROVE  /\ Replaced(lines, i, old, new) \in Seq(Line)
         /\ Len(Replaced(lines, i, old, new)) >= i - 1 + Len(new)
<1>1. Len(lines) \in Nat /\ Len(old) \in Nat /\ Len(new) \in Nat
  BY LenProperties
<1> DEFINE a == SubSeq(lines, 1, i - 1)
           b == SubSeq(lines, i + Len(old), Len(lines))
<1>2. a \in Seq(Line) /\ Len(a) = i - 1 /\ b \in Seq(Line)
  BY <1>1
<1>3. Replaced(lines, i, old, new) = a \o new \o b
  BY DEF Replaced
<1> HIDE DEF a, b
<1>4. a \o new \in Seq(Line) /\ Len(a \o new) = i - 1 + Len(new)
  BY <1>2, ConcatProperties
<1>5. a \o new \o b \in Seq(Line) /\ Len(a \o new \o b) = Len(a \o new) + Len(b) /\ Len(b) \in Nat
  BY <1>2, <1>4, ConcatProperties, LenProperties
<1> QED
  BY <1>1, <1>3, <1>4, <1>5

LEMMA ApplyHunkType ==
  ASSUME NEW s \in Search, NEW h \in Hunk
  PROVE  ApplyHunk(s, h) \in Search
<1>1. CASE s.ok /\ Candidates(s, h) # {}
  <2> DEFINE at == Min(Candidates(s, h))
             r == Put(s, h, h.new)
  <2>1. /\ s.lines \in Seq(Line) /\ h.old \in Seq(Line) /\ h.new \in Seq(Line)
        /\ Len(h.new) \in Nat
    BY LenProperties DEF Search, Hunk
  <2>2. at \in Nat /\ at >= 1 /\ at + Len(h.old) <= Len(s.lines) + 1
    BY <1>1, CandidateIs
  <2>3. r = [ok |-> TRUE, lines |-> Replaced(s.lines, at, h.old, h.new), cursor |-> at - 1 + Len(h.new)]
    BY DEF Put
  <2> HIDE DEF at, r
  <2>4. /\ Replaced(s.lines, at, h.old, h.new) \in Seq(Line)
        /\ Len(Replaced(s.lines, at, h.old, h.new)) >= at - 1 + Len(h.new)
        /\ Len(Replaced(s.lines, at, h.old, h.new)) \in Nat
    BY <2>1, <2>2, ReplacedIs, LenProperties
  <2>5. at - 1 + Len(h.new) \in Nat /\ at - 1 + Len(h.new) <= Len(Replaced(s.lines, at, h.old, h.new))
    BY <2>1, <2>2, <2>4
  <2>6. r \in Search
    BY <2>3, <2>4, <2>5 DEF Search
  <2> QED
    BY <1>1, <2>6 DEF ApplyHunk, r
<1>2. CASE ~(s.ok /\ Candidates(s, h) # {})
  BY <1>2 DEF ApplyHunk, Search
<1> QED
  BY <1>1, <1>2

Runs(lines, hunks, g) ==
  /\ g \in [0 .. Len(hunks) -> Search]
  /\ g[0] = [ok |-> TRUE, lines |-> lines, cursor |-> 0]
  /\ \A n \in 1 .. Len(hunks) : g[n] = ApplyHunk(g[n - 1], hunks[n])
  /\ ApplyHunks(lines, hunks) = g[Len(hunks)]

LEMMA HunksByLoop ==
  ASSUME NEW lines, lines \in Seq(Line), NEW hunks, hunks \in Seq(Hunk),
         NEW N, N \in Nat, Len(hunks) = N
  PROVE  \E g : Runs(lines, hunks, g)
<1> DEFINE start == [ok |-> TRUE, lines |-> lines, cursor |-> 0]
           next == [n \in 1 .. N |-> [s \in Search |-> ApplyHunk(s, hunks[n])]]
           after[n \in 0 .. Len(hunks)] ==
             IF n = 0 THEN [ok |-> TRUE, lines |-> lines, cursor |-> 0]
             ELSE ApplyHunk(after[n - 1], hunks[n])
<1>1. start \in Search
  BY LenProperties DEF Search
<1>2. next \in [1 .. N -> [Search -> Search]]
  BY ApplyHunkType, ElementOfSeq
<1>3. \A n \in 1 .. N, s \in Search : next[n][s] = ApplyHunk(s, hunks[n])
  OBVIOUS
<1> HIDE DEF next, start
<1>4. PICK g \in [0 .. N -> Search] : g[0] = start /\ \A n \in 1 .. N : g[n] = next[n][g[n - 1]]
  <2>1. PICK A, a, f : A = Search /\ a = start /\ f = next
    OBVIOUS
  <2>2. a \in A /\ f \in [1 .. N -> [A -> A]]
    BY <1>1, <1>2, <2>1
  <2>3. \E g \in [0 .. N -> A] : g[0] = a /\ \A n \in 1 .. N : g[n] = f[n][g[n - 1]]
    BY ONLY N \in Nat, <2>2, LoopExists
  <2> QED
    BY <2>1, <2>3
<1>5. \A n \in 1 .. N : g[n] = ApplyHunk(g[n - 1], hunks[n])
  BY <1>3, <1>4
<1>6. g = [n \in 0 .. Len(hunks) |->
             IF n = 0 THEN [ok |-> TRUE, lines |-> lines, cursor |-> 0]
             ELSE ApplyHunk(g[n - 1], hunks[n])]
  BY <1>4, <1>5 DEF start
<1>7. after = [n \in 0 .. Len(hunks) |->
             IF n = 0 THEN [ok |-> TRUE, lines |-> lines, cursor |-> 0]
             ELSE ApplyHunk(after[n - 1], hunks[n])]
  BY <1>6
<1>8. ApplyHunks(lines, hunks) = after[Len(hunks)]
  BY DEF ApplyHunks
<1> HIDE DEF after, start
<1>9. \A n \in 1 .. N : after[n] = ApplyHunk(after[n - 1], hunks[n])
  <2> TAKE n \in 1 .. N
  <2>1. n \in 0 .. Len(hunks) /\ n # 0
    OBVIOUS
  <2> DEFINE body(k) == IF k = 0 THEN [ok |-> TRUE, lines |-> lines, cursor |-> 0]
                        ELSE ApplyHunk(after[k - 1], hunks[k])
  <2>2. after = [k \in 0 .. Len(hunks) |-> body(k)]
    BY <1>7
  <2>3. body(n) = ApplyHunk(after[n - 1], hunks[n])
    BY <2>1
  <2> HIDE DEF body
  <2>4. after[n] = body(n)
    BY ONLY <2>1, <2>2
  <2> QED
    BY <2>3, <2>4
<1> DEFINE T == {n \in 0 .. N : after[n] = g[n]}
<1>10. 0 \in T
  BY <1>4, <1>7 DEF start
<1>11. ASSUME NEW n \in 0 .. N, n < N, n \in T PROVE n + 1 \in T
  <2>1. n + 1 \in 1 .. N /\ n + 1 \in 0 .. N /\ n + 1 # 0 /\ n + 1 - 1 = n
    BY <1>11
  <2>2. after[n + 1] = ApplyHunk(after[n + 1 - 1], hunks[n + 1])
    BY ONLY <2>1, <1>9
  <2>3. g[n + 1] = ApplyHunk(g[n], hunks[n + 1])
    BY <2>1, <1>5
  <2> QED
    BY <1>11, <2>1, <2>2, <2>3
<1>12. \A n \in 0 .. N : n < N /\ n \in T => n + 1 \in T
  BY <1>11
<1> HIDE DEF T
<1>13. \A n \in 0 .. N : n \in T
  BY ONLY N \in Nat, <1>10, <1>12, Induction
<1>14. after[N] = g[N]
  BY <1>13 DEF T
<1> QED
  BY <1>4, <1>5, <1>8, <1>14 DEF start, Runs

-----------------------------------------------------------------------------
(* Where a hunk goes in the text as it was *)

(* What lies behind what is settled, u, is the rest of lines from F on.    *)
WithRest(u, lines, F) == u \o SubSeq(lines, F, Len(lines))

LEMMA RestLen ==
  \A lines \in Seq(Line), u \in Seq(Line) : \A F \in 1 .. Len(lines) + 1 :
    LET L == WithRest(u, lines, F)
    IN  /\ L \in Seq(Line) /\ Len(L) = Len(u) + Len(lines) + 1 - F
        /\ \A i \in 1 .. Len(u) : L[i] = u[i]
        /\ \A i \in Len(u) + 1 .. Len(L) : L[i] = lines[i - Len(u) + F - 1]
<1> TAKE lines \in Seq(Line), u \in Seq(Line)
<1> TAKE F \in 1 .. Len(lines) + 1
<1> DEFINE L == WithRest(u, lines, F)
<1> DEFINE m == Len(lines)
           c == Len(u)
           t == SubSeq(lines, F, m)
<1>1. m \in Nat /\ c \in Nat /\ F \in Nat
  BY LenProperties
<1>2. t \in Seq(Line) /\ Len(t) = m + 1 - F /\ \A k \in 1 .. m + 1 - F : t[k] = lines[F + k - 1]
  BY <1>1
<1>3. L = u \o t
  BY DEF WithRest
<1> HIDE DEF t, L
<1>4. /\ L \in Seq(Line) /\ Len(L) = c + Len(t)
      /\ \A i \in 1 .. c + Len(t) : L[i] = IF i <= c THEN u[i] ELSE t[i - c]
  BY <1>2, <1>3, ConcatProperties
<1> HIDE DEF m, c
<1>5. \A i \in 1 .. c : L[i] = u[i]
  BY <1>1, <1>2, <1>4
<1>6. ASSUME NEW i \in c + 1 .. Len(L) PROVE L[i] = lines[i - c + F - 1]
  <2>1. i \in 1 .. c + Len(t) /\ ~(i <= c) /\ i - c \in 1 .. m + 1 - F /\ F + (i - c) - 1 = i - c + F - 1
    BY <1>1, <1>2, <1>4
  <2>2. L[i] = t[i - c]
    BY <1>4, <2>1
  <2> QED
    BY <1>2, <2>1, <2>2
<1>7. Len(L) = c + m + 1 - F
  BY <1>1, <1>2, <1>4
<1> QED
  BY <1>4, <1>5, <1>6, <1>7 DEF m, c, L

LEMMA SliceIs ==
  ASSUME NEW s, s \in Seq(Line), NEW a, a \in Nat, a >= 1, NEW b, b \in Nat, b <= Len(s), a <= b + 1
  PROVE  /\ SubSeq(s, a, b) \in Seq(Line) /\ Len(SubSeq(s, a, b)) = b + 1 - a
         /\ \A k \in 1 .. b + 1 - a : SubSeq(s, a, b)[k] = s[a + k - 1]
<1>1. Len(s) \in Nat
  BY LenProperties
<1> QED
  BY <1>1

(* A piece of the rest is a piece of lines.                                *)
LEMMA SliceOfRest ==
  \A lines \in Seq(Line), u \in Seq(Line) : \A F \in 1 .. Len(lines) + 1 :
    \A k \in Nat, j \in F .. Len(lines) + 1 : j <= k + 1 /\ k <= Len(lines) =>
      SubSeq(WithRest(u, lines, F), j - F + Len(u) + 1, k - F + Len(u) + 1) = SubSeq(lines, j, k)
<1> TAKE lines \in Seq(Line), u \in Seq(Line)
<1> TAKE F \in 1 .. Len(lines) + 1
<1> TAKE k \in Nat, j \in F .. Len(lines) + 1
<1> HAVE j <= k + 1 /\ k <= Len(lines)
<1> DEFINE L == WithRest(u, lines, F)
           m == Len(lines)
           c == Len(u)
           a == j - F + c + 1
           b == k - F + c + 1
<1> HIDE DEF L
<1>1. m \in Nat /\ c \in Nat /\ F \in Nat /\ j \in Nat /\ F >= 1 /\ j >= F
  BY LenProperties
<1>20. /\ L \in Seq(Line) /\ Len(L) = c + m + 1 - F /\ \A i \in 1 .. c : L[i] = u[i]
       /\ \A i \in c + 1 .. Len(L) : L[i] = lines[i - c + F - 1]
  BY RestLen DEF L
<1> HIDE DEF m, c
<1>2. L \in Seq(Line) /\ Len(L) = c + m + 1 - F /\ \A i \in c + 1 .. Len(L) : L[i] = lines[i - c + F - 1]
  BY <1>20
<1>3. /\ a \in Nat /\ a >= 1 /\ b \in Nat /\ b <= Len(L) /\ a <= b + 1 /\ b + 1 - a = k + 1 - j
      /\ j >= 1 /\ k <= m
  BY <1>1, <1>2 DEF m
<1>4. \A i \in 1 .. k + 1 - j : /\ a + i - 1 \in c + 1 .. Len(L)
                                /\ (a + i - 1) - c + F - 1 = j + i - 1
  BY <1>1, <1>2, <1>3
<1> HIDE DEF a, b
<1>5. /\ SubSeq(L, a, b) \in Seq(Line) /\ Len(SubSeq(L, a, b)) = k + 1 - j
      /\ \A i \in 1 .. k + 1 - j : SubSeq(L, a, b)[i] = L[a + i - 1]
  <2> DEFINE n == k + 1 - j
  <2>1. n = b + 1 - a
    BY <1>3
  <2> HIDE DEF n
  <2>2. /\ SubSeq(L, a, b) \in Seq(Line) /\ Len(SubSeq(L, a, b)) = n
        /\ \A i \in 1 .. n : SubSeq(L, a, b)[i] = L[a + i - 1]
    BY <2>1, <1>2, <1>3, SliceIs
  <2> QED
    BY <2>2 DEF n
<1>6. /\ SubSeq(lines, j, k) \in Seq(Line) /\ Len(SubSeq(lines, j, k)) = k + 1 - j
      /\ \A i \in 1 .. k + 1 - j : SubSeq(lines, j, k)[i] = lines[j + i - 1]
  BY <1>1, <1>3, SliceIs DEF m
<1>7. \A i \in 1 .. k + 1 - j : SubSeq(L, a, b)[i] = SubSeq(lines, j, k)[i]
  BY <1>2, <1>4, <1>5, <1>6
<1>8. SubSeq(L, a, b) = SubSeq(lines, j, k)
  BY <1>5, <1>6, <1>7, SeqEqual
<1> QED
  BY <1>8 DEF a, b, c, L

(* What lies above it is u and the lines in between.                       *)
LEMMA HeadOfRest ==
  ASSUME NEW lines, lines \in Seq(Line), NEW u, u \in Seq(Line),
         NEW F, F \in 1 .. Len(lines) + 1,
         NEW j, j \in F .. Len(lines) + 1
  PROVE  SubSeq(WithRest(u, lines, F), 1, j - F + Len(u)) = u \o SubSeq(lines, F, j - 1)
<1> DEFINE L == WithRest(u, lines, F)
           m == Len(lines)
           c == Len(u)
           b == j - F + c
           v == SubSeq(lines, F, j - 1)
<1> HIDE DEF L
<1>1. m \in Nat /\ c \in Nat /\ F \in Nat /\ j \in Nat /\ F >= 1 /\ j >= F /\ j <= m + 1
  BY LenProperties
<1>2. /\ L \in Seq(Line) /\ Len(L) = c + m + 1 - F /\ \A i \in 1 .. c : L[i] = u[i]
      /\ \A i \in c + 1 .. Len(L) : L[i] = lines[i - c + F - 1]
  BY RestLen DEF L
<1>3. v \in Seq(Line) /\ Len(v) = j - F /\ \A k \in 1 .. j - F : v[k] = lines[F + k - 1]
  <2>1. j - 1 \in Nat /\ F <= j - 1 + 1 /\ j - 1 <= Len(lines) /\ (j - 1) + 1 - F = j - F
    BY <1>1
  <2> QED
    BY <2>1, <1>1, SliceIs
<1> HIDE DEF m, c, v
<1>4. b \in Nat /\ b <= Len(L) /\ 1 <= b + 1 /\ b + 1 - 1 = b
  BY <1>1, <1>2
<1>5. /\ SubSeq(L, 1, b) \in Seq(Line) /\ Len(SubSeq(L, 1, b)) = b
      /\ \A i \in 1 .. b : SubSeq(L, 1, b)[i] = L[i]
  <2>1. \A i \in 1 .. b : 1 + i - 1 = i
    OBVIOUS
  <2> HIDE DEF b
  <2> QED
    BY <1>2, <1>4, <2>1, SliceIs
<1>6. /\ u \o v \in Seq(Line) /\ Len(u \o v) = b
      /\ \A i \in 1 .. b : (u \o v)[i] = IF i <= c THEN u[i] ELSE v[i - c]
  <2>1. c + Len(v) = b
    BY <1>1, <1>3
  <2>2. /\ u \o v \in Seq(Line) /\ Len(u \o v) = c + Len(v)
        /\ \A i \in 1 .. c + Len(v) : (u \o v)[i] = IF i <= c THEN u[i] ELSE v[i - c]
    BY <1>3, ConcatProperties DEF c
  <2> HIDE DEF b
  <2> QED
    BY <2>1, <2>2
<1>7. ASSUME NEW i \in 1 .. b PROVE L[i] = (u \o v)[i]
  <2>1. CASE i <= c
    BY <2>1, <1>1, <1>2, <1>6
  <2>2. CASE ~(i <= c)
    <3>1. i \in c + 1 .. Len(L) /\ i - c \in 1 .. j - F /\ F + (i - c) - 1 = i - c + F - 1
      BY <1>1, <1>4, <2>2
    <3> QED
      BY <1>2, <1>3, <1>6, <2>2, <3>1
  <2> QED
    BY <2>1, <2>2
<1> HIDE DEF b
<1>8. SubSeq(L, 1, b) = u \o v
  BY <1>5, <1>6, <1>7, SeqEqual
<1> QED
  BY <1>8 DEF b, c, v, L

(* A hunk has a place B below F, and what lies above F is settled as u.    *)
HasPlace(lines, h, s, u, F, B) ==
  /\ lines \in Seq(Line) /\ h \in Hunk /\ s \in Search /\ u \in Seq(Line)
  /\ F \in 1 .. Len(lines) + 1
  /\ s.ok /\ s.cursor = Len(u) /\ s.lines = WithRest(u, lines, F)
  /\ B \in F .. Len(lines) + 1 /\ B + Len(h.old) <= Len(lines) + 1
  /\ h.old # <<>> => SubSeq(lines, B, B + Len(h.old) - 1) = h.old

(* r is what becomes of s when h is put at j.                              *)
PutAt(lines, h, r, u, F, j) ==
  /\ j + Len(h.old) <= Len(lines) + 1
  /\ IF h.old = <<>> THEN j = F ELSE SubSeq(lines, j, j + Len(h.old) - 1) = h.old
  /\ r.ok
  /\ u \o SubSeq(lines, F, j - 1) \o h.new \in Seq(Line)
  /\ r.cursor = Len(u \o SubSeq(lines, F, j - 1) \o h.new)
  /\ r.lines = WithRest(u \o SubSeq(lines, F, j - 1) \o h.new, lines, j + Len(h.old))

(* It is put where its lines are first found from F on.                    *)
LEMMA HunkPlaced ==
  ASSUME NEW lines, NEW h, NEW s, NEW u, NEW F, NEW B, HasPlace(lines, h, s, u, F, B)
  PROVE  \E j \in Nat : F <= j /\ j <= B /\ PutAt(lines, h, ApplyHunk(s, h), u, F, j)
<1> USE DEF HasPlace
<1>30. /\ lines \in Seq(Line) /\ h \in Hunk /\ s \in Search /\ u \in Seq(Line)
       /\ F \in 1 .. Len(lines) + 1
       /\ s.ok /\ s.cursor = Len(u) /\ s.lines = WithRest(u, lines, F)
       /\ B \in F .. Len(lines) + 1 /\ B + Len(h.old) <= Len(lines) + 1
       /\ h.old # <<>> => SubSeq(lines, B, B + Len(h.old) - 1) = h.old
  OBVIOUS
<1> HIDE DEF HasPlace
<1> USE <1>30
<1> DEFINE L == WithRest(u, lines, F)
           c == Len(u)
           n == Len(lines)
           m == Len(h.old)
           C == Candidates(s, h)
           i == Min(C)
           j == i - c + F - 1
<1>1. /\ n \in Nat /\ c \in Nat /\ m \in Nat /\ F \in Nat /\ F >= 1 /\ B \in Nat /\ B >= F
      /\ F <= n + 1 /\ B <= n + 1 /\ B + m <= n + 1
      /\ h.old \in Seq(Line) /\ h.new \in Seq(Line) /\ (h.old = <<>> <=> m = 0)
  BY LenProperties, EmptySeq DEF Hunk
<1>2. L \in Seq(Line) /\ Len(L) = c + n + 1 - F
  BY RestLen
<1>3. s.cursor = c /\ s.lines = L
  OBVIOUS
<1>20. /\ \A k \in Nat, x \in F .. n + 1 : x <= k + 1 /\ k <= n =>
            SubSeq(L, x - F + c + 1, k - F + c + 1) = SubSeq(lines, x, k)
       /\ \A x \in F .. n + 1 : SubSeq(L, 1, x - F + c) = u \o SubSeq(lines, F, x - 1)
  <2>1. \A k \in Nat, x \in F .. n + 1 : x <= k + 1 /\ k <= n =>
            SubSeq(L, x - F + c + 1, k - F + c + 1) = SubSeq(lines, x, k)
    BY SliceOfRest
  <2>2. ASSUME NEW x \in F .. n + 1
        PROVE  SubSeq(L, 1, x - F + c) = u \o SubSeq(lines, F, x - 1)
    BY <2>2, HeadOfRest
  <2> HIDE DEF L, c, n
  <2> QED
    BY <2>1, <2>2
<1>21. /\ \A x \in Candidates(s, h) : Min(Candidates(s, h)) <= x
       /\ Candidates(s, h) # {} =>
            /\ Min(Candidates(s, h)) \in Candidates(s, h)
            /\ Min(Candidates(s, h)) \in Nat /\ Min(Candidates(s, h)) >= 1
            /\ Min(Candidates(s, h)) + m <= Len(L) + 1
  BY <1>3, CandidateIs
<1>22. C = IF h.old = <<>> THEN {c + 1}
           ELSE IF Occurrences(L, h.old, c) # {} THEN Occurrences(L, h.old, c)
           ELSE Occurrences(L, h.old, 0)
  BY <1>3 DEF Candidates
<1>23. Occurrences(L, h.old, c) = {x \in c + 1 .. Len(L) + 1 - m : SubSeq(L, x, x + m - 1) = h.old}
  BY DEF Occurrences
<1>24. h.old # <<>> => SubSeq(lines, B, B + m - 1) = h.old
  OBVIOUS
<1>25. \A a, b \in Nat : a >= 1 /\ b <= n /\ a <= b + 1 =>
         SubSeq(lines, a, b) \in Seq(Line) /\ Len(SubSeq(lines, a, b)) = b + 1 - a
  BY SliceIs
<1>26. \A v, w \in Seq(Line) : v \o w \in Seq(Line) /\ Len(v \o w) = Len(v) + Len(w)
                             /\ Len(v) \in Nat
  BY ConcatProperties, LenProperties
<1>27. \A v : WithRest(v, lines, j + m) = v \o SubSeq(lines, j + m, n)
  BY DEF WithRest
<1> DEFINE q == Len(L)
<1> HIDE DEF c, n, m, L
<1>28. q \in Nat /\ q = c + n + 1 - F
  BY <1>1, <1>2
<1> HIDE DEF q
<1>4. ASSUME NEW x \in F .. n + 1, x + m <= n + 1, m > 0
      PROVE  /\ x - F + c + 1 \in c + 1 .. Len(L) + 1 - m
             /\ SubSeq(L, x - F + c + 1, x - F + c + 1 + m - 1) = SubSeq(lines, x, x + m - 1)
  <2> DEFINE k == x + m - 1
  <2>1. x \in Nat /\ k \in Nat /\ x <= k + 1 /\ k <= n /\ k - F + c + 1 = x - F + c + 1 + m - 1
    BY <1>1, <1>4
  <2> HIDE DEF k
  <2>2. SubSeq(L, x - F + c + 1, k - F + c + 1) = SubSeq(lines, x, k)
    BY <1>20, <1>4, <2>1
  <2>3. x - F + c + 1 \in c + 1 .. q + 1 - m
    BY <1>1, <1>28, <1>4, <2>1
  <2> QED
    BY <2>1, <2>2, <2>3 DEF k, q
<1>5. /\ C # {} /\ (h.old = <<>> => C = {c + 1})
      /\ h.old # <<>> => C = Occurrences(L, h.old, c) /\ B - F + c + 1 \in C
  <2>1. CASE h.old = <<>>
    BY <2>1, <1>22
  <2>2. CASE h.old # <<>>
    <3> DEFINE y == B - F + c + 1
    <3>2. B \in F .. n + 1 /\ m > 0
      BY <1>1, <2>2
    <3>3. y \in c + 1 .. Len(L) + 1 - m /\ SubSeq(L, y, y + m - 1) = h.old
      BY <1>1, <1>4, <1>24, <2>2, <3>2
    <3> HIDE DEF y
    <3>4. y \in Occurrences(L, h.old, c)
      BY <1>23, <3>3
    <3>1. B - F + c + 1 \in Occurrences(L, h.old, c)
      BY <3>4 DEF y
    <3> QED
      BY <2>2, <3>1, <1>22
  <2> QED
    BY <2>1, <2>2
<1>6. /\ i \in C /\ \A x \in C : i <= x
      /\ i \in Nat /\ i >= 1 /\ i + m <= Len(L) + 1
  BY <1>5, <1>21
<1>7. Put(s, h, h.new) = [ok |-> TRUE, lines |-> Replaced(L, i, h.old, h.new),
                          cursor |-> i - 1 + Len(h.new)]
  BY <1>3 DEF Put
<1>8. ApplyHunk(s, h) = Put(s, h, h.new)
  BY <1>5 DEF ApplyHunk
<1> HIDE DEF C, i
<1>29. i \in Nat /\ i >= 1 /\ i + m <= q + 1
  BY <1>6 DEF q
<1>9. i >= c + 1 /\ (h.old = <<>> => i = c + 1)
      /\ (h.old # <<>> => i <= B - F + c + 1 /\ SubSeq(L, i, i + m - 1) = h.old)
  <2>1. CASE h.old = <<>>
    BY <2>1, <1>1, <1>5, <1>6
  <2>2. CASE h.old # <<>>
    <3>1. i \in c + 1 .. q + 1 - m /\ SubSeq(L, i, i + m - 1) = h.old
      BY <2>2, <1>5, <1>6, <1>23 DEF q
    <3>2. i <= B - F + c + 1
      BY <2>2, <1>5, <1>6
    <3>3. i >= c + 1
      BY <3>1, <1>1, <1>28, <1>29
    <3> QED
      BY <2>2, <3>1, <3>2, <3>3
  <2> QED
    BY <2>1, <2>2
<1>10. /\ j \in F .. n + 1 /\ j \in Nat /\ j <= B /\ j + m <= n + 1
       /\ j - F + c + 1 = i /\ (h.old = <<>> => j = F)
  <2>1. j \in Int /\ j >= F /\ j - F + c + 1 = i /\ j + m <= n + 1
    BY <1>1, <1>9, <1>28, <1>29
  <2>2. j <= B
    <3>1. CASE h.old = <<>>
      BY <3>1, <1>1, <1>9, <1>29
    <3>2. CASE h.old # <<>>
      BY <3>2, <1>1, <1>9, <1>29
    <3> QED
      BY <3>1, <3>2
  <2>3. h.old = <<>> => j = F
    BY <1>1, <1>9, <1>29
  <2> HIDE DEF j
  <2>4. j \in Nat /\ j <= n + 1
    BY <1>1, <2>1
  <2> QED
    BY <1>1, <2>1, <2>2, <2>3, <2>4
<1> HIDE DEF j
<1>11. h.old # <<>> => SubSeq(lines, j, j + m - 1) = h.old
  <2> SUFFICES ASSUME h.old # <<>> PROVE SubSeq(lines, j, j + m - 1) = h.old
    OBVIOUS
  <2>1. m > 0
    BY <1>1
  <2>2. SubSeq(L, j - F + c + 1, j - F + c + 1 + m - 1) = SubSeq(lines, j, j + m - 1)
    BY <2>1, <1>4, <1>10
  <2> QED
    BY <2>2, <1>9, <1>10
<1> DEFINE v == u \o SubSeq(lines, F, j - 1)
<1>12. SubSeq(L, 1, i - 1) = v
  <2>1. i - 1 = j - F + c
    BY <1>1, <1>6, <1>10
  <2>2. SubSeq(L, 1, j - F + c) = v
    BY <1>10, <1>20
  <2> QED
    BY <2>1, <2>2
<1>13. SubSeq(L, i + m, Len(L)) = SubSeq(lines, j + m, n)
  <2> DEFINE x == j + m
  <2>1. /\ x \in F .. n + 1 /\ n \in Nat /\ x <= n + 1 /\ n <= n
        /\ x - F + c + 1 = i + m /\ n - F + c + 1 = q
    BY <1>1, <1>28, <1>29, <1>10
  <2> HIDE DEF x
  <2>2. SubSeq(L, x - F + c + 1, n - F + c + 1) = SubSeq(lines, x, n)
    BY <1>20, <2>1
  <2> QED
    BY <2>1, <2>2 DEF x, q
<1>14. SubSeq(lines, F, j - 1) \in Seq(Line) /\ Len(SubSeq(lines, F, j - 1)) = j - F
  <2> DEFINE x == j - 1
  <2>1. x \in Nat /\ x <= n /\ F <= x + 1 /\ x + 1 - F = j - F
    BY <1>1, <1>10
  <2> HIDE DEF x
  <2>2. SubSeq(lines, F, x) \in Seq(Line) /\ Len(SubSeq(lines, F, x)) = x + 1 - F
    BY <2>1, <1>1, <1>25
  <2> QED
    BY <2>1, <2>2 DEF x
<1>15. v \in Seq(Line) /\ Len(v) = c + (j - F)
  BY <1>14, <1>26 DEF c
<1> HIDE DEF v
<1>16. v \o h.new \in Seq(Line) /\ Len(v \o h.new) = Len(v) + Len(h.new)
  BY <1>1, <1>15, <1>26
<1>17. Len(v \o h.new) = i - 1 + Len(h.new)
  <2>1. Len(h.new) \in Nat
    BY <1>1, <1>26
  <2>2. Len(v) = i - 1
    BY <1>1, <1>10, <1>15, <1>29
  <2> QED
    BY <2>2, <1>16
<1>18. Replaced(L, i, h.old, h.new) = WithRest(v \o h.new, lines, j + m)
  BY <1>12, <1>13, <1>27 DEF Replaced, m
<1>19. /\ ApplyHunk(s, h).ok /\ ApplyHunk(s, h).cursor = Len(v \o h.new)
       /\ ApplyHunk(s, h).lines = WithRest(v \o h.new, lines, j + m)
  BY <1>7, <1>8, <1>17, <1>18
<1> QED
  <2>1. PutAt(lines, h, ApplyHunk(s, h), u, F, j)
    BY <1>10, <1>11, <1>16, <1>19 DEF v, n, m, PutAt
  <2>2. j \in Nat /\ F <= j /\ j <= B
    BY <1>1, <1>10
  <2> QED
    BY ONLY <2>1, <2>2

Builds(lines, hunks, at, u) ==
  /\ u = [k \in 0 .. Len(hunks) |-> u[k]]
  /\ u[0] = <<>>
  /\ \A k \in 1 .. Len(hunks) :
       u[k] = u[k - 1] \o SubSeq(lines, Free(hunks, at, k), at[k] - 1) \o hunks[k].new

LEMMA SplicedIs ==
  ASSUME NEW lines, NEW hunks, NEW at, NEW N, N \in Nat, Len(hunks) = N,
         NEW u, Builds(lines, hunks, at, u)
  PROVE  Spliced(lines, hunks, at) = WithRest(u[N], lines, Free(hunks, at, N + 1))
<1>30. /\ u = [k \in 0 .. N |-> u[k]] /\ u[0] = <<>>
       /\ \A k \in 1 .. N :
            u[k] = u[k - 1] \o SubSeq(lines, Free(hunks, at, k), at[k] - 1) \o hunks[k].new
  BY DEF Builds
<1> USE <1>30
<1> DEFINE upTo[k \in 0 .. Len(hunks)] ==
             IF k = 0 THEN <<>>
             ELSE upTo[k - 1] \o SubSeq(lines, Free(hunks, at, k), at[k] - 1) \o hunks[k].new
<1>1. u = [k \in 0 .. Len(hunks) |->
             IF k = 0 THEN <<>>
             ELSE u[k - 1] \o SubSeq(lines, Free(hunks, at, k), at[k] - 1) \o hunks[k].new]
  <2> DEFINE body(k) == IF k = 0 THEN <<>>
             ELSE u[k - 1] \o SubSeq(lines, Free(hunks, at, k), at[k] - 1) \o hunks[k].new
  <2>1. \A k \in 0 .. N : k # 0 => k \in 1 .. N
    OBVIOUS
  <2>2. \A k \in 0 .. N : u[k] = body(k)
    BY <2>1
  <2> HIDE DEF body
  <2>3. u = [k \in 0 .. N |-> body(k)]
    BY <2>2
  <2> QED
    BY <2>3 DEF body
<1>2. upTo = [k \in 0 .. Len(hunks) |->
             IF k = 0 THEN <<>>
             ELSE upTo[k - 1] \o SubSeq(lines, Free(hunks, at, k), at[k] - 1) \o hunks[k].new]
  BY <1>1
<1>3. Spliced(lines, hunks, at)
        = upTo[Len(hunks)] \o SubSeq(lines, Free(hunks, at, Len(hunks) + 1), Len(lines))
  BY DEF Spliced
<1> HIDE DEF upTo
<1>4. \A n \in 1 .. N :
        upTo[n] = upTo[n - 1] \o SubSeq(lines, Free(hunks, at, n), at[n] - 1) \o hunks[n].new
  <2> TAKE n \in 1 .. N
  <2>1. n \in 0 .. Len(hunks) /\ n # 0
    OBVIOUS
  <2> DEFINE body(k) == IF k = 0 THEN <<>>
             ELSE upTo[k - 1] \o SubSeq(lines, Free(hunks, at, k), at[k] - 1) \o hunks[k].new
  <2>2. upTo = [k \in 0 .. Len(hunks) |-> body(k)]
    BY <1>2
  <2>3. body(n) = upTo[n - 1] \o SubSeq(lines, Free(hunks, at, n), at[n] - 1) \o hunks[n].new
    BY <2>1
  <2> HIDE DEF body
  <2>4. upTo[n] = body(n)
    BY ONLY <2>1, <2>2
  <2> QED
    BY <2>3, <2>4
<1> DEFINE T == {n \in 0 .. N : upTo[n] = u[n]}
<1>5. 0 \in T
  BY <1>2
<1>6. ASSUME NEW n \in 0 .. N, n < N, n \in T PROVE n + 1 \in T
  <2>1. n + 1 \in 1 .. N /\ n + 1 \in 0 .. N /\ n + 1 - 1 = n
    BY <1>6
  <2> DEFINE m == n + 1
  <2> HIDE DEF m
  <2>2. m \in 1 .. N /\ m \in 0 .. N /\ m - 1 = n
    BY <2>1 DEF m
  <2>3. upTo[m] = upTo[n] \o SubSeq(lines, Free(hunks, at, m), at[m] - 1) \o hunks[m].new
    BY <2>2, <1>4
  <2>4. u[m] = u[n] \o SubSeq(lines, Free(hunks, at, m), at[m] - 1) \o hunks[m].new
    BY <2>2
  <2>5. m \in T
    BY <1>6, <2>2, <2>3, <2>4
  <2> QED
    BY <2>5 DEF m
<1>7. \A n \in 0 .. N : n < N /\ n \in T => n + 1 \in T
  BY <1>6
<1> HIDE DEF T
<1>8. \A n \in 0 .. N : n \in T
  BY ONLY N \in Nat, <1>5, <1>7, Induction
<1>9. upTo[N] = u[N]
  BY <1>8 DEF T
<1> QED
  BY <1>3, <1>9 DEF WithRest

(* A place for one hunk more: the places so far keep theirs.               *)
More(hunks, at, n, j, more) ==
  /\ more[n + 1] = j
  /\ \A k \in 1 .. n : more[k] = at[k]
  /\ \A k \in 1 .. n + 1 : Free(hunks, more, k) = Free(hunks, at, k)
  /\ Free(hunks, more, n + 2) = j + Len(hunks[n + 1].old)
  /\ \A lines : \A k \in 1 .. n : Fits(lines, hunks, at, k) => Fits(lines, hunks, more, k)

LEMMA FreeOfMore ==
  \A hunks, D : \A N \in Nat : \A at \in [1 .. N -> D] : \A n \in 0 .. N : \A j \in D :
    n < N => /\ [at EXCEPT ![n + 1] = j] \in [1 .. N -> D]
             /\ More(hunks, at, n, j, [at EXCEPT ![n + 1] = j])
<1> TAKE hunks, D
<1> TAKE N \in Nat
<1> TAKE at \in [1 .. N -> D]
<1> TAKE n \in 0 .. N
<1> TAKE j \in D
<1> HAVE n < N
<1> DEFINE more == [at EXCEPT ![n + 1] = j]
<1>1. n + 1 \in 1 .. N /\ n \in Nat
  OBVIOUS
<1>2. more \in [1 .. N -> D] /\ more[n + 1] = j /\ \A k \in 1 .. N : k # n + 1 => more[k] = at[k]
  BY <1>1
<1> HIDE DEF more
<1>3. \A k \in 1 .. n : more[k] = at[k]
  BY <1>2
<1>4. ASSUME NEW k \in 1 .. n + 1 PROVE Free(hunks, more, k) = Free(hunks, at, k)
  <2>1. k # 1 => k - 1 \in 1 .. n
    BY <1>1
  <2> QED
    BY <2>1, <1>3 DEF Free
<1>5. Free(hunks, more, n + 2) = j + Len(hunks[n + 1].old)
  <2>1. n + 2 # 1 /\ n + 2 - 1 = n + 1
    BY <1>1
  <2> QED
    BY <2>1, <1>2 DEF Free
<1>6. ASSUME NEW lines, NEW k \in 1 .. n, Fits(lines, hunks, at, k)
      PROVE  Fits(lines, hunks, more, k)
  <2>1. more[k] = at[k] /\ Free(hunks, more, k) = Free(hunks, at, k)
    BY <1>1, <1>3, <1>4
  <2> QED
    BY <2>1, <1>6 DEF Fits
<1> QED
  BY <1>2, <1>3, <1>4, <1>5, <1>6 DEF more, More

(* The first n hunks have places of their own, u is what was settled, and  *)
(* what is free begins no later than with the places b.                    *)
Placed(lines, hunks, b, n, s, at, u) ==
  /\ \A k \in 1 .. n : Fits(lines, hunks, at, k)
  /\ u[0] = <<>>
  /\ \A k \in 1 .. n :
       u[k] = u[k - 1] \o SubSeq(lines, Free(hunks, at, k), at[k] - 1) \o hunks[k].new
  /\ Free(hunks, at, n + 1) \in 1 .. Len(lines) + 1
  /\ Free(hunks, at, n + 1) <= Free(hunks, b, n + 1)
  /\ s.ok /\ s.cursor = Len(u[n])
  /\ s.lines = WithRest(u[n], lines, Free(hunks, at, n + 1))

LEMMA OneHunkMore ==
  ASSUME NEW lines, lines \in Seq(Line), NEW hunks, hunks \in Seq(Hunk),
         NEW N, N \in Nat, Len(hunks) = N,
         NEW b, b \in [1 .. N -> 1 .. Len(lines) + 1], \A k \in 1 .. N : Fits(lines, hunks, b, k),
         NEW n, n \in 0 .. N, n < N, NEW s, s \in Search,
         NEW at, at \in [1 .. N -> 1 .. Len(lines) + 1], NEW u, u \in [0 .. N -> Seq(Line)],
         Placed(lines, hunks, b, n, s, at, u)
  PROVE  \E at2 \in [1 .. N -> 1 .. Len(lines) + 1], u2 \in [0 .. N -> Seq(Line)] :
           Placed(lines, hunks, b, n + 1, ApplyHunk(s, hunks[n + 1]), at2, u2)
<1> DEFINE D == 1 .. Len(lines) + 1
           h == hunks[n + 1]
           F == Free(hunks, at, n + 1)
           B == b[n + 1]
           r == ApplyHunk(s, h)
           m == Len(h.old)
           L == Len(lines)
<1>1. n + 1 \in 1 .. N /\ n + 1 \in 0 .. N /\ n \in Nat /\ n + 2 # 1 /\ n + 2 - 1 = n + 1
      /\ n + 1 - 1 = n /\ n + 1 + 1 = n + 2
  OBVIOUS
<1>2. h \in Hunk /\ L \in Nat /\ m \in Nat /\ (h.old = <<>> => m = 0)
  <2>1. h \in Hunk
    BY <1>1, ElementOfSeq
  <2> HIDE DEF h
  <2> QED
    BY <2>1, LenProperties, EmptySeq DEF Hunk
<1>3. /\ F \in 1 .. Len(lines) + 1 /\ F <= Free(hunks, b, n + 1)
      /\ s.ok /\ s.cursor = Len(u[n]) /\ s.lines = WithRest(u[n], lines, F) /\ u[n] \in Seq(Line)
  BY DEF Placed
<1>4. /\ Free(hunks, b, n + 2) = B + Len(h.old) /\ Fits(lines, hunks, b, n + 1) /\ B \in D
  BY <1>1 DEF Free
<1>20. at \in [1 .. N -> D] /\ B \in 1 .. L + 1 /\ F \in 1 .. L + 1
  BY <1>3, <1>4
<1> HIDE DEF h, F, r, m, L, B
<1>5. /\ B >= F /\ B + m <= L + 1
      /\ h.old # <<>> => SubSeq(lines, B, B + Len(h.old) - 1) = h.old
  <2>1. IF h.old = <<>> THEN B = Free(hunks, b, n + 1)
        ELSE /\ B >= Free(hunks, b, n + 1)
             /\ B + m <= L + 1
             /\ SubSeq(lines, B, B + Len(h.old) - 1) = h.old
    BY <1>4 DEF Fits, h, m, L, B
  <2>2. Free(hunks, b, n + 1) \in Int
    <3>1. CASE n = 0
      BY <3>1 DEF Free
    <3>2. CASE n # 0
      <4>1. n \in 1 .. N /\ n + 1 # 1 /\ b[n] \in Nat
        BY <3>2
      <4>2. Len(hunks[n].old) \in Nat
        BY <4>1, ElementOfSeq, LenProperties DEF Hunk
      <4> QED
        BY <1>1, <4>1, <4>2 DEF Free
    <3> QED
      BY <3>1, <3>2
  <2>5. F \in Int /\ B \in Int /\ F <= Free(hunks, b, n + 1) /\ B <= L + 1 /\ L \in Int
    BY <1>2, <1>3, <1>20
  <2>3. CASE h.old = <<>>
    <3>1. m = 0 /\ B = Free(hunks, b, n + 1)
      BY <2>1, <2>3, <1>2
    <3> QED
      BY <3>1, <2>3, <2>5
  <2>4. CASE h.old # <<>>
    <3>1. B >= Free(hunks, b, n + 1) /\ B + m <= L + 1 /\ SubSeq(lines, B, B + Len(h.old) - 1) = h.old
      BY <2>1, <2>4
    <3>2. B >= F
      BY <3>1, <2>2, <2>5
    <3> QED
      BY <3>1, <3>2, Zenon
  <2> QED
    BY <2>3, <2>4
<1>6. PICK j \in Nat : F <= j /\ j <= B /\ PutAt(lines, h, r, u[n], F, j)
  <2>1. B \in F .. L + 1
    BY <1>2, <1>5, <1>20
  <2>2. HasPlace(lines, h, s, u[n], F, B)
    BY <2>1, <1>2, <1>3, <1>5 DEF HasPlace, L, m
  <2> QED
    BY <2>2, HunkPlaced DEF r
<1>21. /\ j + Len(h.old) <= Len(lines) + 1
       /\ IF h.old = <<>> THEN j = F ELSE SubSeq(lines, j, j + Len(h.old) - 1) = h.old
       /\ r.ok
       /\ u[n] \o SubSeq(lines, F, j - 1) \o h.new \in Seq(Line)
       /\ r.cursor = Len(u[n] \o SubSeq(lines, F, j - 1) \o h.new)
       /\ r.lines = WithRest(u[n] \o SubSeq(lines, F, j - 1) \o h.new, lines, j + Len(h.old))
  BY <1>6 DEF PutAt
<1> DEFINE v == u[n] \o SubSeq(lines, F, j - 1) \o h.new
           at2 == [at EXCEPT ![n + 1] = j]
           u2 == [u EXCEPT ![n + 1] = v]
<1>7. j \in D /\ j \in Nat /\ j >= F /\ j <= B /\ j + m <= L + 1
  BY <1>2, <1>6, <1>20, <1>21 DEF m, L
<1> HIDE DEF D
<1>8. /\ at2 \in [1 .. N -> D] /\ at2[n + 1] = j
      /\ \A k \in 1 .. n : at2[k] = at[k]
      /\ \A k \in 1 .. n + 1 : Free(hunks, at2, k) = Free(hunks, at, k)
      /\ Free(hunks, at2, n + 2) = j + m
      /\ \A k \in 1 .. n : Fits(lines, hunks, at, k) => Fits(lines, hunks, at2, k)
  <2>1. at \in [1 .. N -> D] /\ j \in D /\ n \in 0 .. N /\ n < N /\ N \in Nat
    BY <1>7, <1>20
  <2>2. at2 \in [1 .. N -> D] /\ More(hunks, at, n, j, at2)
    BY <2>1, FreeOfMore
  <2> HIDE DEF at2
  <2> QED
    BY <2>2 DEF More, h, m
<1>9. u2 \in [0 .. N -> Seq(Line)] /\ u2[n + 1] = v /\ \A k \in 0 .. n : u2[k] = u[k]
  <2>1. v \in Seq(Line)
    BY <1>21
  <2> HIDE DEF v
  <2> QED
    BY <1>1, <2>1
<1>10. r.ok /\ r.cursor = Len(v) /\ r.lines = WithRest(v, lines, j + Len(h.old))
  BY <1>21
<1>11. v = u[n] \o SubSeq(lines, F, j - 1) \o h.new
  OBVIOUS
<1> HIDE DEF v, at2, u2
<1>12. Fits(lines, hunks, at2, n + 1)
  <2>1. at2[n + 1] = j /\ Free(hunks, at2, n + 1) = F
    BY <1>1, <1>8 DEF F
  <2> QED
    BY <2>1, <1>7, <1>21 DEF Fits, h
<1>13. \A k \in 1 .. n + 1 : Fits(lines, hunks, at2, k)
  <2>1. \A k \in 1 .. n + 1 : k \in 1 .. n \/ k = n + 1
    BY <1>1
  <2> QED
    BY <2>1, <1>8, <1>12 DEF Placed
<1>14. ASSUME NEW k \in 1 .. n + 1
       PROVE  u2[k] = u2[k - 1] \o SubSeq(lines, Free(hunks, at2, k), at2[k] - 1) \o hunks[k].new
  <2>1. CASE k = n + 1
    <3>1. u2[k] = v /\ u2[k - 1] = u[n] /\ Free(hunks, at2, k) = F /\ at2[k] = j /\ hunks[k] = h
      BY <2>1, <1>1, <1>8, <1>9 DEF F, h
    <3> QED
      BY <3>1, <1>11
  <2>2. CASE k # n + 1
    <3>1. k \in 1 .. n /\ k \in 0 .. n /\ k - 1 \in 0 .. n
      BY <2>2, <1>1
    <3>2. u[k] = u[k - 1] \o SubSeq(lines, Free(hunks, at, k), at[k] - 1) \o hunks[k].new
      BY <3>1 DEF Placed
    <3> QED
      BY <3>1, <3>2, <1>8, <1>9
  <2> QED
    BY <2>1, <2>2
<1>15. /\ Free(hunks, at2, n + 2) \in 1 .. Len(lines) + 1
       /\ Free(hunks, at2, n + 2) <= Free(hunks, b, n + 2)
  <2>1. j + m \in 1 .. L + 1 /\ j + m <= B + m
    BY <1>2, <1>7, <1>20
  <2>2. Free(hunks, b, n + 2) = B + m
    BY <1>4 DEF m
  <2> QED
    BY <2>1, <2>2, <1>8 DEF L
<1>16. u2[0] = <<>>
  BY <1>1, <1>9 DEF Placed
<1>17. Placed(lines, hunks, b, n + 1, r, at2, u2)
  BY <1>1, <1>8, <1>9, <1>10, <1>13, <1>14, <1>15, <1>16 DEF Placed, m
<1> QED
  BY <1>8, <1>9, <1>17 DEF r, h, D

(* If the hunks have places in their order, all of them are applied, each  *)
(* at such a place.                                                        *)
LEMMA HunksGoInOrder ==
  ASSUME NEW lines, lines \in Seq(Line), NEW hunks, hunks \in Seq(Hunk),
         Placements(lines, hunks) # {}
  PROVE  /\ ApplyHunks(lines, hunks).ok
         /\ \E at \in Placements(lines, hunks) :
              ApplyHunks(lines, hunks).lines = Spliced(lines, hunks, at)
<1> DEFINE N == Len(hunks)
<1>1. N \in Nat /\ DOMAIN hunks = 1 .. N /\ Len(lines) \in Nat
  BY LenProperties
<1>2. Placements(lines, hunks)
        = {at \in [1 .. N -> 1 .. Len(lines) + 1] : \A k \in 1 .. N : Fits(lines, hunks, at, k)}
  BY <1>1 DEF Placements
<1>3. Len(hunks) = N
  OBVIOUS
<1> HIDE DEF N
<1>20. PICK g : Runs(lines, hunks, g)
  BY <1>1, <1>3, HunksByLoop
<1>4. /\ g \in [0 .. N -> Search]
      /\ g[0] = [ok |-> TRUE, lines |-> lines, cursor |-> 0]
      /\ \A n \in 1 .. N : g[n] = ApplyHunk(g[n - 1], hunks[n])
      /\ ApplyHunks(lines, hunks) = g[N]
  BY <1>3, <1>20 DEF Runs
<1>5. PICK b \in [1 .. N -> 1 .. Len(lines) + 1] : \A k \in 1 .. N : Fits(lines, hunks, b, k)
  BY <1>2
<1> DEFINE T == {n \in 0 .. N : \E at \in [1 .. N -> 1 .. Len(lines) + 1], u \in [0 .. N -> Seq(Line)] :
                                  Placed(lines, hunks, b, n, g[n], at, u)}
<1>6. 0 \in T
  <2> DEFINE u == [k \in 0 .. N |-> <<>>]
  <2>1. u \in [0 .. N -> Seq(Line)] /\ u[0] = <<>>
    BY <1>1, EmptySeq
  <2>2. Free(hunks, b, 0 + 1) = 1 /\ 0 + 1 = 1
    BY DEF Free
  <2>3. WithRest(<<>>, lines, 1) = lines
    BY SubSeqFull, ConcatEmptySeq DEF WithRest
  <2>4. Len(<<>>) = 0
    BY EmptySeq
  <2> HIDE DEF u
  <2>5. Placed(lines, hunks, b, 0, g[0], b, u)
    BY <1>1, <1>4, <2>1, <2>2, <2>3, <2>4 DEF Placed
  <2>6. 0 \in 0 .. N
    BY <1>1
  <2> QED
    BY <2>1, <2>5, <2>6
<1>7. ASSUME NEW n \in 0 .. N, n < N, n \in T PROVE n + 1 \in T
  <2>1. PICK at \in [1 .. N -> 1 .. Len(lines) + 1], u \in [0 .. N -> Seq(Line)] :
          Placed(lines, hunks, b, n, g[n], at, u)
    BY <1>7
  <2>2. g[n + 1] = ApplyHunk(g[n], hunks[n + 1]) /\ n + 1 \in 0 .. N
    BY <1>1, <1>4, <1>7
  <2>3. g[n] \in Search
    BY <1>4
  <2>4. \E at2 \in [1 .. N -> 1 .. Len(lines) + 1], u2 \in [0 .. N -> Seq(Line)] :
           Placed(lines, hunks, b, n + 1, ApplyHunk(g[n], hunks[n + 1]), at2, u2)
    BY <1>1, <1>3, <1>5, <1>7, <2>1, <2>3, OneHunkMore
  <2> QED
    BY <2>2, <2>4
<1>8. \A n \in 0 .. N : n < N /\ n \in T => n + 1 \in T
  BY <1>7
<1> HIDE DEF T
<1>9. \A n \in 0 .. N : n \in T
  BY ONLY <1>1, <1>6, <1>8, Induction
<1>10. N \in T
  BY <1>1, <1>9
<1>11. PICK at \in [1 .. N -> 1 .. Len(lines) + 1], u \in [0 .. N -> Seq(Line)] :
         Placed(lines, hunks, b, N, g[N], at, u)
  BY <1>10 DEF T
<1>12. at \in Placements(lines, hunks)
  BY <1>2, <1>11 DEF Placed
<1>13. Spliced(lines, hunks, at) = WithRest(u[N], lines, Free(hunks, at, N + 1))
  <2>1. Builds(lines, hunks, at, u)
    BY <1>3, <1>11 DEF Placed, Builds
  <2> QED
    BY <1>1, <1>3, <2>1, SplicedIs
<1> QED
  BY <1>4, <1>11, <1>12, <1>13 DEF Placed

-----------------------------------------------------------------------------
(* Requests and what an operation leaves *)

LEMMA OperationType ==
  ASSUME NEW op \in PatchOperation \cup WriteOperation
  PROVE  /\ op.path \in Path /\ op.kind \in {"update", "add", "delete", "write"}
         /\ op.kind = "update" => op.hunks \in Seq(Hunk)
         /\ op.kind = "add" => op.lines \in Seq(Line)
         /\ op.kind = "write" =>
              /\ op \in WriteOperation /\ op.text \in Text /\ Normal(op.text)
              /\ op.eol \in {"preserve", "lf", "crlf"}
<1>1. CASE op \in WriteOperation
  BY <1>1 DEF WriteOperation
<1>2. CASE op \in [kind : {"update"}, path : Path, hunks : Seq(Hunk)]
  BY <1>2
<1>3. CASE op \in [kind : {"add"}, path : Path, lines : Seq(Line)]
  BY <1>3
<1>4. CASE op \in [kind : {"delete"}, path : Path]
  BY <1>4
<1> QED
  BY <1>1, <1>2, <1>3, <1>4 DEF PatchOperation

LEMMA RequestType ==
  ASSUME NEW r \in Patches \cup Writes
  PROVE  /\ Len(r.ops) \in Nat /\ Len(r.ops) >= 1 /\ DOMAIN r.ops = 1 .. Len(r.ops)
         /\ \A i \in 1 .. Len(r.ops) : r.ops[i] \in PatchOperation \cup WriteOperation
         /\ r.ops[1].kind = "write" => Len(r.ops) = 1
<1>1. CASE r \in Patches
  <2>1. r.ops \in Seq(PatchOperation) /\ r.ops # <<>>
    BY <1>1, RequestAssumption
  <2> DEFINE ops == r.ops
             n == Len(ops)
  <2> HIDE DEF ops
  <2>2. n \in Nat /\ n >= 1 /\ DOMAIN ops = 1 .. n
    BY <2>1, LenProperties, EmptySeq DEF ops
  <2>3. \A i \in 1 .. n : ops[i] \in PatchOperation
    BY <2>1, ElementOfSeq DEF ops
  <2>4. ops[1].kind # "write"
    <3>1. ops[1] \in PatchOperation
      BY <2>2, <2>3
    <3> QED
      BY <3>1 DEF PatchOperation
  <2> QED
    BY <2>2, <2>3, <2>4 DEF ops
<1>2. CASE r \in Writes
  <2>1. PICK op \in {r.ops[1]} : op \in WriteOperation /\ r.ops = <<op>>
    BY <1>2, RequestAssumption
  <2>2. Len(<<op>>) = 1 /\ DOMAIN <<op>> = 1 .. 1 /\ <<op>>[1] = op
    OBVIOUS
  <2>3. \A i \in 1 .. 1 : i = 1
    OBVIOUS
  <2> QED
    BY <2>1, <2>2, <2>3
<1> QED
  BY <1>1, <1>2

(* Only a request of its own writes. *)
LEMMA WritesAreSingle ==
  ASSUME NEW r \in Patches \cup Writes, NEW i \in 1 .. Len(r.ops), r.ops[i] \in WriteOperation
  PROVE  Len(r.ops) = 1
<1>1. CASE r \in Patches
  <2>1. r.ops \in Seq(PatchOperation)
    BY <1>1, RequestAssumption
  <2> DEFINE ops == r.ops
  <2> HIDE DEF ops
  <2>2. ops[i] \in PatchOperation
    BY <2>1, ElementOfSeq DEF ops
  <2> QED
    BY <2>2 DEF PatchOperation, WriteOperation, ops
<1>2. CASE r \in Writes
  <2>1. PICK op \in {r.ops[1]} : op \in WriteOperation /\ r.ops = <<op>>
    BY <1>2, RequestAssumption
  <2>2. Len(<<op>>) = 1
    OBVIOUS
  <2> QED
    BY <2>1, <2>2
<1> QED
  BY <1>1, <1>2

LEMMA TargetsAre ==
  ASSUME req \in Patches \cup Writes
  PROVE  /\ Targets = {req.ops[i].path : i \in 1 .. Len(req.ops)} /\ Targets \subseteq Path
         /\ \A i \in 1 .. Len(req.ops) : req.ops[i].path \in Targets /\ req.ops[i].path \in Path
<1>1. \A i \in 1 .. Len(req.ops) : req.ops[i].path \in Path
  BY RequestType, OperationType
<1> QED
  BY <1>1, RequestType DEF Targets

(* What write_file makes of a file is a text it would write again.         *)
LEMMA WrittenSettles ==
  ASSUME file \in Tree, NEW op \in WriteOperation
  PROVE  /\ Written(op, file) \in Text /\ Normal(Written(op, file))
         /\ \A f : f[op.path] = Written(op, file) => Written(op, f) = f[op.path]
<1> DEFINE crlf == IsText(file[op.path]) /\ file[op.path].crlf
           w == NormalizeLineEndings(op.text, op.eol, crlf)
<1>1. /\ op.path \in Path /\ op.text \in Text /\ Normal(op.text)
      /\ op.eol \in {"preserve", "lf", "crlf"}
  BY DEF WriteOperation
<1>2. crlf \in BOOLEAN
  BY <1>1 DEF Tree, Content, IsText, Text
<1>3. Written(op, file) = w
  BY DEF Written
<1> HIDE DEF crlf
<1>4. w \in Text /\ Normal(w) /\ NormalizeLineEndings(op.text, op.eol, w.crlf) = w
  BY <1>1, <1>2, NormalizingSettles
<1> HIDE DEF w
<1>5. (IsText(w) /\ w.crlf) = w.crlf
  <2>1. IsText(w) /\ w.crlf \in BOOLEAN
    BY <1>4, ContentAssumption DEF IsText, Text
  <2> QED
    BY <2>1
<1>6. ASSUME NEW f, f[op.path] = w PROVE Written(op, f) = w
  BY <1>4, <1>5, <1>6 DEF Written
<1> QED
  BY <1>3, <1>4, <1>6

LEMMA OutcomeType ==
  ASSUME file \in Tree, NEW op \in PatchOperation \cup WriteOperation, Applicable(op)
  PROVE  /\ Outcome(op) \in Content /\ (IsText(Outcome(op)) => Normal(Outcome(op)))
         /\ op.kind = "write" => Outcome(op) = Written(op, file)
         /\ Outcome(op) = Absent => op.kind = "delete"
<1>1. CASE op.kind = "update"
  <2> DEFINE lines == file[op.path].lines
             ends == file[op.path].ends
             after == ApplyHunks(lines, op.hunks)
  <2>1. lines \in Seq(Line) /\ ends \in BOOLEAN /\ op.hunks \in Seq(Hunk)
    BY <1>1, OperationType DEF Applicable, IsText, Tree, Content, Text
  <2>2. after.lines \in Seq(Line)
    <3>1. Len(op.hunks) \in Nat
      BY <2>1, LenProperties
    <3>2. PICK g : Runs(lines, op.hunks, g)
      BY <2>1, <3>1, HunksByLoop
    <3>3. after \in Search
      BY <3>1, <3>2 DEF Runs
    <3> QED
      BY <3>3 DEF Search
  <2>3. Outcome(op) = Join(after.lines, ends)
    BY <1>1 DEF Outcome, Updated
  <2> HIDE DEF after, lines, ends
  <2> QED
    BY <1>1, <2>1, <2>2, <2>3, JoinIsNormal, ContentAssumption DEF Content
<1>2. CASE op.kind = "add"
  <2>1. Outcome(op) = Join(op.lines, op.lines # <<>>) /\ op.lines \in Seq(Line)
    BY <1>2, OperationType DEF Outcome
  <2> QED
    BY <1>2, <2>1, JoinIsNormal, ContentAssumption DEF Content
<1>3. CASE op.kind = "delete"
  BY <1>3 DEF Outcome, Content, IsText
<1>4. CASE op.kind = "write"
  BY <1>4, OperationType, WrittenSettles, ContentAssumption DEF Outcome, Content
<1> QED
  BY <1>1, <1>2, <1>3, <1>4, OperationType

(* A file goes where it is, or where no file or directory is in its way;   *)
(* its directory comes with it.                                            *)
EditedAt(p, c, f, d) ==
  /\ p \in Path /\ (file[p] # Absent \/ Writable(p))
  /\ c \in Content /\ (IsText(c) => Normal(c))
  /\ f = [file EXCEPT ![p] = c]
  /\ d = dirs \cup Parents(p) \/ (c = Absent /\ d = dirs)

LEMMA TreeStays ==
  ASSUME file \in Tree, dirs \subseteq Path, IsTree(file, dirs), AllNormal(file),
         NEW p, NEW c, NEW f, NEW d, EditedAt(p, c, f, d)
  PROVE  /\ f \in Tree /\ d \subseteq Path /\ IsTree(f, d) /\ AllNormal(f)
         /\ \A q \in Path : q # p => f[q] = file[q]
         /\ f[p] = c
<1>0. /\ p \in Path /\ (file[p] # Absent \/ Writable(p))
      /\ c \in Content /\ (IsText(c) => Normal(c))
      /\ f = [file EXCEPT ![p] = c]
      /\ d = dirs \cup Parents(p) \/ (c = Absent /\ d = dirs)
  BY DEF EditedAt
<1> USE <1>0
<1>1. /\ f \in Tree /\ f[p] = c /\ \A q \in Path : q # p => f[q] = file[q]
  BY DEF Tree
<1>2. d \subseteq Path
  BY DirOf
<1>3. AllNormal(f)
  BY <1>1 DEF AllNormal
<1>4. ASSUME NEW q \in Path, f[q] # Absent
      PROVE  q \notin d /\ Parents(q) \subseteq d
  <2>1. CASE q = p
    <3>1. c # Absent /\ d = dirs \cup Parents(p)
      BY <1>1, <1>4, <2>1
    <3>2. p \notin dirs
      BY DEF IsTree, Writable
    <3> QED
      BY <2>1, <3>1, <3>2, DirOf
  <2>2. CASE q # p
    <3>1. file[q] # Absent
      BY <1>1, <1>4, <2>2
    <3>2. q \notin dirs /\ Parents(q) \subseteq dirs
      BY <3>1 DEF IsTree
    <3>3. q \notin Parents(p)
      <4>1. CASE file[p] # Absent
        BY <4>1, <3>2 DEF IsTree
      <4>2. CASE Writable(p)
        BY <4>2, <3>1 DEF Writable
      <4> QED
        BY <4>1, <4>2
    <3> QED
      BY <3>2, <3>3
  <2> QED
    BY <2>1, <2>2
<1>5. IsTree(f, d)
  BY <1>4 DEF IsTree
<1> QED
  BY <1>1, <1>2, <1>3, <1>5

-----------------------------------------------------------------------------
(* The inductive invariant: what a request in progress changed is at its   *)
(* targets and in directories for them, and before still tells the rest.   *)
(* A file is gone only where an operation deleted it; so that a directory  *)
(* comes to be where a file was only if the patch adds below a path that   *)
(* it deleted.                                                             *)

DeletedBy(i, p) == req.ops[i].kind = "delete" /\ req.ops[i].path = p

GoneAreDeleted ==
  \A p \in Path : file[p] = Absent /\ before.file[p] # Absent =>
    \E i \in 1 .. Len(req.ops) : DeletedBy(i, p) /\ (pc = "apply" => i < step)

NoFileBecameDirectory == \A p \in Path : before.file[p] # Absent => p \notin dirs

UnderWay ==
  pc \in {"apply", "check"} =>
    /\ req \in Patches \cup Writes
    /\ IsTree(before.file, before.dirs) /\ before.dirs \subseteq dirs
    /\ \A p \in Path \ Targets : file[p] = before.file[p]
    /\ \A d \in dirs \ before.dirs : \E p \in Targets : Dir[p] = d
    /\ GoneAreDeleted
    /\ AddsBelowDeleted \/ NoFileBecameDirectory
    /\ pc = "check" /\ req.ops[1].kind = "write" =>
         Written(req.ops[1], file) = file[req.ops[1].path]

IInv == TypeOK /\ UnderWay

LEMMA UndoRestores ==
  ASSUME IInv, pc \in {"apply", "check"}
  PROVE  /\ RestoredWell(Restored)
         /\ ~AddsBelowDeleted =>
              Restored.file = before.file /\ Restored.dirs \subseteq before.dirs
<1> DEFINE N == Len(req.ops)
<1>1. /\ req \in Patches \cup Writes
      /\ IsTree(before.file, before.dirs) /\ before.dirs \subseteq dirs
      /\ \A p \in Path \ Targets : file[p] = before.file[p]
      /\ \A d \in dirs \ before.dirs : \E p \in Targets : Dir[p] = d
  BY DEF IInv, UnderWay
<1>2. /\ file \in Tree /\ before.file \in Tree /\ AllNormal(file) /\ AllNormal(before.file)
      /\ dirs \subseteq Path /\ IsTree(file, dirs) /\ before.dirs \subseteq Path
  BY DEF IInv, TypeOK
<1>3. N \in Nat
  BY <1>1, RequestType
<1>4. /\ Targets = {req.ops[i].path : i \in 1 .. N} /\ Targets \subseteq Path
      /\ \A i \in 1 .. N : req.ops[i].path \in Targets /\ req.ops[i].path \in Path
  BY <1>1, TargetsAre
<1>5. Len(req.ops) = N
  OBVIOUS
<1> HIDE DEF N
<1>6. PICK g \in [0 .. N -> State] :
        /\ g[0] = [file |-> file, dirs |-> dirs, ok |-> TRUE]
        /\ \A n \in 1 .. N : g[n] = Restore(g[n - 1], req.ops[n].path)
        /\ Restored = g[N]
  BY <1>2, <1>3, <1>4, <1>5, RestoredByLoop
<1>7. 0 \in 0 .. N /\ g[0].file = file /\ g[0].dirs = dirs /\ g[0].ok
  BY <1>3, <1>6
<1>8. ASSUME NEW n \in 0 .. N, n < N
      PROVE  n + 1 \in 1 .. N /\ n + 1 \in 0 .. N
             /\ g[n + 1] = Restore(g[n], req.ops[n + 1].path) /\ req.ops[n + 1].path \in Path
  <2>1. n + 1 \in 1 .. N /\ n + 1 \in 0 .. N /\ n + 1 - 1 = n
    BY <1>3, <1>8
  <2> QED
    BY <2>1, <1>4, <1>6
<1> DEFINE T == {n \in 0 .. N : RestoredWell(g[n])}
<1>9. 0 \in T
  BY <1>2, <1>6, <1>7 DEF RestoredWell
<1>10. ASSUME NEW n \in 0 .. N, n < N /\ n \in T PROVE n + 1 \in T
  <2>1. RestoredWell(Restore(g[n], req.ops[n + 1].path))
    BY <1>1, <1>2, <1>8, <1>10, RestoreKeeps
  <2> QED
    BY <2>1, <1>8, <1>10
<1> HIDE DEF T
<1>11. \A n \in 0 .. N : n \in T
  BY ONLY <1>3, <1>9, <1>10, Induction
<1>12. RestoredWell(Restored)
  BY <1>3, <1>6, <1>11 DEF T
<1>13. ASSUME ~AddsBelowDeleted
       PROVE  Restored.file = before.file /\ Restored.dirs \subseteq before.dirs
  <2> DEFINE P == {n \in 0 .. N : PutBack(g[n], n)}
  <2>1. 0 \in P
    <3>1. ASSUME NEW d \in dirs \ before.dirs
          PROVE  \E i \in 1 .. N : i > 0 /\ Dir[req.ops[i].path] = d
      <4>1. PICK p \in Targets : Dir[p] = d
        BY <1>1
      <4>2. PICK i \in 1 .. N : p = req.ops[i].path
        BY <1>4
      <4> QED
        BY <4>1, <4>2
    <3> QED
      BY <3>1, <1>1, <1>5, <1>7, <1>13 DEF PutBack, IInv, UnderWay, NoFileBecameDirectory
  <2>2. ASSUME NEW n \in 0 .. N, n < N /\ n \in P PROVE n + 1 \in P
    <3>1. PutBack(Restore(g[n], req.ops[n + 1].path), n + 1)
      BY <1>1, <1>2, <1>3, <1>4, <1>5, <2>2, RestorePutsBack
    <3> QED
      BY <3>1, <1>8, <2>2
  <2> HIDE DEF P
  <2>3. \A n \in 0 .. N : n \in P
    BY ONLY <1>3, <2>1, <2>2, Induction
  <2>4. PutBack(Restored, N)
    BY <1>3, <1>6, <2>3 DEF P
  <2>5. Restored.file \in Tree
    BY <1>12 DEF RestoredWell, State
  <2>6. \A p \in Path : Restored.file[p] = before.file[p]
    BY <2>4, <1>4 DEF PutBack
  <2>7. Restored.file = before.file
    BY <2>5, <2>6, <1>2 DEF Tree
  <2>8. Restored.dirs \subseteq before.dirs
    <3>1. \A i \in 1 .. N : ~(i > N)
      BY <1>3
    <3> QED
      BY <3>1, <2>4, <1>5 DEF PutBack
  <2> QED
    BY <2>7, <2>8
<1> QED
  BY <1>12, <1>13

LEMMA InitEstablishes == Init => IInv
<1> SUFFICES ASSUME Init PROVE IInv
  OBVIOUS
<1> USE DEF Init
<1>1. file \in Tree /\ AllNormal(file) /\ base = file /\ before.file = file /\ before.dirs = dirs
  BY ContentAssumption
<1>2. dirs \subseteq Path
  BY DirOf
<1>3. IsTree(file, dirs)
  <2> SUFFICES ASSUME NEW p \in Path, file[p] # Absent
               PROVE  p \notin dirs /\ Parents(p) \subseteq dirs
    BY DEF IsTree
  <2>1. ASSUME NEW q \in Path, base[q] # Absent, p \in Parents(q) PROVE FALSE
    <3>1. p = Dir[q] /\ Dir[q] # Top
      BY <2>1, DirOf
    <3> QED
      BY <3>1, <2>1, <1>1, ContentAssumption
  <2> QED
    BY <2>1
<1>4. edits \in 0 .. MaxEdits
  BY BoundAssumption
<1> QED
  BY <1>1, <1>2, <1>3, <1>4 DEF IInv, TypeOK, UnderWay, NoRequest, NoAnswer

(* An undo leaves a tree; a request that is kept leaves its own.           *)
LEMMA UndoKeeps ==
  ASSUME IInv, pc \in {"apply", "check"}, NEW outcome, NEW changed, changed \subseteq Path,
         Undo(outcome, changed)
  PROVE  IInv'
<1>1. RestoredWell(Restored)
  BY UndoRestores
<1>2. /\ file' = Restored.file /\ dirs' = Restored.dirs
      /\ pc' = "free" /\ req' = NoRequest
      /\ base' = base /\ before' = before /\ edits' = edits
      /\ answer' = [outcome |-> "dry", changed |-> changed]
           \/ answer' = [outcome |-> "refused", changed |-> {}]
  BY DEF Undo
<1>3. /\ file' \in Tree /\ AllNormal(file') /\ dirs' \subseteq Path /\ IsTree(file', dirs')
  BY <1>1, <1>2 DEF RestoredWell, State
<1>4. answer'.outcome \in {"dry", "refused"} /\ answer'.changed \subseteq Path
  BY <1>2
<1>5. TypeOK'
  BY <1>2, <1>3, <1>4 DEF IInv, TypeOK, IsTree, AllNormal
<1> QED
  BY <1>2, <1>5 DEF IInv, UnderWay

LEMMA BeginKeeps ==
  ASSUME IInv, NEW r \in Patches \cup Writes, Begin(r)
  PROVE  IInv'
<1>1. /\ file' = file /\ dirs' = dirs /\ base' = base
      /\ before' = [file |-> file, dirs |-> dirs] /\ edits' = edits + 1 /\ edits < MaxEdits
      /\ pc = "free"
  BY DEF Begin, tree
<1>2. before'.file = file /\ before'.dirs = dirs
  BY <1>1
<1>3. edits' \in 0 .. MaxEdits
  BY <1>1, BoundAssumption DEF IInv, TypeOK
<1>4. CASE Unchanged(r)
  <2>1. answer' = [outcome |-> "unchanged", changed |-> {}] /\ pc' = pc /\ req' = req /\ step' = step
    BY <1>4 DEF Begin
  <2>2. TypeOK'
    BY <1>1, <1>2, <1>3, <2>1 DEF IInv, TypeOK, IsTree, AllNormal
  <2> QED
    BY <1>1, <2>1, <2>2 DEF IInv, UnderWay
<1>5. CASE ~Unchanged(r)
  <2>1. pc' = "apply" /\ req' = r /\ step' = 1 /\ answer' = NoAnswer
    BY <1>5 DEF Begin
  <2>2. 1 \in DOMAIN r.ops
    BY RequestType
  <2>3. TypeOK'
    BY <1>1, <1>2, <1>3, <2>1, <2>2 DEF IInv, TypeOK, IsTree, AllNormal, NoAnswer
  <2>4. GoneAreDeleted' /\ NoFileBecameDirectory'
    BY <1>1, <1>2 DEF IInv, TypeOK, IsTree, GoneAreDeleted, NoFileBecameDirectory
  <2>5. UnderWay'
    BY <1>1, <1>2, <2>1, <2>4 DEF IInv, TypeOK, UnderWay, IsTree, Targets
  <2> QED
    BY <2>3, <2>5 DEF IInv
<1> QED
  BY <1>4, <1>5

LEMMA ApplyKeeps ==
  ASSUME IInv, ApplyOperation
  PROVE  IInv'
<1> DEFINE op == req.ops[step]
           c == Outcome(op)
           N == Len(req.ops)
<1>1. /\ pc = "apply" /\ req \in Patches \cup Writes /\ step \in 1 .. N /\ N \in Nat
      /\ op \in PatchOperation \cup WriteOperation /\ op.path \in Path /\ op.path \in Targets
      /\ req.ops[1].kind = "write" => N = 1
  <2>1. pc = "apply" /\ req \in Patches \cup Writes /\ step \in DOMAIN req.ops
    BY DEF IInv, TypeOK, UnderWay, ApplyOperation
  <2> QED
    BY <2>1, RequestType, TargetsAre, OperationType
<1>2. /\ Applicable(op) /\ file' = [file EXCEPT ![op.path] = c]
      /\ dirs' = IF c = Absent THEN dirs ELSE dirs \cup Parents(op.path)
      /\ \/ step = N /\ pc' = "check" /\ step' = step
         \/ step # N /\ step' = step + 1 /\ pc' = "apply"
      /\ base' = base /\ req' = req /\ before' = before /\ answer' = answer /\ edits' = edits
  BY <1>1 DEF ApplyOperation
<1>3. /\ file \in Tree /\ AllNormal(file) /\ dirs \subseteq Path /\ IsTree(file, dirs)
  BY DEF IInv, TypeOK
<1>4. /\ c \in Content /\ (IsText(c) => Normal(c))
      /\ op.kind = "write" => c = Written(op, file)
      /\ c = Absent => op.kind = "delete"
  BY <1>1, <1>2, <1>3, OutcomeType
<1>5. /\ file[op.path] # Absent \/ (Writable(op.path) /\ op.kind \in {"add", "write"})
  BY <1>1, <1>2, OperationType DEF Applicable, IsText
<1> HIDE DEF c, op
<1>6. /\ file' \in Tree /\ dirs' \subseteq Path /\ IsTree(file', dirs') /\ AllNormal(file')
      /\ \A q \in Path : q # op.path => file'[q] = file[q]
      /\ file'[op.path] = c
  <2>1. PICK p, v, f, d : p = op.path /\ v = c /\ f = file' /\ d = dirs'
    OBVIOUS
  <2>2. EditedAt(p, v, f, d)
    BY <1>1, <1>2, <1>4, <1>5, <2>1 DEF EditedAt
  <2>3. /\ f \in Tree /\ d \subseteq Path /\ IsTree(f, d) /\ AllNormal(f)
        /\ \A q \in Path : q # p => f[q] = file[q]
        /\ f[p] = v
    BY ONLY <1>3, <2>2, TreeStays
  <2> QED
    BY <2>1, <2>3
<1>7. pc' = "apply" => step' \in DOMAIN req'.ops
  <2>1. DOMAIN req.ops = 1 .. N
    BY <1>1, RequestType
  <2> QED
    BY <2>1, <1>1, <1>2
<1>8. TypeOK'
  BY <1>1, <1>2, <1>6, <1>7 DEF IInv, TypeOK, IsTree, AllNormal
<1>9. Targets' = Targets
  BY <1>2 DEF Targets
<1>10. \A p \in Path \ Targets : file'[p] = before.file[p]
  BY <1>1, <1>6 DEF IInv, UnderWay
<1>11. before.dirs \subseteq dirs' /\ \A d \in dirs' \ before.dirs : \E p \in Targets : Dir[p] = d
  <2>1. before.dirs \subseteq dirs /\ \A d \in dirs \ before.dirs : \E p \in Targets : Dir[p] = d
    BY <1>1 DEF IInv, UnderWay
  <2>2. \A d \in dirs' : d \in dirs \/ d = Dir[op.path]
    BY <1>1, <1>2, DirOf
  <2> QED
    BY <2>1, <2>2, <1>1, <1>2
<1>12. ASSUME pc' = "check", req.ops[1].kind = "write"
       PROVE  Written(req.ops[1], file') = file'[req.ops[1].path]
  <2>1. N = 1 /\ op = req.ops[1]
    BY <1>1, <1>2, <1>12 DEF op
  <2>2. op \in WriteOperation
    BY <1>1, <1>12, <2>1, OperationType
  <2>3. file'[op.path] = Written(op, file)
    BY <1>4, <1>6, <1>12, <2>1
  <2> QED
    BY <1>3, <2>1, <2>2, <2>3, WrittenSettles
<1>13. GoneAreDeleted'
  <2> SUFFICES ASSUME NEW p \in Path, file'[p] = Absent, before.file[p] # Absent
               PROVE  \E i \in 1 .. N : DeletedBy(i, p) /\ (pc' = "apply" => i < step')
    BY <1>2 DEF GoneAreDeleted, DeletedBy
  <2>1. CASE p = op.path
    <3>1. DeletedBy(step, p)
      BY <1>4, <1>6, <2>1 DEF DeletedBy, op
    <3> QED
      BY <1>1, <1>2, <3>1
  <2>2. CASE p # op.path
    <3>1. PICK i \in 1 .. N : DeletedBy(i, p) /\ i < step
      BY <1>1, <1>6, <2>2 DEF IInv, UnderWay, GoneAreDeleted
    <3> QED
      BY <1>1, <1>2, <3>1
  <2> QED
    BY <2>1, <2>2
<1>14. ASSUME ~AddsBelowDeleted, NEW p \in Path, before.file[p] # Absent PROVE p \notin dirs'
  <2>1. p \notin dirs
    BY <1>1, <1>14 DEF IInv, UnderWay, NoFileBecameDirectory
  <2>2. ASSUME p \in dirs' PROVE FALSE
    <3>1. p \in Parents(op.path) /\ p = Dir[op.path]
      BY <1>1, <1>2, <2>1, <2>2, DirOf
    <3>2. file[op.path] = Absent
      BY <1>1, <1>3, <2>1, <3>1 DEF IsTree
    <3>3. file[p] = Absent /\ op.kind \in {"add", "write"}
      BY <1>5, <3>1, <3>2 DEF Writable
    <3>4. PICK i \in 1 .. N : DeletedBy(i, p) /\ i < step
      BY <1>1, <1>14, <3>3 DEF IInv, UnderWay, GoneAreDeleted
    <3>5. N # 1
      <4> HIDE DEF N
      <4>1. N \in Nat /\ i \in 1 .. N /\ step \in 1 .. N /\ i < step
        BY <1>1, <3>4
      <4> QED
        BY ONLY <4>1
    <3>6. op.kind = "add"
      <4>1. op \notin WriteOperation
        BY <1>1, <3>5, WritesAreSingle DEF op
      <4> QED
        BY <1>1, <3>3, <4>1, OperationType
    <3> QED
      BY <1>1, <1>14, <3>1, <3>4, <3>6, RequestType DEF AddsBelowDeleted, DeletedBy, op
  <2> QED
    BY <2>2
<1>15. (AddsBelowDeleted \/ NoFileBecameDirectory)'
  BY <1>2, <1>14 DEF AddsBelowDeleted, NoFileBecameDirectory
<1>16. UnderWay'
  BY <1>1, <1>2, <1>9, <1>10, <1>11, <1>12, <1>13, <1>15 DEF IInv, UnderWay, IsTree, Written
<1> QED
  BY <1>8, <1>16 DEF IInv

LEMMA SelectedPaths ==
  ASSUME req \in Patches \cup Writes, NEW e \in Selected
  PROVE  e.path \in Path
BY DEF Selected, Entries

LEMMA FinishKeeps ==
  ASSUME IInv, Finish
  PROVE  IInv'
<1>1. pc = "check" /\ req \in Patches \cup Writes
  BY DEF IInv, UnderWay, Finish
<1>2. {e.path : e \in Selected} \subseteq Path
  BY <1>1, SelectedPaths
<1>3. CASE req.dry
  <2>1. Undo("dry", {e.path : e \in Selected})
    BY <1>3 DEF Finish
  <2> QED
    BY <2>1, <1>1, <1>2, UndoKeeps
<1>4. CASE ~req.dry
  <2>1. /\ answer' = [outcome |-> "applied", changed |-> {e.path : e \in Selected}]
        /\ pc' = "free" /\ req' = NoRequest
        /\ file' = file /\ dirs' = dirs /\ base' = base /\ before' = before /\ edits' = edits
    BY <1>4 DEF Finish, Keep, tree
  <2>2. answer'.outcome = "applied" /\ answer'.changed \subseteq Path
    BY <2>1, <1>2
  <2>3. TypeOK'
    BY <2>1, <2>2 DEF IInv, TypeOK, IsTree, AllNormal
  <2> QED
    BY <2>1, <2>3 DEF IInv, UnderWay
<1> QED
  BY <1>3, <1>4

LEMMA ScriptsKeep ==
  ASSUME IInv,
         \/ \E p \in Path, c \in ScriptContent : ScriptWrites(p, c)
         \/ \E p \in Path : ScriptRemoves(p)
         \/ ScriptCommits
  PROVE  IInv'
<1>1. /\ pc = "free" /\ edits < MaxEdits /\ edits' = edits + 1 /\ answer' = NoAnswer
      /\ pc' = pc /\ req' = req /\ step' = step /\ before' = before
  BY DEF ScriptWrites, ScriptRemoves, ScriptCommits, Outside
<1>2. edits' \in 0 .. MaxEdits
  BY <1>1, BoundAssumption DEF IInv, TypeOK
<1>3. /\ file \in Tree /\ AllNormal(file) /\ dirs \subseteq Path /\ IsTree(file, dirs)
      /\ base \in Tree /\ AllNormal(base)
  BY DEF IInv, TypeOK
<1>4. /\ file' \in Tree /\ AllNormal(file') /\ dirs' \subseteq Path /\ IsTree(file', dirs')
      /\ base' \in Tree /\ AllNormal(base')
  <2>1. CASE \E p \in Path, c \in ScriptContent : ScriptWrites(p, c)
    <3>1. PICK p \in Path, c \in ScriptContent : ScriptWrites(p, c)
      BY <2>1
    <3>2. /\ Writable(p) /\ file' = [file EXCEPT ![p] = c] /\ dirs' = dirs \cup Parents(p) /\ base' = base
          /\ c \in Content /\ (IsText(c) => Normal(c))
      BY <3>1, ContentAssumption DEF ScriptWrites
    <3>4. PICK f, d : f = file' /\ d = dirs'
      OBVIOUS
    <3>5. EditedAt(p, c, f, d)
      BY <3>2, <3>4 DEF EditedAt
    <3>6. f \in Tree /\ d \subseteq Path /\ IsTree(f, d) /\ AllNormal(f)
      BY ONLY <1>3, <3>5, TreeStays
    <3>3. file' \in Tree /\ dirs' \subseteq Path /\ IsTree(file', dirs') /\ AllNormal(file')
      BY <3>4, <3>6
    <3> QED
      BY <3>2, <3>3, <1>3 DEF AllNormal
  <2>2. CASE \E p \in Path : ScriptRemoves(p)
    <3>1. PICK p \in Path : ScriptRemoves(p)
      BY <2>2
    <3>2. /\ file[p] # Absent /\ file' = [file EXCEPT ![p] = Absent] /\ dirs' = dirs /\ base' = base
          /\ Absent \in Content /\ ~IsText(Absent)
      BY <3>1 DEF ScriptRemoves, Content, IsText
    <3>4. PICK f, d : f = file' /\ d = dirs'
      OBVIOUS
    <3>5. EditedAt(p, Absent, f, d)
      BY <3>2, <3>4 DEF EditedAt
    <3>6. f \in Tree /\ d \subseteq Path /\ IsTree(f, d) /\ AllNormal(f)
      BY ONLY <1>3, <3>5, TreeStays
    <3>3. file' \in Tree /\ dirs' \subseteq Path /\ IsTree(file', dirs') /\ AllNormal(file')
      BY <3>4, <3>6
    <3> QED
      BY <3>2, <3>3, <1>3 DEF AllNormal
  <2>3. CASE ScriptCommits
    BY <2>3, <1>3 DEF ScriptCommits, tree, AllNormal, IsTree
  <2> QED
    BY <2>1, <2>2, <2>3
<1>5. TypeOK'
  BY <1>1, <1>2, <1>4 DEF IInv, TypeOK, IsTree, AllNormal, NoAnswer
<1> QED
  BY <1>1, <1>5 DEF IInv, UnderWay

LEMMA NextKeeps == IInv /\ [Next]_vars => IInv'
<1> SUFFICES ASSUME IInv, [Next]_vars PROVE IInv'
  OBVIOUS
<1>1. CASE \E r \in Patches \cup Writes : Begin(r)
  BY <1>1, BeginKeeps
<1>2. CASE Refuse
  BY <1>2 DEF Refuse, IInv, TypeOK, UnderWay, tree, IsTree, AllNormal, Targets, Written,
               GoneAreDeleted, DeletedBy, NoFileBecameDirectory, AddsBelowDeleted
<1>3. CASE ApplyOperation
  BY <1>3, ApplyKeeps
<1>4. CASE OperationFails
  BY <1>4, UndoKeeps DEF OperationFails
<1>5. CASE Finish
  BY <1>5, FinishKeeps
<1>6. CASE CheckFails
  BY <1>6, UndoKeeps DEF CheckFails
<1>7. CASE \/ \E p \in Path, c \in ScriptContent : ScriptWrites(p, c)
           \/ \E p \in Path : ScriptRemoves(p)
           \/ ScriptCommits
  BY <1>7, ScriptsKeep
<1>8. CASE Crash
  BY <1>8 DEF Crash, IInv, TypeOK, UnderWay, tree, IsTree, AllNormal
<1>9. CASE OperatorUnlocks
  BY <1>9 DEF OperatorUnlocks, IInv, TypeOK, UnderWay, tree, IsTree, AllNormal
<1>10. CASE UNCHANGED vars
  BY <1>10 DEF vars, tree, IInv, TypeOK, UnderWay, IsTree, AllNormal, Targets, Written,
                GoneAreDeleted, DeletedBy, NoFileBecameDirectory, AddsBelowDeleted
<1> QED
  BY <1>1, <1>2, <1>3, <1>4, <1>5, <1>6, <1>7, <1>8, <1>9, <1>10 DEF Next

LEMMA Inductive == Spec => []IInv
BY InitEstablishes, NextKeeps, PTL DEF Spec

-----------------------------------------------------------------------------
(* What requests do *)

(* Edits, undone edits, crashes and scripts leave a tree of files whose    *)
(* texts are as _split_text_lines reads them.                              *)
THEOREM WorkTreeIsATree == Spec => []TypeOK
<1>1. IInv => TypeOK
  BY DEF IInv
<1> QED
  BY Inductive, <1>1, PTL

(* Hunks that have places in the file in their order are all applied, each *)
(* at such a place: _apply_hunks with its cursor and its search from the   *)
(* top loses none of them.                                                 *)
THEOREM HunksInOrderFindTheirPlaces == Spec => []HunksInOrderAreSpliced
<1>1. IInv => HunksInOrderAreSpliced
  <2> SUFFICES ASSUME IInv, pc = "apply",
                      req.ops[step].kind = "update", IsText(file[req.ops[step].path]),
                      Placements(file[req.ops[step].path].lines, req.ops[step].hunks) # {}
               PROVE  LET lines == file[req.ops[step].path].lines
                          hunks == req.ops[step].hunks
                      IN  /\ ApplyHunks(lines, hunks).ok
                          /\ \E at \in Placements(lines, hunks) :
                               ApplyHunks(lines, hunks).lines = Spliced(lines, hunks, at)
    BY DEF HunksInOrderAreSpliced
  <2> DEFINE op == req.ops[step]
             lines == file[op.path].lines
  <2>1. req \in Patches \cup Writes /\ step \in DOMAIN req.ops /\ file \in Tree
    BY DEF IInv, TypeOK, UnderWay
  <2>2. op \in PatchOperation \cup WriteOperation
    BY <2>1, RequestType
  <2>3. op.path \in Path /\ op.hunks \in Seq(Hunk)
    BY <2>2, OperationType
  <2>4. lines \in Seq(Line)
    BY <2>1, <2>3 DEF Tree, Content, IsText, Text
  <2> QED
    BY <2>3, <2>4, HunksGoInOrder
<1> QED
  BY Inductive, <1>1, PTL

(* A request that is refused or dry, wherever it failed, leaves every file *)
(* and no more directories than it found, unless it deletes a path and     *)
(* then puts a file below it: restore_files in services/workspaces.py.     *)
THEOREM RefusedLeavesNothing == Spec => AllOrNothing
<1>1. IInv /\ [Next]_vars =>
        [Ends /\ answer'.outcome # "applied" /\ ~AddsBelowDeleted
           => file' = before.file /\ dirs' \subseteq before.dirs]_vars
  <2> SUFFICES ASSUME IInv, [Next]_vars, Ends, answer'.outcome # "applied",
                      ~AddsBelowDeleted
               PROVE  file' = before.file /\ dirs' \subseteq before.dirs
    OBVIOUS
  <2>1. pc \in {"apply", "check"} /\ pc' = "free"
    BY DEF Ends
  <2>2. OperationFails \/ Finish \/ CheckFails
    BY <2>1 DEF Next, vars, Begin, Refuse, ApplyOperation, ScriptWrites, ScriptRemoves,
                ScriptCommits, Outside, Crash, OperatorUnlocks
  <2>3. \E outcome, changed : Undo(outcome, changed)
    BY <2>2 DEF OperationFails, CheckFails, Finish, Keep
  <2>4. file' = Restored.file /\ dirs' = Restored.dirs
    BY <2>3 DEF Undo
  <2> QED
    BY <2>1, <2>4, UndoRestores
<1> QED
  BY Inductive, <1>1, PTL DEF Spec, AllOrNothing

(* What an applied request changed and does not name, or wrote although    *)
(* policy refuses it, is in a directory that git status names as one:      *)
(* validate_changed_paths and changed_files_for_paths miss nothing else.   *)
THEOREM OnlyNewDirectoriesHide == Spec => OmittedOnlyInNewDirectories
<1>1. IInv /\ [Next]_vars =>
        [Ends /\ answer'.outcome = "applied" =>
           \A p \in Targets :
             file[p] # base[p] /\ (p \notin answer'.changed \/ Denied(file[p]))
               => Collapsed(Dir[p])]_vars
  <2> SUFFICES ASSUME IInv, [Next]_vars, Ends, answer'.outcome = "applied",
                      NEW p \in Targets, file[p] # base[p], ~Collapsed(Dir[p])
               PROVE  p \in answer'.changed /\ ~Denied(file[p])
    OBVIOUS
  <2>1. pc \in {"apply", "check"} /\ pc' = "free" /\ req \in Patches \cup Writes
    BY DEF Ends, IInv, UnderWay
  <2>2. OperationFails \/ Finish \/ CheckFails
    BY <2>1 DEF Next, vars, Begin, Refuse, ApplyOperation, ScriptWrites, ScriptRemoves,
                ScriptCommits, Outside, Crash, OperatorUnlocks
  <2>3. ASSUME NEW outcome, NEW changed, Undo(outcome, changed) PROVE FALSE
    BY <2>3 DEF Undo
  <2>4. Valid /\ Keep
    BY <2>2, <2>3 DEF OperationFails, CheckFails, Finish
  <2>5. p \in Path
    BY <2>1, TargetsAre
  <2> DEFINE e == [path |-> p, dir |-> FALSE]
  <2>6. e \in Entries
    <3>1. CASE Tracked(p)
      BY <3>1, <2>5 DEF Entries
    <3>2. CASE ~Tracked(p)
      BY <3>2, <2>5 DEF Entries, Tracked
    <3> QED
      BY <3>1, <3>2
  <2>7. e \in Selected
    BY <2>6 DEF Selected
  <2>8. ~Denied(file[p])
    BY <2>4, <2>7 DEF Valid
  <2>9. p \in {x.path : x \in Selected}
    BY <2>7
  <2> QED
    BY <2>4, <2>8, <2>9 DEF Keep
<1> QED
  BY Inductive, <1>1, PTL DEF Spec, OmittedOnlyInNewDirectories

(* An applied write_file would write the same again: normalize_line_endings *)
(* settles on the endings the first time.                                  *)
THEOREM RetriedWriteIsSettled == Spec => RetriedWriteChangesNothing
<1>1. IInv /\ [Next]_vars =>
        [Ends /\ answer'.outcome = "applied" /\ req.ops[1].kind = "write"
           => Written(req.ops[1], file') = file'[req.ops[1].path]]_vars
  <2> SUFFICES ASSUME IInv, [Next]_vars, Ends, answer'.outcome = "applied",
                      req.ops[1].kind = "write"
               PROVE  Written(req.ops[1], file') = file'[req.ops[1].path]
    OBVIOUS
  <2>1. pc \in {"apply", "check"} /\ pc' = "free"
    BY DEF Ends
  <2>2. OperationFails \/ Finish \/ CheckFails
    BY <2>1 DEF Next, vars, Begin, Refuse, ApplyOperation, ScriptWrites, ScriptRemoves,
                ScriptCommits, Outside, Crash, OperatorUnlocks
  <2>3. ASSUME NEW outcome, NEW changed, Undo(outcome, changed) PROVE FALSE
    BY <2>3 DEF Undo
  <2>4. pc = "check" /\ file' = file
    BY <2>2, <2>3 DEF OperationFails, CheckFails, Finish, Keep, tree
  <2> QED
    BY <2>4 DEF IInv, UnderWay
<1> QED
  BY Inductive, <1>1, PTL DEF Spec, RetriedWriteChangesNothing
=============================================================================
