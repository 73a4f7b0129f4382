------------------------ MODULE ArtifactSync_proofs ------------------------
(***************************************************************************)
(* Theorems about ArtifactSync: what a manifest and an answer say of the   *)
(* directory, for any artifacts, page sizes and overlapping handlers.      *)
(***************************************************************************)
EXTENDS ArtifactSync, FiniteSetTheorems, SequenceTheorems, TLAPS

(* What is listed is no newer than what the forge has. *)
NoNewer(l) ==
  \A i \in DOMAIN l :
    /\ l[i].version <= attempt
    /\ uploaded[l[i].id] # 0 => l[i].version <= uploaded[l[i].id]

(* What is downloaded is what was listed.  What has a digest is the newest *)
(* version listed of the artifact, should the list have it twice.          *)
Fetched(l, g) ==
  /\ Len(g) <= Len(l)
  /\ \A j \in DOMAIN g :
       /\ g[j].id = l[j].id
       /\ g[j].id \notin Undigested =>
            /\ g[j].version = l[j].version
            /\ \A i \in DOMAIN l : l[i].id = l[j].id => l[i].version <= l[j].version

Ids(l) == {i.id : i \in ToSet(l)}

(* While no artifact appears or vanishes the pages add up. *)
SteadyOK(s) ==
  /\ pc[s] = "list" /\ steady[s] =>
       /\ Len(listing[s]) <= Len(Listed)
       /\ \A i \in DOMAIN listing[s] : listing[s][i].id = Listed[i]
       /\ listing[s] # <<>> => total[s] = Len(Listed)
  /\ pc[s] = "download" /\ steady[s] => Ids(listing[s]) = There

CallOK(s) ==
  /\ NoNewer(listing[s])
  /\ pc[s] = "idle" => listing[s] = <<>>
  /\ pc[s] # "download" => got[s] = <<>>
  /\ Fetched(listing[s], got[s])
  /\ SteadyOK(s)

(* What a manifest lists with digests is on disk in the listed version. *)
ListedIsOnDisk ==
  manifest.kind = "complete" =>
    \A i \in ToSet(manifest.listing) :
      Sound(i.id) /\ i.id \notin Undigested => files[i.id] = {i.version}

IInv ==
  /\ TypeOK
  /\ \A s \in Sync : CallOK(s)
  /\ ManifestDescribesDisk /\ ListedIsOnDisk

(* The parts of the type invariant. *)
ForgeType ==
  /\ attempt \in Attempt /\ completed \in BOOLEAN
  /\ uploaded \in [Artifact -> 0 .. attempt]

DiskType ==
  /\ manifest \in {NoManifest, Torn} \cup
       [kind : {"complete"}, listing : Seq(Item), synced : Seq(Item)]
  /\ files \in [Artifact -> SUBSET ({Piece} \cup Attempt)]
  /\ touched \subseteq Artifact /\ trimmed \subseteq Artifact
  /\ stale \in BOOLEAN

CallType ==
  /\ pc \in [Sync -> {"idle", "list", "download"}]
  /\ listing \in [Sync -> Seq(Item)] /\ got \in [Sync -> Seq(Item)]
  /\ total \in [Sync -> 0 .. Cardinality(Artifact)]
  /\ steady \in [Sync -> BOOLEAN]
  /\ answer \in [Sync -> {"none", "refused", "skipped", "downloaded"}]
  /\ \A s \in Sync :
       /\ pc[s] = "download" => Len(got[s]) < Len(listing[s])
       /\ \A i \in DOMAIN got[s] : got[s][i].id = listing[s][i].id

DiskOK == ManifestDescribesDisk /\ ListedIsOnDisk

-----------------------------------------------------------------------------
(* Ranks in a finite total order *)

(* below gives the elements of S that are not larger than one. *)
Chain(S, below) ==
  /\ below \in [S -> SUBSET S]
  /\ \A x \in S : x \in below[x]
  /\ \A x, y \in S : x # y => \/ below[x] \subseteq below[y] /\ y \notin below[x]
                              \/ below[y] \subseteq below[x] /\ x \notin below[y]

(* The number of elements that are not larger is an element's place.       *)
LEMMA Ranks ==
  ASSUME NEW S, IsFiniteSet(S), NEW below, Chain(S, below)
  PROVE  /\ \A x \in S : Cardinality(below[x]) \in 1 .. Cardinality(S)
         /\ \A x, y \in S : Cardinality(below[x]) = Cardinality(below[y]) => x = y
         /\ \A n \in 1 .. Cardinality(S) : \E x \in S : Cardinality(below[x]) = n
<1>1. \A x \in S : IsFiniteSet(below[x]) /\ Cardinality(below[x]) \in 1 .. Cardinality(S)
  <2> TAKE x \in S
  <2>1. IsFiniteSet(below[x]) /\ Cardinality(below[x]) <= Cardinality(S)
    BY FS_Subset DEF Chain
  <2>2. Cardinality(below[x]) \in Nat /\ Cardinality(S) \in Nat
    BY <2>1, FS_CardinalityType
  <2>3. Cardinality(below[x]) # 0
    BY <2>1, FS_EmptySet DEF Chain
  <2> QED
    BY <2>1, <2>2, <2>3
<1>2. ASSUME NEW x \in S, NEW y \in S, below[x] \subseteq below[y], y \notin below[x]
      PROVE  Cardinality(below[x]) # Cardinality(below[y])
  <2>1. below[x] # below[y]
    BY <1>2 DEF Chain
  <2> QED
    BY <1>1, <1>2, <2>1, FS_Subset
<1>3. \A x, y \in S : Cardinality(below[x]) = Cardinality(below[y]) => x = y
  BY <1>2 DEF Chain
<1>4. Cardinality(S) \in Nat
  BY FS_CardinalityType
<1> DEFINE N == Cardinality(S)
           f == [x \in S |-> Cardinality(below[x])]
<1>5. f \in Injection(S, 1 .. N)
  BY <1>1, <1>3 DEF Injection, IsInjective
<1>6. IsFiniteSet(1 .. N) /\ Cardinality(1 .. N) = N
  BY <1>4, FS_Interval
<1>7. f \in Surjection(S, 1 .. N)
  BY <1>5, <1>6, FS_Injection
<1>8. \A n \in 1 .. N : \E x \in S : f[x] = n
  BY <1>7 DEF Surjection
<1> QED
  BY <1>1, <1>3, <1>8

(* Sorted lists every element of a set of numbers.                         *)
LEMMA SortedIsWhole ==
  ASSUME NEW S, S \subseteq Nat, IsFiniteSet(S)
  PROVE  /\ Cardinality(S) \in Nat
         /\ Sorted(S) \in Seq(S) /\ Len(Sorted(S)) = Cardinality(S)
         /\ \A a \in S : \E n \in 1 .. Cardinality(S) : Sorted(S)[n] = a
<1> DEFINE Rank(a) == Cardinality({b \in S : b <= a})
           below == [a \in S |-> {b \in S : b <= a}]
           N == Cardinality(S)
<1>1. N \in Nat
  BY FS_CardinalityType
<1>2. /\ below \in [S -> SUBSET S]
      /\ \A x, y \in S : y \in below[x] <=> y <= x
      /\ \A x \in S : Cardinality(below[x]) = Rank(x)
  OBVIOUS
<1>3. Sorted(S) = [n \in 1 .. N |-> CHOOSE a \in S : Rank(a) = n]
  BY DEF Sorted
<1> HIDE DEF below, Rank
<1>4. \A x, y, z \in S : /\ x <= x /\ (x <= y \/ y <= x)
                         /\ x <= y /\ y <= x => x = y
                         /\ x <= y /\ y <= z => x <= z
  OBVIOUS
<1>5. \A x \in S : x \in below[x]
  BY <1>2, <1>4
<1>6. \A x, y \in S : x # y => \/ below[x] \subseteq below[y] /\ y \notin below[x]
                               \/ below[y] \subseteq below[x] /\ x \notin below[y]
  <2> TAKE x \in S, y \in S
  <2> HAVE x # y
  <2>1. below[x] \subseteq S /\ below[y] \subseteq S
    BY <1>2
  <2>2. ASSUME x <= y PROVE below[x] \subseteq below[y] /\ y \notin below[x]
    BY <2>1, <2>2, <1>2, <1>4
  <2>3. ASSUME y <= x PROVE below[y] \subseteq below[x] /\ x \notin below[y]
    BY <2>1, <2>3, <1>2, <1>4
  <2> QED
    BY <2>2, <2>3, <1>4
<1>7. /\ \A x \in S : Rank(x) \in 1 .. N
      /\ \A x, y \in S : Rank(x) = Rank(y) => x = y
      /\ \A n \in 1 .. N : \E x \in S : Rank(x) = n
  <2>1. /\ \A x \in S : Cardinality(below[x]) \in 1 .. Cardinality(S)
        /\ \A x, y \in S : Cardinality(below[x]) = Cardinality(below[y]) => x = y
        /\ \A n \in 1 .. Cardinality(S) : \E x \in S : Cardinality(below[x]) = n
    <3>1. Chain(S, below)
      BY <1>2, <1>5, <1>6 DEF Chain
    <3> QED
      BY ONLY <3>1, IsFiniteSet(S), Ranks
  <2> QED
    BY <2>1, <1>2
<1>8. \A n \in 1 .. N : Sorted(S)[n] \in S /\ Rank(Sorted(S)[n]) = n
  BY <1>3, <1>7
<1>9. Sorted(S) \in [1 .. N -> S]
  BY <1>3, <1>8
<1>10. Sorted(S) \in Seq(S) /\ Len(Sorted(S)) = N
  BY <1>1, <1>9
<1>11. \A a \in S : Rank(a) \in 1 .. N /\ Sorted(S)[Rank(a)] = a
  BY <1>7, <1>8
<1> QED
  BY <1>1, <1>10, <1>11

(* Records keeps the items of a list and their number.                     *)
LEMMA RecordsKeepItems ==
  ASSUME NEW l \in Seq(Item)
  PROVE  /\ Records(l) \in Seq(Item) /\ Len(Records(l)) = Len(l)
         /\ \A n \in 1 .. Len(l) : \E i \in 1 .. Len(l) : Records(l)[n] = l[i]
         /\ \A i \in 1 .. Len(l) : \E n \in 1 .. Len(l) : Records(l)[n] = l[i]
<1> DEFINE S == DOMAIN l
           Before(j, i) == l[j].id < l[i].id \/ (l[j].id = l[i].id /\ j <= i)
           Rank(i) == Cardinality({j \in S : Before(j, i)})
           below == [i \in S |-> {j \in S : Before(j, i)}]
<1>1. Len(l) \in Nat /\ S = 1 .. Len(l)
  BY LenProperties
<1>2. IsFiniteSet(S) /\ Cardinality(S) = Len(l)
  BY <1>1, FS_Interval
<1>3. \A i \in S : i \in Nat /\ l[i] \in Item /\ l[i].id \in Nat
  <2> TAKE i \in S
  <2>1. l[i] \in Item
    BY <1>1, ElementOfSeq
  <2>2. l[i].id \in Artifact
    BY <2>1 DEF Item
  <2>3. i \in Nat
    BY <1>1
  <2> QED
    BY <2>1, <2>2, <2>3, ArtifactAssumption
<1>4. Records(l) = [n \in S |-> l[CHOOSE i \in S : Rank(i) = n]]
  BY DEF Records
<1>5. /\ below \in [S -> SUBSET S]
      /\ \A x, y \in S : y \in below[x] <=> Before(y, x)
      /\ \A x \in S : Cardinality(below[x]) = Rank(x)
  OBVIOUS
<1> HIDE DEF below, Rank
<1>6. \A x, y, z \in S : /\ Before(x, x) /\ (Before(x, y) \/ Before(y, x))
                         /\ Before(x, y) /\ Before(y, x) => x = y
                         /\ Before(x, y) /\ Before(y, z) => Before(x, z)
  BY <1>3
<1> HIDE DEF Before
<1>7. \A x \in S : x \in below[x]
  BY <1>5, <1>6
<1>8. \A x, y \in S : x # y => \/ below[x] \subseteq below[y] /\ y \notin below[x]
                               \/ below[y] \subseteq below[x] /\ x \notin below[y]
  <2> TAKE x \in S, y \in S
  <2> HAVE x # y
  <2>1. below[x] \subseteq S /\ below[y] \subseteq S
    BY <1>5
  <2>2. ASSUME Before(x, y) PROVE below[x] \subseteq below[y] /\ y \notin below[x]
    BY <2>1, <2>2, <1>5, <1>6
  <2>3. ASSUME Before(y, x) PROVE below[y] \subseteq below[x] /\ x \notin below[y]
    BY <2>1, <2>3, <1>5, <1>6
  <2> QED
    BY <2>2, <2>3, <1>6
<1> HIDE DEF S
<1>9. /\ \A x \in S : Rank(x) \in S
      /\ \A x, y \in S : Rank(x) = Rank(y) => x = y
      /\ \A n \in S : \E x \in S : Rank(x) = n
  <2>1. /\ \A x \in S : Cardinality(below[x]) \in 1 .. Cardinality(S)
        /\ \A x, y \in S : Cardinality(below[x]) = Cardinality(below[y]) => x = y
        /\ \A n \in 1 .. Cardinality(S) : \E x \in S : Cardinality(below[x]) = n
    <3>1. Chain(S, below)
      BY <1>5, <1>7, <1>8 DEF Chain
    <3> QED
      BY <3>1, <1>2, Ranks
  <2> QED
    BY <2>1, <1>1, <1>2, <1>5
<1> DEFINE Place(n) == CHOOSE i \in S : Rank(i) = n
<1>10. \A n \in S : Place(n) \in S /\ Rank(Place(n)) = n
  BY <1>9
<1>11. \A n \in S : Records(l)[n] = l[Place(n)]
  BY <1>4
<1>12. Records(l) \in [S -> Item]
  BY <1>3, <1>4, <1>10
<1> HIDE DEF Place
<1>13. \A i \in S : Rank(i) \in S /\ Place(Rank(i)) = i
  BY <1>9, <1>10
<1>14. Records(l) \in Seq(Item) /\ Len(Records(l)) = Len(l)
  BY <1>1, <1>12
<1> QED
  BY <1>1, <1>10, <1>11, <1>13, <1>14

LEMMA RecordsSet ==
  ASSUME NEW l \in Seq(Item)
  PROVE  /\ Records(l) \in Seq(Item) /\ Len(Records(l)) = Len(l)
         /\ ToSet(Records(l)) = ToSet(l) /\ Ids(Records(l)) = Ids(l)
         /\ NoNewer(l) => NoNewer(Records(l))
<1>1. DOMAIN l = 1 .. Len(l) /\ DOMAIN Records(l) = 1 .. Len(l)
  BY RecordsKeepItems, LenProperties
<1> DEFINE r == Records(l)
<1>2. /\ \A n \in DOMAIN r : \E i \in DOMAIN l : r[n] = l[i]
      /\ \A i \in DOMAIN l : \E n \in DOMAIN r : r[n] = l[i]
  <2>1. /\ \A n \in 1 .. Len(l) : \E i \in 1 .. Len(l) : r[n] = l[i]
        /\ \A i \in 1 .. Len(l) : \E n \in 1 .. Len(l) : r[n] = l[i]
    BY RecordsKeepItems
  <2> HIDE DEF r
  <2>2. DOMAIN l = 1 .. Len(l) /\ DOMAIN r = 1 .. Len(l)
    BY <1>1 DEF r
  <2> QED
    BY <2>1, <2>2, Zenon
<1> HIDE DEF r
<1>3. ToSet(r) \subseteq ToSet(l) /\ ToSet(l) \subseteq ToSet(r)
  BY <1>2 DEF ToSet
<1>4. ToSet(Records(l)) = ToSet(l)
  BY <1>3 DEF r
<1>5. NoNewer(l) => NoNewer(r)
  BY <1>2 DEF NoNewer
<1>6. NoNewer(l) => NoNewer(Records(l))
  BY <1>5 DEF r
<1> QED
  BY <1>4, <1>6, RecordsKeepItems DEF Ids

-----------------------------------------------------------------------------
(* The forge's list and its pages *)

LEMMA Bounds ==
  /\ Artifact \subseteq Nat /\ Undigested \subseteq Artifact
  /\ IsFiniteSet(Artifact) /\ Cardinality(Artifact) \in Nat
  /\ PageSize \in Nat /\ PageSize > 0 /\ MaxAttempt \in Nat /\ MaxAttempt > 0
BY ArtifactAssumption, FS_CardinalityType

LEMMA UploadedIsPast ==
  ASSUME ForgeType
  PROVE  /\ attempt \in Nat /\ attempt > 0
         /\ \A a \in Artifact : uploaded[a] \in Nat /\ uploaded[a] <= attempt
BY Bounds DEF ForgeType, Attempt

LEMMA ListedIsThere ==
  ASSUME ForgeType
  PROVE  /\ There \subseteq Artifact
         /\ Listed \in Seq(There) /\ Len(Listed) \in 0 .. Cardinality(Artifact)
         /\ \A a \in There : \E n \in 1 .. Len(Listed) : Listed[n] = a
         /\ \A n \in 1 .. Len(Listed) : Listed[n] \in There
<1>1. There \subseteq Artifact
  BY DEF There
<1>2. There \subseteq Nat /\ IsFiniteSet(There) /\ Cardinality(There) <= Cardinality(Artifact)
  BY <1>1, Bounds, FS_Subset
<1>3. /\ Cardinality(There) \in Nat
      /\ Listed \in Seq(There) /\ Len(Listed) = Cardinality(There)
      /\ \A a \in There : \E n \in 1 .. Cardinality(There) : Listed[n] = a
  BY <1>2, SortedIsWhole DEF Listed
<1>4. \A n \in 1 .. Len(Listed) : Listed[n] \in There
  BY <1>3, ElementOfSeq
<1> QED
  BY <1>1, <1>2, <1>3, <1>4, Bounds

LEMMA PageIsOfTheList ==
  ASSUME ForgeType, NEW from \in Nat
  PROVE  /\ Page(from) \in Seq(Item)
         /\ LET left == Len(Listed) - from
            IN  Len(Page(from)) = IF left < 0 THEN 0 ELSE IF left < PageSize THEN left ELSE PageSize
         /\ \A i \in 1 .. Len(Page(from)) :
              /\ from + i \in 1 .. Len(Listed)
              /\ Page(from)[i].id = Listed[from + i]
              /\ uploaded[Page(from)[i].id] # 0
              /\ Page(from)[i].version = uploaded[Page(from)[i].id]
<1> DEFINE left == Len(Listed) - from
           m == IF left < PageSize THEN left ELSE PageSize
           k == IF left < 0 THEN 0 ELSE m
           item(i) == [id |-> Listed[from + i], version |-> uploaded[Listed[from + i]]]
<1>1. Len(Listed) \in Nat /\ left \in Int /\ m \in Int /\ k \in Nat
  BY ListedIsThere, Bounds
<1>2. 1 .. m = 1 .. k
  BY <1>1
<1>3. Page(from) = [i \in 1 .. m |-> item(i)]
  BY DEF Page, ItemsAfter
<1>4. \A i \in 1 .. k : from + i \in 1 .. Len(Listed)
  BY <1>1, Bounds
<1>5. \A i \in 1 .. k : Listed[from + i] \in There
  BY <1>4, ListedIsThere
<1>6. \A a \in There : a \in Artifact /\ uploaded[a] # 0 /\ uploaded[a] \in Attempt
  BY Bounds DEF There, ForgeType, Attempt
<1>7. \A i \in 1 .. k : item(i) \in Item /\ uploaded[Listed[from + i]] # 0
  BY <1>5, <1>6 DEF Item
<1>8. Page(from) = [i \in 1 .. k |-> item(i)]
  BY <1>2, <1>3
<1> HIDE DEF item, k, m
<1>9. Page(from) \in [1 .. k -> Item]
  BY <1>7, <1>8
<1>10. Page(from) \in Seq(Item) /\ Len(Page(from)) = k
  BY <1>1, <1>9
<1>11. \A i \in 1 .. k : Page(from)[i] = item(i)
  BY <1>8
<1>12. \A i \in 1 .. k : /\ item(i).id = Listed[from + i]
                         /\ item(i).version = uploaded[Listed[from + i]]
  BY DEF item
<1>13. Len(Page(from)) = IF left < 0 THEN 0 ELSE IF left < PageSize THEN left ELSE PageSize
  BY <1>10 DEF k, m
<1>14. \A i \in 1 .. k :
         /\ from + i \in 1 .. Len(Listed)
         /\ Page(from)[i].id = Listed[from + i]
         /\ uploaded[Page(from)[i].id] # 0
         /\ Page(from)[i].version = uploaded[Page(from)[i].id]
  BY <1>4, <1>7, <1>11, <1>12
<1> QED
  BY <1>10, <1>13, <1>14

(* The pages a handler has read, with the next one. *)
All(s) == listing[s] \o Page(Len(listing[s]))
Promised(s) == IF Len(listing[s]) = 0 THEN Len(Listed) ELSE total[s]
LastPage(s) ==
  \/ Page(Len(listing[s])) = <<>> \/ Len(All(s)) >= Promised(s)
  \/ Len(Page(Len(listing[s]))) < PageSize

LEMMA PagesAddUp ==
  ASSUME ForgeType, CallType, NEW s \in Sync, CallOK(s), pc[s] = "list"
  PROVE  /\ All(s) \in Seq(Item) /\ NoNewer(All(s)) /\ Promised(s) \in 0 .. Cardinality(Artifact)
         /\ steady[s] => /\ Len(All(s)) <= Len(Listed)
                         /\ \A i \in DOMAIN All(s) : All(s)[i].id = Listed[i]
                         /\ Promised(s) = Len(Listed)
                         /\ LastPage(s) => Ids(All(s)) = There
<1> DEFINE l == listing[s]
           n == Len(l)
           page == Page(n)
           left == Len(Listed) - n
<1>1. l \in Seq(Item) /\ n \in Nat /\ DOMAIN l = 1 .. n
  BY LenProperties DEF CallType
<1>2. /\ page \in Seq(Item)
      /\ Len(page) = IF left < 0 THEN 0 ELSE IF left < PageSize THEN left ELSE PageSize
      /\ \A i \in 1 .. Len(page) :
           /\ n + i \in 1 .. Len(Listed)
           /\ page[i].id = Listed[n + i]
           /\ uploaded[page[i].id] # 0
           /\ page[i].version = uploaded[page[i].id]
  BY <1>1, PageIsOfTheList
<1>3. /\ All(s) \in Seq(Item) /\ Len(All(s)) = n + Len(page)
      /\ DOMAIN All(s) = 1 .. n + Len(page)
      /\ \A i \in 1 .. n + Len(page) : All(s)[i] = IF i <= n THEN l[i] ELSE page[i - n]
  <2>1. All(s) = l \o page
    BY DEF All
  <2> HIDE DEF l, page, n
  <2>2. /\ l \o page \in Seq(Item) /\ Len(l \o page) = Len(l) + Len(page)
        /\ \A i \in 1 .. Len(l) + Len(page) :
             (l \o page)[i] = IF i <= Len(l) THEN l[i] ELSE page[i - Len(l)]
    BY <1>1, <1>2, ConcatProperties
  <2>3. DOMAIN (l \o page) = 1 .. Len(l \o page)
    BY <2>2, LenProperties
  <2> QED
    BY <2>1, <2>2, <2>3 DEF n
<1>4. Len(Listed) \in 0 .. Cardinality(Artifact) /\ Len(Listed) \in Nat
  BY ListedIsThere, Bounds
<1>5. Promised(s) \in 0 .. Cardinality(Artifact)
  BY <1>4 DEF Promised, CallType
<1>6. Len(page) \in Nat /\ (page = <<>> => Len(page) = 0)
  BY <1>2, LenProperties, EmptySeq
<1> HIDE DEF page
<1>7. ASSUME NEW i \in DOMAIN All(s)
      PROVE  \/ i \in DOMAIN l /\ All(s)[i] = l[i]
             \/ /\ i - n \in 1 .. Len(page) /\ All(s)[i] = page[i - n]
                /\ i = n + (i - n)
  BY <1>1, <1>3, <1>6
<1>8. NoNewer(All(s))
  <2> SUFFICES ASSUME NEW i \in DOMAIN All(s)
               PROVE  /\ All(s)[i].version <= attempt
                      /\ uploaded[All(s)[i].id] # 0 => All(s)[i].version <= uploaded[All(s)[i].id]
    BY DEF NoNewer
  <2>1. CASE i \in DOMAIN l /\ All(s)[i] = l[i]
    BY <2>1 DEF CallOK, NoNewer
  <2>2. CASE i - n \in 1 .. Len(page) /\ All(s)[i] = page[i - n]
    <3> DEFINE p == page[i - n]
    <3>1. p.version = uploaded[p.id] /\ p \in Item
      BY <2>2, <1>2, ElementOfSeq
    <3> HIDE DEF p
    <3>2. p.id \in Artifact
      BY <3>1 DEF Item
    <3>3. uploaded[p.id] <= attempt /\ uploaded[p.id] \in Nat
      BY <3>2, UploadedIsPast
    <3> QED
      BY <2>2, <3>1, <3>3 DEF p
  <2> QED
    BY <1>7, <2>1, <2>2
<1>9. ASSUME steady[s]
      PROVE  /\ Len(All(s)) <= Len(Listed)
             /\ \A i \in DOMAIN All(s) : All(s)[i].id = Listed[i]
             /\ Promised(s) = Len(Listed)
  <2>1. /\ n <= Len(Listed)
        /\ \A i \in DOMAIN l : l[i].id = Listed[i]
        /\ l # <<>> => total[s] = Len(Listed)
    BY <1>9 DEF CallOK, SteadyOK
  <2>2. Len(All(s)) <= Len(Listed)
    BY <1>1, <1>2, <1>3, <1>4, <2>1, Bounds
  <2>3. \A i \in DOMAIN All(s) : All(s)[i].id = Listed[i]
    BY <1>2, <1>7, <2>1
  <2>4. Len(l) # 0 => l # <<>>
    BY <1>1, EmptySeq
  <2> QED
    BY <2>1, <2>2, <2>3, <2>4 DEF Promised
<1>10. ASSUME steady[s], LastPage(s)
       PROVE  Ids(All(s)) = There
  <2>1. Len(All(s)) = Len(Listed)
    <3>1. \/ Len(page) = 0 \/ Len(All(s)) >= Len(Listed) \/ Len(page) < PageSize
      BY <1>6, <1>9, <1>10 DEF LastPage, page
    <3>2. n <= Len(Listed)
      BY <1>10 DEF CallOK, SteadyOK
    <3> HIDE DEF n
    <3> QED
      BY <1>1, <1>2, <1>3, <1>4, <1>6, <1>9, <1>10, <3>1, <3>2, Bounds
  <2>2. DOMAIN All(s) = 1 .. Len(Listed)
    BY <1>3, <2>1
  <2>3. Ids(All(s)) = {All(s)[i].id : i \in DOMAIN All(s)}
    BY DEF Ids, ToSet
  <2>4. Ids(All(s)) = {Listed[i] : i \in 1 .. Len(Listed)}
    BY <2>2, <2>3, <1>9, <1>10
  <2> QED
    BY <2>4, ListedIsThere
<1> QED
  BY <1>3, <1>5, <1>8, <1>9, <1>10

-----------------------------------------------------------------------------
(* The windows *)

(* The target holds what was extracted, and nothing more. *)
LEMMA ExtractedIsFetched ==
  ASSUME NEW g \in Seq(Item), NEW n \in 0 .. Len(g)
  PROVE  /\ Extracted(g, n) \in [Artifact -> SUBSET ({Piece} \cup Attempt)]
         /\ \A a \in Artifact :
              /\ Extracted(g, n)[a] = {g[i].version : i \in {j \in 1 .. n : g[j].id = a}}
              /\ Extracted(g, n)[a] \subseteq Attempt
<1>1. Len(g) \in Nat
  BY LenProperties
<1>2. \A i \in 1 .. n : g[i] \in Item /\ g[i].version \in Attempt
  <2> TAKE i \in 1 .. n
  <2>1. i \in 1 .. Len(g)
    BY <1>1
  <2>2. g[i] \in Item
    BY <2>1, ElementOfSeq
  <2> QED
    BY <2>2 DEF Item
<1>3. \A a \in Artifact :
        /\ Extracted(g, n)[a] = {g[i].version : i \in {j \in 1 .. n : g[j].id = a}}
        /\ Extracted(g, n)[a] \subseteq Attempt
  BY <1>2 DEF Extracted
<1> QED
  BY <1>3 DEF Extracted

LEMMA ReplaceDescribes ==
  ASSUME NEW s, NEW l \in Seq(Item), NEW g \in Seq(Item), Len(g) = Len(l), Fetched(l, g),
         DiskType, Replace(s, l, g)
  PROVE  DiskType' /\ DiskOK'
<1>1. /\ files' = Extracted(g, Len(g))
      /\ manifest' = Complete(l, g)
      /\ touched' = {} /\ trimmed' = {} /\ stale' = stale
  BY DEF Replace
<1>2. /\ Len(g) \in Nat /\ Len(g) \in 0 .. Len(g)
      /\ DOMAIN g = 1 .. Len(g) /\ DOMAIN l = 1 .. Len(g)
  BY LenProperties
<1>3. manifest' \in [kind : {"complete"}, listing : Seq(Item), synced : Seq(Item)]
  BY <1>1 DEF Complete
<1>4. manifest'.kind = "complete" /\ manifest'.listing = l /\ manifest'.synced = g
  BY <1>1 DEF Complete
<1>5. \A i \in 1 .. Len(g) : /\ g[i] \in Item /\ g[i].id \in Artifact
                            /\ l[i] \in Item /\ l[i].id \in Artifact
                            /\ g[i].version \in Nat /\ l[i].version \in Nat
  <2> TAKE i \in 1 .. Len(g)
  <2>1. g[i] \in Item /\ l[i] \in Item
    BY ElementOfSeq
  <2> QED
    BY <2>1, Bounds DEF Item, Attempt
<1>6. \A a \in Artifact : files'[a] = {g[i].version : i \in {j \in 1 .. Len(g) : g[j].id = a}}
  BY <1>1, <1>2, ExtractedIsFetched
<1>7. DiskType'
  BY <1>1, <1>2, <1>3, ExtractedIsFetched DEF DiskType
<1>8. ManifestDescribesDisk'
  <2>1. \A i \in ToSet(g) :
          files'[i.id] = {j.version : j \in {k \in ToSet(g) : k.id = i.id}}
    <3> TAKE i \in ToSet(g)
    <3> DEFINE here == {k \in ToSet(g) : k.id = i.id}
               places == {j \in 1 .. Len(g) : g[j].id = i.id}
    <3>1. i.id \in Artifact
      BY <1>2, <1>5 DEF ToSet
    <3>2. files'[i.id] = {g[j].version : j \in places}
      BY <1>6, <3>1
    <3>3. /\ \A j \in places : g[j] \in here
          /\ \A k \in here : \E j \in places : k = g[j]
      BY <1>2 DEF ToSet
    <3> HIDE DEF here, places
    <3>4. {g[j].version : j \in places} = {k.version : k \in here}
      BY <3>3
    <3>5. files'[i.id] = {k.version : k \in here}
      BY <3>2, <3>4
    <3> QED
      BY <3>5, Zenon DEF here
  <2> QED
    BY <1>4, <2>1 DEF ManifestDescribesDisk
<1>9. ListedIsOnDisk'
  <2>1. ASSUME NEW i \in 1 .. Len(g), l[i].id \notin Undigested
        PROVE  files'[l[i].id] = {l[i].version}
    <3>1. g[i].id = l[i].id /\ g[i].version = l[i].version
      BY <1>2, <2>1 DEF Fetched
    <3>2. ASSUME NEW j \in 1 .. Len(g), g[j].id = l[i].id
          PROVE  g[j].version = l[i].version
      <4>1. g[j].id = l[j].id /\ l[j].id = l[i].id /\ l[j].id \notin Undigested
        BY <1>2, <2>1, <3>2 DEF Fetched
      <4>2. g[j].version = l[j].version
        BY <1>2, <4>1 DEF Fetched
      <4>3. l[i].version <= l[j].version /\ l[j].version <= l[i].version
        BY <1>2, <2>1, <3>1, <4>1 DEF Fetched
      <4>4. l[i].version \in Nat /\ l[j].version \in Nat
        BY <1>5
      <4> QED
        BY <4>2, <4>3, <4>4
    <3> DEFINE places == {j \in 1 .. Len(g) : g[j].id = l[i].id}
    <3>3. files'[l[i].id] = {g[j].version : j \in places}
      BY <1>5, <1>6
    <3>4. i \in places /\ \A j \in places : g[j].version = l[i].version
      BY <3>1, <3>2
    <3> HIDE DEF places
    <3> QED
      BY <3>3, <3>4
  <2>2. \A i \in ToSet(l) : i.id \notin Undigested => files'[i.id] = {i.version}
    BY <1>2, <2>1 DEF ToSet
  <2> QED
    BY <1>4, <2>2 DEF ListedIsOnDisk
<1> QED
  BY <1>7, <1>8, <1>9 DEF DiskOK

(* What a complete manifest names are artifacts. *)
LEMMA ManifestNamesArtifacts ==
  ASSUME DiskType, manifest.kind = "complete"
  PROVE  /\ \A i \in ToSet(manifest.synced) : i.id \in Artifact
         /\ \A i \in ToSet(manifest.listing) : i.id \in Artifact
<1> DEFINE m == manifest
<1>1. manifest \in [kind : {"complete"}, listing : Seq(Item), synced : Seq(Item)]
  BY DEF DiskType, NoManifest, Torn
<1>2. m.synced \in Seq(Item) /\ m.listing \in Seq(Item)
  BY <1>1
<1>3. \A q \in Seq(Item) : \A i \in ToSet(q) : i \in Item
  BY ElementOfSeq, LenProperties DEF ToSet
<1>4. \A i \in Item : i.id \in Artifact
  BY DEF Item
<1> HIDE DEF m
<1>5. /\ \A i \in ToSet(m.synced) : i.id \in Artifact
      /\ \A i \in ToSet(m.listing) : i.id \in Artifact
  BY <1>2, <1>3, <1>4
<1> QED
  BY <1>5 DEF m

LEMMA CutShortDescribes ==
  ASSUME NEW l, NEW g \in Seq(Item), DiskType, DiskOK, CutShort(l, g), stale' \in BOOLEAN
  PROVE  DiskType' /\ DiskOK'
<1>1. CASE \E cut \in SUBSET {a \in Artifact : files[a] # {}}, left \in {{}, {Piece}} :
             /\ files' = [a \in Artifact |-> IF a \in cut THEN left ELSE files[a]]
             /\ trimmed' = trimmed \cup cut
             /\ manifest' \in {manifest, NoManifest}
             /\ UNCHANGED touched
  <2> PICK cut \in SUBSET {a \in Artifact : files[a] # {}}, left \in {{}, {Piece}} :
        /\ files' = [a \in Artifact |-> IF a \in cut THEN left ELSE files[a]]
        /\ trimmed' = trimmed \cup cut
        /\ manifest' \in {manifest, NoManifest}
        /\ UNCHANGED touched
    BY <1>1
  <2>1. DiskType'
    BY DEF DiskType
  <2>2. CASE manifest' = NoManifest
    BY <2>1, <2>2 DEF NoManifest, DiskOK, ManifestDescribesDisk, ListedIsOnDisk
  <2>3. CASE manifest' = manifest /\ manifest.kind = "complete"
    <3>1. \A a \in Artifact : Sound(a)' => Sound(a) /\ files'[a] = files[a]
      BY DEF Sound
    <3>2. ManifestDescribesDisk'
      BY <2>3, <3>1, ManifestNamesArtifacts DEF DiskOK, ManifestDescribesDisk
    <3>3. ListedIsOnDisk'
      BY <2>3, <3>1, ManifestNamesArtifacts DEF DiskOK, ListedIsOnDisk
    <3> QED
      BY <2>1, <3>2, <3>3 DEF DiskOK
  <2>4. CASE manifest' = manifest /\ manifest.kind # "complete"
    BY <2>1, <2>4 DEF DiskOK, ManifestDescribesDisk, ListedIsOnDisk
  <2> QED
    BY <2>2, <2>3, <2>4
<1>2. ASSUME NEW n \in 0 .. Len(g), NEW part \in {{}, {Piece}},
             files' = [a \in Artifact |->
               IF n < Len(g) /\ g[n + 1].id = a THEN Extracted(g, n)[a] \cup part ELSE Extracted(g, n)[a]],
             manifest' = NoManifest, touched' = {}, trimmed' = {}
      PROVE  DiskType' /\ DiskOK'
  <2>1. \A a \in Artifact : Extracted(g, n)[a] \subseteq Attempt
    BY ExtractedIsFetched
  <2>2. files' \in [Artifact -> SUBSET ({Piece} \cup Attempt)]
    BY <1>2, <2>1
  <2>3. manifest'.kind # "complete"
    BY <1>2 DEF NoManifest
  <2> QED
    BY <1>2, <2>2, <2>3 DEF DiskType, DiskOK, ManifestDescribesDisk, ListedIsOnDisk
<1>3. CASE files' = Extracted(g, Len(g)) /\ manifest' = Torn /\ touched' = {} /\ trimmed' = {}
  <2>1. Len(g) \in 0 .. Len(g)
    BY LenProperties
  <2>2. files' \in [Artifact -> SUBSET ({Piece} \cup Attempt)]
    BY <1>3, <2>1, ExtractedIsFetched
  <2>3. manifest'.kind # "complete"
    BY <1>3 DEF Torn
  <2> QED
    BY <1>3, <2>2, <2>3 DEF DiskType, DiskOK, ManifestDescribesDisk, ListedIsOnDisk
<1> QED
  BY <1>1, <1>2, <1>3 DEF CutShort

(* A handler whose call and forge are left alone is as it was. *)
LEMMA CallLeftAlone ==
  ASSUME NEW t \in Sync, CallOK(t), UNCHANGED forge,
         pc'[t] = pc[t], listing'[t] = listing[t], got'[t] = got[t],
         total'[t] = total[t], steady'[t] = steady[t]
  PROVE  CallOK(t)'
<1>1. attempt' = attempt /\ uploaded' = uploaded
  BY DEF forge
<1>2. There' = There /\ Listed' = Listed
  BY <1>1 DEF There, Listed
<1>3. NoNewer(listing[t])'
  BY <1>1 DEF CallOK, NoNewer
<1>4. Fetched(listing[t], got[t])'
  BY DEF CallOK, Fetched
<1>5. SteadyOK(t)'
  BY <1>2 DEF CallOK, SteadyOK, Ids
<1> QED
  BY <1>3, <1>4, <1>5 DEF CallOK

(* An answer drops what its handler has, and nothing of the others'.       *)
LEMMA AnswerKeepsCalls ==
  ASSUME NEW s \in Sync, NEW how \in {"refused", "skipped", "downloaded"},
         CallType, \A t \in Sync : CallOK(t), Answer(s, how), UNCHANGED forge
  PROVE  CallType' /\ \A t \in Sync : CallOK(t)'
<1>1. <<>> \in Seq(Item) /\ Len(<<>>) = 0 /\ DOMAIN <<>> = {}
  BY EmptySeq
<1>2. /\ pc' = [pc EXCEPT ![s] = "idle"] /\ answer' = [answer EXCEPT ![s] = how]
      /\ listing' = [listing EXCEPT ![s] = <<>>] /\ got' = [got EXCEPT ![s] = <<>>]
      /\ total' = [total EXCEPT ![s] = 0] /\ steady' = [steady EXCEPT ![s] = TRUE]
      /\ attempt' = attempt /\ uploaded' = uploaded
  BY DEF Answer, forge
<1>3. CallType'
  BY <1>1, <1>2, Bounds DEF CallType
<1>4. ASSUME NEW t \in Sync PROVE CallOK(t)'
  <2>1. CASE t = s
    <3>1. pc'[t] = "idle" /\ listing'[t] = <<>> /\ got'[t] = <<>>
      BY <1>2, <2>1 DEF CallType
    <3> QED
      BY <1>1, <3>1 DEF CallOK, NoNewer, Fetched, SteadyOK
  <2>2. CASE t # s
    <3>1. /\ pc'[t] = pc[t] /\ listing'[t] = listing[t] /\ got'[t] = got[t]
          /\ total'[t] = total[t] /\ steady'[t] = steady[t]
      BY <1>2, <2>2 DEF CallType
    <3> QED
      BY <3>1, CallLeftAlone
  <2> QED
    BY <2>1, <2>2
<1> QED
  BY <1>3, <1>4

(* What a step that may answer leaves behind. *)
Kept == DiskType' /\ DiskOK' /\ CallType' /\ \A t \in Sync : CallOK(t)'

(* Only s may answer, and what it claims is about the list it has.         *)
Answers(s, l) ==
  \A t \in Sync : answer[t] = "none" /\ answer'[t] \in {"skipped", "downloaded"} =>
    /\ t = s /\ manifest'.kind = "complete" /\ manifest'.listing = l
    /\ answer'[t] = "skipped" => \A i \in ToSet(l) : i.id \notin Undigested

LEMMA AnswerOfOne ==
  ASSUME NEW s \in Sync, NEW how, CallType, Answer(s, how), NEW t \in Sync,
         answer[t] = "none", answer'[t] \in {"skipped", "downloaded"}
  PROVE  t = s /\ answer'[t] = how
BY DEF Answer, CallType

LEMMA SecondWindowKeeps ==
  ASSUME NEW s \in Sync, NEW l \in Seq(Item), NEW g \in Seq(Item), Len(g) = Len(l), Fetched(l, g),
         DiskType, DiskOK, CallType, \A t \in Sync : CallOK(t),
         SecondWindow(s, l, g), UNCHANGED forge
  PROVE  Kept /\ Answers(s, l)
<1>1. CASE Replace(s, l, g)
  <2>1. Answer(s, "downloaded")
    BY <1>1 DEF Replace
  <2>2. manifest'.kind = "complete" /\ manifest'.listing = l
    BY <1>1 DEF Replace, Complete
  <2>3. Answers(s, l)
    BY <2>1, <2>2, AnswerOfOne DEF Answers
  <2> QED
    BY <1>1, <2>1, <2>3, AnswerKeepsCalls, ReplaceDescribes DEF Kept
<1>2. CASE ReplaceFails(s, l, g)
  <2>1. Answer(s, "refused") /\ CutShort(l, g) /\ stale' \in BOOLEAN
    BY <1>2 DEF ReplaceFails, DiskType
  <2>2. Answers(s, l)
    BY <2>1, AnswerOfOne DEF Answers
  <2> QED
    BY <2>1, <2>2, AnswerKeepsCalls, CutShortDescribes DEF Kept
<1>3. CASE Current(l) /\ Answer(s, "skipped") /\ UNCHANGED disk
  <2>1. DiskType' /\ DiskOK'
    BY <1>3 DEF disk, DiskType, DiskOK, ManifestDescribesDisk, ListedIsOnDisk, Sound
  <2>2. Answers(s, l)
    BY <1>3, AnswerOfOne DEF Answers, Current, disk
  <2> QED
    BY <1>3, <2>1, <2>2, AnswerKeepsCalls DEF Kept
<1>4. CASE Refuse(s)
  <2>1. DiskType' /\ DiskOK'
    BY <1>4 DEF Refuse, disk, DiskType, DiskOK, ManifestDescribesDisk, ListedIsOnDisk, Sound
  <2>2. Answers(s, l)
    BY <1>4, AnswerOfOne DEF Answers, Refuse
  <2> QED
    BY <1>4, <2>1, <2>2, AnswerKeepsCalls DEF Kept, Refuse
<1> QED
  BY <1>1, <1>2, <1>3, <1>4 DEF SecondWindow

LEMMA FirstWindowKeeps ==
  ASSUME NEW s \in Sync, NEW l \in Seq(Item), NoNewer(l),
         pc[s] = "list", steady[s] => Ids(l) = There,
         DiskType, DiskOK, CallType, \A t \in Sync : CallOK(t),
         FirstWindow(s, l), UNCHANGED forge
  PROVE  Kept /\ Answers(s, l)
<1>1. CASE Refuse(s)
  <2>1. DiskType' /\ DiskOK'
    BY <1>1 DEF Refuse, disk, DiskType, DiskOK, ManifestDescribesDisk, ListedIsOnDisk, Sound
  <2>2. Answers(s, l)
    BY <1>1, AnswerOfOne DEF Answers, Refuse
  <2> QED
    BY <1>1, <2>1, <2>2, AnswerKeepsCalls DEF Kept, Refuse
<1>2. CASE Current(l) /\ Answer(s, "skipped") /\ UNCHANGED disk
  <2>1. DiskType' /\ DiskOK'
    BY <1>2 DEF disk, DiskType, DiskOK, ManifestDescribesDisk, ListedIsOnDisk, Sound
  <2>2. Answers(s, l)
    BY <1>2, AnswerOfOne DEF Answers, Current, disk
  <2> QED
    BY <1>2, <2>1, <2>2, AnswerKeepsCalls DEF Kept
<1>3. CASE /\ l # <<>>
           /\ pc' = [pc EXCEPT ![s] = "download"]
           /\ listing' = [listing EXCEPT ![s] = l]
           /\ UNCHANGED <<total, steady, got, answer, disk>>
  <2>1. DiskType' /\ DiskOK'
    BY <1>3 DEF disk, DiskType, DiskOK, ManifestDescribesDisk, ListedIsOnDisk, Sound
  <2>2. got[s] = <<>> /\ Len(<<>>) = 0 /\ DOMAIN <<>> = {}
    BY EmptySeq DEF CallOK
  <2>3. Len(l) \in Nat /\ Len(l) > 0 /\ DOMAIN l = 1 .. Len(l)
    BY <1>3, EmptySeq, LenProperties
  <2>4. CallType'
    BY <1>3, <2>2, <2>3 DEF CallType
  <2>5. There' = There /\ uploaded' = uploaded /\ attempt' = attempt
    BY DEF There, forge
  <2>6. ASSUME NEW t \in Sync PROVE CallOK(t)'
    <3>1. CASE t = s
      <4>1. /\ pc'[t] = "download" /\ listing'[t] = l /\ got'[t] = <<>> /\ steady'[t] = steady[t]
        BY <1>3, <2>2, <3>1 DEF CallType
      <4>2. NoNewer(listing[t])'
        BY <2>5, <4>1 DEF NoNewer
      <4>3. SteadyOK(t)'
        BY <2>5, <3>1, <4>1 DEF SteadyOK, Ids
      <4> QED
        BY <2>2, <2>3, <4>1, <4>2, <4>3 DEF CallOK, Fetched
    <3>2. CASE t # s
      <4>1. /\ pc'[t] = pc[t] /\ listing'[t] = listing[t] /\ got'[t] = got[t]
            /\ total'[t] = total[t] /\ steady'[t] = steady[t]
        BY <1>3, <3>2 DEF CallType
      <4> QED
        BY <4>1, CallLeftAlone
    <3> QED
      BY <3>1, <3>2
  <2>7. Answers(s, l)
    BY <1>3 DEF Answers, CallType
  <2> QED
    BY <2>1, <2>4, <2>6, <2>7 DEF Kept
<1>4. CASE l = <<>> /\ SecondWindow(s, <<>>, <<>>)
  <2>1. Fetched(<<>>, <<>>) /\ <<>> \in Seq(Item)
    BY EmptySeq DEF Fetched
  <2> QED
    BY <1>4, <2>1, SecondWindowKeeps
<1> QED
  BY <1>1, <1>2, <1>3, <1>4 DEF FirstWindow

-----------------------------------------------------------------------------
(* The steps *)

LEMMA Parts == IInv <=> /\ ForgeType /\ DiskType /\ CallType /\ DiskOK
                        /\ \A t \in Sync : CallOK(t)
BY DEF IInv, TypeOK, ForgeType, DiskType, CallType, DiskOK

LEMMA PartsNext ==
  ASSUME ForgeType', Kept
  PROVE  IInv'
BY DEF Kept, IInv, TypeOK, ForgeType, DiskType, CallType, DiskOK

LEMMA ForgeUnchanged ==
  ASSUME ForgeType, UNCHANGED forge
  PROVE  ForgeType'
BY DEF ForgeType, forge

(* What the disk is described by is left alone. *)
LEMMA DiskUnchanged ==
  ASSUME DiskType, DiskOK, UNCHANGED disk
  PROVE  DiskType' /\ DiskOK'
BY DEF disk, DiskType, DiskOK, ManifestDescribesDisk, ListedIsOnDisk, Sound

LEMMA StartKeeps ==
  ASSUME IInv, NEW s \in Sync, Start(s)
  PROVE  IInv'
<1>1. /\ pc[s] = "idle" /\ pc' = [pc EXCEPT ![s] = "list"]
      /\ answer' = [answer EXCEPT ![s] = "none"]
      /\ UNCHANGED <<listing, total, steady, got, disk, forge>>
  BY DEF Start
<1>2. ForgeType /\ DiskType /\ CallType /\ DiskOK /\ \A t \in Sync : CallOK(t)
  BY Parts
<1>3. CallType'
  BY <1>1, <1>2 DEF CallType
<1>4. ASSUME NEW t \in Sync PROVE CallOK(t)'
  <2>1. CASE t = s
    <3>1. /\ pc'[t] = "list" /\ listing'[t] = <<>> /\ got'[t] = <<>>
          /\ Len(<<>>) = 0 /\ DOMAIN <<>> = {}
      BY <1>1, <1>2, <2>1, EmptySeq DEF CallOK, CallType
    <3>2. Len(Listed') >= 0
      <4>1. ForgeType'
        BY <1>1, <1>2, ForgeUnchanged
      <4>2. There' = There /\ Listed' = Listed
        BY <1>1 DEF forge, There, Listed
      <4> QED
        BY <1>2, <4>2, ListedIsThere
    <3> QED
      BY <3>1, <3>2 DEF CallOK, NoNewer, Fetched, SteadyOK
  <2>2. CASE t # s
    <3>1. /\ pc'[t] = pc[t] /\ listing'[t] = listing[t] /\ got'[t] = got[t]
          /\ total'[t] = total[t] /\ steady'[t] = steady[t]
      BY <1>1, <1>2, <2>2 DEF CallType
    <3> QED
      BY <1>1, <1>2, <3>1, CallLeftAlone
  <2> QED
    BY <2>1, <2>2
<1> QED
  BY <1>1, <1>2, <1>3, <1>4, ForgeUnchanged, DiskUnchanged, PartsNext DEF Kept

LEMMA ToSetOfBoth ==
  \A l, p : l \in Seq(Item) /\ p \in Seq(Item) => ToSet(l \o p) = ToSet(l) \cup ToSet(p)
<1> SUFFICES ASSUME NEW l, NEW p, l \in Seq(Item), p \in Seq(Item)
             PROVE  ToSet(l \o p) = ToSet(l) \cup ToSet(p)
  OBVIOUS
<1> DEFINE b == l \o p
           m == Len(l)
           n == Len(p)
<1>1. m \in Nat /\ n \in Nat /\ DOMAIN l = 1 .. m /\ DOMAIN p = 1 .. n
  BY LenProperties
<1>2. /\ b \in Seq(Item) /\ DOMAIN b = 1 .. m + n
      /\ \A i \in 1 .. m : b[i] = l[i]
      /\ \A i \in 1 .. n : b[m + i] = p[i]
  BY <1>1
<1> HIDE DEF b, m, n
<1>3. \A i \in 1 .. m + n : i \in 1 .. m \/ (i - m \in 1 .. n /\ m + (i - m) = i)
  BY <1>1
<1>4. \A i \in 1 .. m : i \in 1 .. m + n
  BY <1>1
<1>5. \A i \in 1 .. n : m + i \in 1 .. m + n
  BY <1>1
<1>6. ASSUME NEW x, x \in ToSet(b) PROVE x \in ToSet(l) \cup ToSet(p)
  <2>1. PICK i \in 1 .. m + n : x = b[i]
    BY <1>2, <1>6 DEF ToSet
  <2>2. CASE i \in 1 .. m
    BY <1>1, <1>2, <2>1, <2>2 DEF ToSet
  <2>3. CASE i \notin 1 .. m
    <3>1. PICK j : j \in 1 .. n /\ m + j = i
      BY <1>3, <2>3
    <3>2. j \in DOMAIN p /\ p[j] = x
      BY ONLY <1>1, <1>2, <2>1, <3>1
    <3> QED
      BY ONLY <3>2 DEF ToSet
  <2> QED
    BY <2>2, <2>3
<1>7. ASSUME NEW x, x \in ToSet(l) \cup ToSet(p) PROVE x \in ToSet(b)
  <2>1. CASE x \in ToSet(l)
    BY <1>1, <1>2, <1>4, <2>1 DEF ToSet
  <2>2. CASE x \in ToSet(p)
    BY <1>1, <1>2, <1>5, <2>2 DEF ToSet
  <2> QED
    BY <1>7, <2>1, <2>2
<1>8. ToSet(b) = ToSet(l) \cup ToSet(p)
  BY <1>6, <1>7
<1> QED
  BY <1>8 DEF b

LEMMA ListPageKeeps ==
  ASSUME IInv, NEW s \in Sync, ListPage(s)
  PROVE  /\ IInv'
         /\ \E l \in Seq(Item) :
              /\ Answers(s, l) /\ ToSet(l) = ListedBy(s)
              /\ steady[s] /\ answer' # answer => Ids(l) = There
<1>1. ForgeType /\ DiskType /\ CallType /\ DiskOK /\ \A t \in Sync : CallOK(t)
  BY Parts
<1>2. pc[s] = "list" /\ UNCHANGED forge
  BY DEF ListPage
<1>3. /\ All(s) \in Seq(Item) /\ NoNewer(All(s)) /\ Promised(s) \in 0 .. Cardinality(Artifact)
      /\ steady[s] => /\ Len(All(s)) <= Len(Listed)
                      /\ \A i \in DOMAIN All(s) : All(s)[i].id = Listed[i]
                      /\ Promised(s) = Len(Listed)
                      /\ LastPage(s) => Ids(All(s)) = There
  BY <1>1, <1>2, PagesAddUp
<1>9. ToSet(All(s)) = ListedBy(s)
  <2>1. listing[s] \in Seq(Item) /\ Page(Len(listing[s])) \in Seq(Item)
    <3>1. listing[s] \in Seq(Item) /\ Len(listing[s]) \in Nat
      BY <1>1, LenProperties DEF CallType
    <3> QED
      BY <1>1, <3>1, PageIsOfTheList
  <2>2. \A l, p : l \in Seq(Item) /\ p \in Seq(Item) => ToSet(l \o p) = ToSet(l) \cup ToSet(p)
    BY ToSetOfBoth
  <2> QED
    BY <1>2, <2>1, <2>2 DEF All, ListedBy
<1>4. CASE LastPage(s)
  <2>1. FirstWindow(s, Records(All(s)))
    BY <1>4 DEF ListPage, LastPage, All, Promised
  <2>2. /\ Records(All(s)) \in Seq(Item) /\ NoNewer(Records(All(s)))
        /\ steady[s] => Ids(Records(All(s))) = There
        /\ ToSet(Records(All(s))) = ListedBy(s)
    BY <1>3, <1>4, <1>9, RecordsSet
  <2>3. Kept /\ Answers(s, Records(All(s)))
    BY <1>1, <1>2, <2>1, <2>2, FirstWindowKeeps
  <2> QED
    BY <1>1, <1>2, <2>2, <2>3, ForgeUnchanged, PartsNext
<1>5. CASE ~LastPage(s)
  <2>1. /\ listing' = [listing EXCEPT ![s] = All(s)]
        /\ total' = [total EXCEPT ![s] = Promised(s)]
        /\ UNCHANGED <<pc, steady, got, answer, disk>>
    BY <1>5 DEF ListPage, LastPage, All, Promised
  <2>2. got[s] = <<>> /\ Len(<<>>) = 0 /\ DOMAIN <<>> = {}
    BY <1>1, <1>2, EmptySeq DEF CallOK
  <2>3. CallType'
    BY <1>1, <1>2, <1>3, <2>1, <2>2 DEF CallType
  <2>4. There' = There /\ uploaded' = uploaded /\ attempt' = attempt /\ Listed' = Listed
    BY <1>2 DEF There, forge, Listed
  <2>5. ASSUME NEW t \in Sync PROVE CallOK(t)'
    <3>1. CASE t = s
      <4>1. /\ pc'[t] = "list" /\ listing'[t] = All(s) /\ got'[t] = <<>>
            /\ total'[t] = Promised(s) /\ steady'[t] = steady[s]
        BY <1>1, <1>2, <2>1, <2>2, <3>1 DEF CallType
      <4>2. NoNewer(listing[t])'
        BY <1>3, <2>4, <4>1 DEF NoNewer
      <4>3. SteadyOK(t)'
        BY <1>3, <2>4, <4>1 DEF SteadyOK
      <4>4. Len(All(s)) >= 0
        BY <1>3, LenProperties
      <4> QED
        BY <2>2, <4>1, <4>2, <4>3, <4>4 DEF CallOK, Fetched
    <3>2. CASE t # s
      <4>1. /\ pc'[t] = pc[t] /\ listing'[t] = listing[t] /\ got'[t] = got[t]
            /\ total'[t] = total[t] /\ steady'[t] = steady[t]
        BY <1>1, <2>1, <3>2 DEF CallType
      <4> QED
        BY <1>1, <1>2, <4>1, CallLeftAlone
    <3> QED
      BY <3>1, <3>2
  <2>6. answer' = answer /\ Answers(s, All(s))
    BY <1>1, <2>1 DEF Answers, CallType
  <2> QED
    BY <1>1, <1>2, <1>3, <1>9, <2>1, <2>3, <2>5, <2>6, ForgeUnchanged, DiskUnchanged, PartsNext DEF Kept
<1> QED
  BY <1>4, <1>5

(* The archives of a handler, with the next one. *)
NextItem(s) == listing[s][Len(got[s]) + 1]
Have(s) == Append(got[s], [NextItem(s) EXCEPT !.version = uploaded[NextItem(s).id]])

LEMMA HaveIsFetched ==
  ASSUME ForgeType, CallType, NEW s \in Sync, CallOK(s), pc[s] = "download", Accepted(NextItem(s))
  PROVE  /\ listing[s] \in Seq(Item) /\ Have(s) \in Seq(Item)
         /\ Len(Have(s)) = Len(got[s]) + 1 /\ Len(Have(s)) <= Len(listing[s])
         /\ Fetched(listing[s], Have(s))
<1> DEFINE l == listing[s]
           g == got[s]
           n == Len(g) + 1
           item == NextItem(s)
           archive == [item EXCEPT !.version = uploaded[item.id]]
<1>1. /\ l \in Seq(Item) /\ g \in Seq(Item) /\ Len(g) \in Nat /\ Len(l) \in Nat
      /\ DOMAIN l = 1 .. Len(l) /\ DOMAIN g = 1 .. Len(g) /\ Len(g) < Len(l)
  BY LenProperties DEF CallType
<1>2. n \in 1 .. Len(l) /\ item = l[n]
  BY <1>1 DEF NextItem
<1>3. item \in Item
  BY <1>1, <1>2, ElementOfSeq
<1> HIDE DEF item
<1>4. uploaded[item.id] # 0 /\ (item.id \notin Undigested => uploaded[item.id] = item.version)
  BY DEF Accepted, item
<1>5. /\ archive \in Item /\ archive.id = item.id /\ archive.version = uploaded[item.id]
      /\ item.id \in Artifact
  <2>1. item.id \in Artifact
    BY <1>3 DEF Item
  <2>2. uploaded[item.id] \in Nat /\ uploaded[item.id] <= attempt /\ attempt \in 1 .. MaxAttempt
    BY <2>1, UploadedIsPast DEF ForgeType, Attempt
  <2>3. uploaded[item.id] \in Attempt
    BY <1>4, <2>2, Bounds DEF Attempt
  <2> QED
    BY <1>3, <2>1, <2>3 DEF Item
<1> HIDE DEF archive
<1>6. /\ Have(s) = Append(g, archive)
      /\ Have(s) \in Seq(Item) /\ Len(Have(s)) = n
      /\ \A i \in 1 .. n : Have(s)[i] = IF i < n THEN g[i] ELSE archive
  <2>1. Have(s) = Append(g, archive)
    BY DEF Have, archive, item
  <2> HIDE DEF g
  <2>2. /\ Append(g, archive) \in Seq(Item) /\ Len(Append(g, archive)) = Len(g) + 1
        /\ \A i \in 1 .. Len(g) : Append(g, archive)[i] = g[i]
        /\ Append(g, archive)[Len(g) + 1] = archive
    BY <1>1, <1>5, AppendProperties
  <2> QED
    BY <1>1, <2>1, <2>2
<1>7. DOMAIN Have(s) = 1 .. n
  BY <1>6, LenProperties
<1>8. ASSUME NEW j \in 1 .. n
      PROVE  /\ Have(s)[j].id = l[j].id
             /\ Have(s)[j].id \notin Undigested =>
                  /\ Have(s)[j].version = l[j].version
                  /\ \A i \in DOMAIN l : l[i].id = l[j].id => l[i].version <= l[j].version
  <2>1. CASE j < n
    <3>1. j \in DOMAIN g /\ Have(s)[j] = g[j]
      BY <1>1, <1>6, <2>1
    <3> QED
      BY <3>1 DEF CallOK, Fetched
  <2>2. CASE j = n
    <3>1. Have(s)[j] = archive /\ l[j] = item
      BY <1>2, <1>6, <2>2
    <3>2. \A i \in DOMAIN l : uploaded[l[i].id] # 0 => l[i].version <= uploaded[l[i].id]
      BY DEF CallOK, NoNewer
    <3> QED
      BY <1>4, <1>5, <3>1, <3>2
  <2> QED
    BY <1>1, <2>1, <2>2
<1>9. Len(Have(s)) <= Len(l)
  BY <1>1, <1>6
<1>10. Fetched(l, Have(s))
  BY <1>7, <1>8, <1>9 DEF Fetched
<1> QED
  BY <1>1, <1>6, <1>9, <1>10

LEMMA DownloadKeeps ==
  ASSUME IInv, NEW s \in Sync, Download(s)
  PROVE  /\ IInv'
         /\ \E l \in Seq(Item) :
              /\ Answers(s, l) /\ ToSet(l) = ListedBy(s)
              /\ steady[s] /\ answer' # answer => Ids(l) = There
<1>1. ForgeType /\ DiskType /\ CallType /\ DiskOK /\ \A t \in Sync : CallOK(t)
  BY Parts
<1>2. pc[s] = "download" /\ UNCHANGED forge /\ Accepted(NextItem(s))
  BY DEF Download, NextItem
<1>3. /\ listing[s] \in Seq(Item) /\ Have(s) \in Seq(Item)
      /\ Len(Have(s)) = Len(got[s]) + 1 /\ Len(Have(s)) <= Len(listing[s])
      /\ Fetched(listing[s], Have(s))
  BY <1>1, <1>2, HaveIsFetched
<1>4. Len(listing[s]) \in Nat /\ Len(Have(s)) \in Nat
  BY <1>3, LenProperties
<1>9. ToSet(listing[s]) = ListedBy(s)
  BY <1>2 DEF ListedBy
<1>5. CASE ~(Len(Have(s)) < Len(listing[s]))
  <2>1. SecondWindow(s, listing[s], Have(s)) /\ Len(Have(s)) = Len(listing[s])
    BY <1>3, <1>4, <1>5 DEF Download, Have, NextItem
  <2>2. Kept /\ Answers(s, listing[s])
    BY <1>1, <1>2, <1>3, <2>1, SecondWindowKeeps
  <2>3. steady[s] => Ids(listing[s]) = There
    BY <1>1, <1>2 DEF CallOK, SteadyOK
  <2> QED
    BY <1>1, <1>2, <1>3, <1>9, <2>2, <2>3, ForgeUnchanged, PartsNext
<1>6. CASE Len(Have(s)) < Len(listing[s])
  <2>1. /\ got' = [got EXCEPT ![s] = Have(s)]
        /\ UNCHANGED <<pc, listing, total, steady, answer, disk>>
    BY <1>6 DEF Download, Have, NextItem
  <2>2. CallType'
    <3>1. got' \in [Sync -> Seq(Item)]
      BY <1>1, <1>3, <2>1 DEF CallType
    <3>2. \A i \in DOMAIN Have(s) : Have(s)[i].id = listing[s][i].id
      BY <1>3 DEF Fetched
    <3> QED
      BY <1>1, <1>3, <1>6, <2>1, <3>1, <3>2 DEF CallType
  <2>3. There' = There /\ uploaded' = uploaded /\ attempt' = attempt
    BY <1>2 DEF There, forge
  <2>4. ASSUME NEW t \in Sync PROVE CallOK(t)'
    <3>1. CASE t = s
      <4>1. /\ pc'[t] = "download" /\ listing'[t] = listing[t] /\ got'[t] = Have(s)
            /\ steady'[t] = steady[t]
        BY <1>1, <1>2, <2>1, <3>1 DEF CallType
      <4>2. NoNewer(listing[t])'
        BY <1>1, <2>3, <4>1 DEF CallOK, NoNewer
      <4>3. SteadyOK(t)'
        BY <1>1, <1>2, <2>3, <3>1, <4>1 DEF CallOK, SteadyOK, Ids
      <4>4. Fetched(listing[t], got[t])'
        BY <1>3, <3>1, <4>1 DEF Fetched
      <4> QED
        BY <4>1, <4>2, <4>3, <4>4 DEF CallOK
    <3>2. CASE t # s
      <4>1. /\ pc'[t] = pc[t] /\ listing'[t] = listing[t] /\ got'[t] = got[t]
            /\ total'[t] = total[t] /\ steady'[t] = steady[t]
        BY <1>1, <2>1, <3>2 DEF CallType
      <4> QED
        BY <1>1, <1>2, <4>1, CallLeftAlone
    <3> QED
      BY <3>1, <3>2
  <2>5. answer' = answer /\ Answers(s, listing[s])
    BY <1>1, <2>1 DEF Answers, CallType
  <2> QED
    BY <1>1, <1>2, <1>3, <1>9, <2>1, <2>2, <2>4, <2>5, ForgeUnchanged, DiskUnchanged, PartsNext DEF Kept
<1> QED
  BY <1>5, <1>6

LEMMA FailsKeeps ==
  ASSUME IInv, NEW s \in Sync, Fails(s)
  PROVE  /\ IInv'
         /\ \A t \in Sync : ~(answer[t] = "none" /\ answer'[t] \in {"skipped", "downloaded"})
<1>1. ForgeType /\ DiskType /\ CallType /\ DiskOK /\ \A t \in Sync : CallOK(t)
  BY Parts
<1>2. Answer(s, "refused") /\ UNCHANGED disk /\ UNCHANGED forge
  BY DEF Fails, Refuse
<1>3. CallType' /\ \A t \in Sync : CallOK(t)'
  BY <1>1, <1>2, AnswerKeepsCalls
<1>4. \A t \in Sync : ~(answer[t] = "none" /\ answer'[t] \in {"skipped", "downloaded"})
  BY <1>1, <1>2, AnswerOfOne
<1> QED
  BY <1>1, <1>2, <1>3, <1>4, ForgeUnchanged, DiskUnchanged, PartsNext DEF Kept

LEMMA DieKeepsCalls ==
  ASSUME ForgeType, Die
  PROVE  /\ ForgeType' /\ CallType' /\ \A t \in Sync : CallOK(t)'
         /\ \A t \in Sync : answer'[t] = "none"
<1>1. <<>> \in Seq(Item) /\ Len(<<>>) = 0 /\ DOMAIN <<>> = {}
  BY EmptySeq
<1>2. CallType'
  BY <1>1, Bounds DEF Die, CallType
<1>3. ASSUME NEW t \in Sync PROVE CallOK(t)'
  <2>1. pc'[t] = "idle" /\ listing'[t] = <<>> /\ got'[t] = <<>>
    BY DEF Die
  <2> QED
    BY <1>1, <2>1 DEF CallOK, NoNewer, Fetched, SteadyOK
<1>4. ForgeType'
  BY ForgeUnchanged DEF Die
<1> QED
  BY <1>2, <1>3, <1>4 DEF Die

LEMMA CrashesKeep ==
  ASSUME IInv, Crash \/ \E s \in Sync : CrashInWindow(s)
  PROVE  IInv' /\ \A t \in Sync : answer'[t] = "none"
<1>1. ForgeType /\ DiskType /\ CallType /\ DiskOK /\ \A t \in Sync : CallOK(t)
  BY Parts
<1>2. CASE Crash
  BY <1>1, <1>2, DieKeepsCalls, DiskUnchanged, PartsNext DEF Crash, Kept
<1>3. ASSUME NEW s \in Sync, CrashInWindow(s)
      PROVE  IInv' /\ \A t \in Sync : answer'[t] = "none"
  <2>1. /\ pc[s] = "download" /\ Accepted(NextItem(s)) /\ stale' \in BOOLEAN
        /\ CutShort(listing[s], Have(s)) /\ Die
    BY <1>3 DEF CrashInWindow, Have, NextItem
  <2>2. Have(s) \in Seq(Item)
    BY <1>1, <2>1, HaveIsFetched
  <2>3. DiskType' /\ DiskOK'
    BY <1>1, <2>1, <2>2, CutShortDescribes
  <2> QED
    BY <1>1, <2>1, <2>3, DieKeepsCalls, PartsNext DEF Kept
<1> QED
  BY <1>2, <1>3

LEMMA CallsUnchanged ==
  ASSUME CallType, \A t \in Sync : CallOK(t), UNCHANGED forge, UNCHANGED call
  PROVE  CallType' /\ \A t \in Sync : CallOK(t)'
<1>1. CallType'
  BY DEF call, CallType
<1>2. ASSUME NEW t \in Sync PROVE CallOK(t)'
  BY CallLeftAlone DEF call
<1> QED
  BY <1>1, <1>2

LEMMA ScriptsKeep ==
  ASSUME IInv, ScriptRemovesTarget \/ OperatorUnlocks \/ \E a \in Artifact : ScriptTouches(a)
  PROVE  IInv' /\ UNCHANGED answer
<1>1. ForgeType /\ DiskType /\ CallType /\ DiskOK /\ \A t \in Sync : CallOK(t)
  BY Parts
<1>2. UNCHANGED forge /\ UNCHANGED call
  BY DEF ScriptRemovesTarget, OperatorUnlocks, ScriptTouches
<1>3. CASE ScriptRemovesTarget
  <2>1. DiskType' /\ manifest'.kind # "complete"
    BY <1>1, <1>3 DEF ScriptRemovesTarget, DiskType, NoManifest
  <2>2. DiskOK'
    BY <2>1 DEF DiskOK, ManifestDescribesDisk, ListedIsOnDisk
  <2> QED
    BY <1>1, <1>2, <2>1, <2>2, CallsUnchanged, ForgeUnchanged, PartsNext DEF Kept, call
<1>4. CASE OperatorUnlocks
  <2>1. DiskType' /\ DiskOK'
    BY <1>1, <1>4 DEF OperatorUnlocks, DiskType, DiskOK, ManifestDescribesDisk, ListedIsOnDisk, Sound
  <2> QED
    BY <1>1, <1>2, <2>1, CallsUnchanged, ForgeUnchanged, PartsNext DEF Kept, call
<1>5. ASSUME NEW a \in Artifact, ScriptTouches(a)
      PROVE  IInv' /\ UNCHANGED answer
  <2>1. /\ files' \in {[files EXCEPT ![a] = v] : v \in {{}, {Piece}} \ {files[a]}}
        /\ touched' = touched \cup {a}
        /\ manifest' = manifest /\ trimmed' = trimmed /\ stale' = stale
    BY <1>5 DEF ScriptTouches
  <2>2. DiskType'
    BY <1>1, <2>1 DEF DiskType
  <2>3. \A i \in Artifact : Sound(i)' => Sound(i) /\ files'[i] = files[i]
    BY <1>1, <2>1 DEF Sound, DiskType
  <2>4. ManifestDescribesDisk'
    BY <1>1, <2>1, <2>3, ManifestNamesArtifacts DEF DiskOK, ManifestDescribesDisk
  <2>5. ListedIsOnDisk'
    BY <1>1, <2>1, <2>3, ManifestNamesArtifacts DEF DiskOK, ListedIsOnDisk
  <2> QED
    BY <1>1, <1>2, <2>2, <2>4, <2>5, CallsUnchanged, ForgeUnchanged, PartsNext DEF Kept, DiskOK, call
<1> QED
  BY <1>3, <1>4, <1>5

LEMMA RunKeeps ==
  ASSUME IInv, RunCompletes \/ RunIsRerun
  PROVE  IInv' /\ UNCHANGED answer
<1>1. ForgeType /\ DiskType /\ CallType /\ DiskOK /\ \A t \in Sync : CallOK(t)
  BY Parts
<1>2. /\ UNCHANGED disk /\ UNCHANGED call /\ uploaded' = uploaded
      /\ attempt' \in Attempt /\ attempt <= attempt' /\ completed' \in BOOLEAN
  <2>1. attempt \in Attempt /\ attempt \in Nat /\ completed \in BOOLEAN
    BY <1>1, UploadedIsPast DEF ForgeType
  <2>2. CASE RunCompletes
    BY <2>1, <2>2 DEF RunCompletes
  <2>3. CASE RunIsRerun
    <3>1. /\ UNCHANGED <<uploaded, disk, call>> /\ completed' = FALSE
          /\ attempt < MaxAttempt /\ attempt' = attempt + 1
      BY <2>3 DEF RunIsRerun
    <3>2. attempt' \in Attempt /\ attempt <= attempt'
      BY <2>1, <3>1, Bounds DEF Attempt
    <3> QED
      BY <3>1, <3>2
  <2> QED
    BY <2>2, <2>3
<1>3. ForgeType'
  <2>1. \A a \in Artifact : uploaded[a] \in 0 .. attempt'
    BY <1>1, <1>2, UploadedIsPast DEF Attempt
  <2> QED
    BY <1>1, <1>2, <2>1 DEF ForgeType
<1>4. There' = There /\ Listed' = Listed
  BY <1>2 DEF There, Listed
<1>5. CallType'
  BY <1>1, <1>2 DEF call, CallType
<1>6. ASSUME NEW t \in Sync PROVE CallOK(t)'
  <2>1. /\ pc' = pc /\ listing' = listing /\ got' = got /\ total' = total /\ steady' = steady
    BY <1>2 DEF call
  <2>2. NoNewer(listing[t])'
    <3>1. ASSUME NEW i \in DOMAIN listing[t]
          PROVE  /\ listing[t][i].version <= attempt'
                 /\ uploaded[listing[t][i].id] # 0 => listing[t][i].version <= uploaded[listing[t][i].id]
      <4>1. listing[t][i] \in Item
        BY <1>1, <3>1, ElementOfSeq, LenProperties DEF CallType
      <4>2. listing[t][i].version \in Nat
        BY <4>1, Bounds DEF Item, Attempt
      <4>3. /\ listing[t][i].version <= attempt
            /\ uploaded[listing[t][i].id] # 0 => listing[t][i].version <= uploaded[listing[t][i].id]
        BY <1>1, <3>1 DEF CallOK, NoNewer
      <4>4. attempt \in Nat /\ attempt' \in Nat
        BY <1>1, <1>2, UploadedIsPast, Bounds DEF Attempt
      <4> QED
        BY <1>2, <4>2, <4>3, <4>4
    <3> QED
      BY <1>2, <2>1, <3>1 DEF NoNewer
  <2>3. Fetched(listing[t], got[t])'
    BY <1>1, <2>1 DEF CallOK, Fetched
  <2>4. SteadyOK(t)'
    BY <1>1, <1>4, <2>1 DEF CallOK, SteadyOK, Ids
  <2> QED
    BY <1>1, <2>1, <2>2, <2>3, <2>4 DEF CallOK
<1> QED
  BY <1>1, <1>2, <1>3, <1>5, <1>6, DiskUnchanged, PartsNext DEF Kept, call

LEMMA ArtifactsKeep ==
  ASSUME IInv, NEW a \in Artifact, RunsUpload(a) \/ ArtifactExpires(a)
  PROVE  IInv' /\ UNCHANGED answer
<1>1. ForgeType /\ DiskType /\ CallType /\ DiskOK /\ \A t \in Sync : CallOK(t)
  BY Parts
<1>2. /\ UNCHANGED disk /\ attempt' = attempt /\ completed' = completed
      /\ pc' = pc /\ listing' = listing /\ got' = got /\ total' = total /\ answer' = answer
  BY DEF RunsUpload, ArtifactExpires
<1>3. /\ \/ uploaded' = [uploaded EXCEPT ![a] = attempt]
         \/ uploaded' = [uploaded EXCEPT ![a] = 0]
      /\ steady' \in [Sync -> BOOLEAN]
      /\ \A t \in Sync : steady'[t] /\ pc[t] # "idle" =>
           steady[t] /\ uploaded[a] # 0 /\ uploaded' = [uploaded EXCEPT ![a] = attempt]
  BY <1>1 DEF RunsUpload, ArtifactExpires, CallType
<1>4. attempt \in Nat /\ attempt > 0 /\ \A b \in Artifact : uploaded[b] \in Nat /\ uploaded[b] <= attempt
  BY <1>1, UploadedIsPast
<1>5. ForgeType'
  BY <1>1, <1>2, <1>3, <1>4 DEF ForgeType
<1>6. CallType'
  BY <1>1, <1>2, <1>3 DEF CallType
<1>7. ASSUME NEW t \in Sync PROVE CallOK(t)'
  <2>1. NoNewer(listing[t])'
    <3>1. ASSUME NEW i \in DOMAIN listing[t]
          PROVE  /\ listing[t][i].version <= attempt
                 /\ uploaded'[listing[t][i].id] # 0 => listing[t][i].version <= uploaded'[listing[t][i].id]
      <4> DEFINE item == listing[t][i]
      <4>1. item \in Item
        BY <1>1, <3>1, ElementOfSeq, LenProperties DEF CallType
      <4>2. /\ item.version <= attempt
            /\ uploaded[item.id] # 0 => item.version <= uploaded[item.id]
        BY <1>1, <3>1 DEF CallOK, NoNewer
      <4> HIDE DEF item
      <4>3. item.id \in Artifact
        BY <4>1 DEF Item
      <4>4. uploaded'[item.id] \in {uploaded[item.id], attempt, 0}
        BY <1>1, <1>3, <4>3 DEF ForgeType
      <4>5. uploaded'[item.id] # 0 => item.version <= uploaded'[item.id]
        BY <4>2, <4>4
      <4> QED
        BY <4>2, <4>5 DEF item
    <3> QED
      BY <1>2, <3>1 DEF NoNewer
  <2>2. Fetched(listing[t], got[t])'
    BY <1>1, <1>2 DEF CallOK, Fetched
  <2>3. CASE pc[t] = "idle" \/ ~steady'[t]
    BY <1>1, <1>2, <2>1, <2>2, <2>3 DEF CallOK, SteadyOK
  <2>4. CASE pc[t] # "idle" /\ steady'[t]
    <3>1. steady[t] /\ uploaded[a] # 0 /\ uploaded' = [uploaded EXCEPT ![a] = attempt]
      BY <1>3, <2>4
    <3>2. There' = There
      BY <1>1, <1>4, <3>1 DEF There, ForgeType
    <3>3. Listed' = Listed
      BY <3>2 DEF Listed
    <3>4. SteadyOK(t)'
      BY <1>1, <1>2, <3>1, <3>2, <3>3 DEF CallOK, SteadyOK, Ids
    <3> QED
      BY <1>1, <1>2, <2>1, <2>2, <3>4 DEF CallOK
  <2> QED
    BY <2>3, <2>4, <1>6 DEF CallType
<1> QED
  BY <1>1, <1>2, <1>5, <1>6, <1>7, DiskUnchanged, PartsNext DEF Kept

-----------------------------------------------------------------------------
(* The invariant *)

LEMMA InitEstablishes == Init => IInv
<1> SUFFICES ASSUME Init PROVE IInv
  OBVIOUS
<1>1. <<>> \in Seq(Item) /\ Len(<<>>) = 0 /\ DOMAIN <<>> = {}
  BY EmptySeq
<1>2. ForgeType
  <2>1. 1 \in Attempt /\ 0 \in 0 .. 1
    BY Bounds DEF Attempt
  <2> QED
    BY <2>1 DEF Init, ForgeType
<1>3. DiskType /\ manifest.kind # "complete"
  BY DEF Init, DiskType, NoManifest
<1>4. DiskOK
  BY <1>3 DEF DiskOK, ManifestDescribesDisk, ListedIsOnDisk
<1>5. CallType
  BY <1>1, Bounds DEF Init, CallType
<1>6. ASSUME NEW t \in Sync PROVE CallOK(t)
  BY <1>1 DEF Init, CallOK, NoNewer, Fetched, SteadyOK
<1> QED
  BY <1>2, <1>3, <1>4, <1>5, <1>6, Parts

LEMMA StutterKeeps ==
  ASSUME IInv, UNCHANGED vars
  PROVE  IInv' /\ UNCHANGED answer
<1>1. ForgeType /\ DiskType /\ CallType /\ DiskOK /\ \A t \in Sync : CallOK(t)
  BY Parts
<1>2. UNCHANGED forge /\ UNCHANGED disk /\ UNCHANGED call
  BY DEF vars
<1> QED
  BY <1>1, <1>2, CallsUnchanged, ForgeUnchanged, DiskUnchanged, PartsNext DEF Kept, call

(* Either the step claims nothing, or one handler answers with a list it   *)
(* has read in full.                                                       *)
LEMMA NextKeeps ==
  ASSUME IInv, [Next]_vars
  PROVE  /\ IInv'
         /\ \/ \A t \in Sync : ~(answer[t] = "none" /\ answer'[t] \in {"skipped", "downloaded"})
            \/ \E s \in Sync, l \in Seq(Item) :
                 /\ Answers(s, l) /\ ToSet(l) = ListedBy(s)
                 /\ steady[s] /\ answer' # answer => Ids(l) = There
<1>1. ASSUME NEW s \in Sync, Start(s)
      PROVE  /\ IInv'
             /\ \A t \in Sync : ~(answer[t] = "none" /\ answer'[t] \in {"skipped", "downloaded"})
  BY <1>1, StartKeeps DEF Start, IInv, TypeOK
<1>2. CASE \E s \in Sync : ListPage(s)
  BY <1>2, ListPageKeeps
<1>3. CASE \E s \in Sync : Download(s)
  BY <1>3, DownloadKeeps
<1>4. CASE \E s \in Sync : Fails(s)
  BY <1>4, FailsKeeps
<1>5. CASE Crash \/ \E s \in Sync : CrashInWindow(s)
  BY <1>5, CrashesKeep
<1>6. CASE \/ ScriptRemovesTarget \/ OperatorUnlocks \/ \E a \in Artifact : ScriptTouches(a)
           \/ RunCompletes \/ RunIsRerun
           \/ \E a \in Artifact : RunsUpload(a) \/ ArtifactExpires(a)
           \/ UNCHANGED vars
  <2>1. IInv' /\ UNCHANGED answer
    BY <1>6, ScriptsKeep, RunKeeps, ArtifactsKeep, StutterKeeps
  <2> QED
    BY <2>1
<1> QED
  BY <1>1, <1>2, <1>3, <1>4, <1>5, <1>6 DEF Next

LEMMA Inductive == Spec => []IInv
BY InitEstablishes, NextKeeps, PTL DEF Spec

-----------------------------------------------------------------------------
(* Theorems *)

(* A manifest that parses tells what is in every directory that nobody cut *)
(* or touched since: sync_run_artifacts_to_workspace removes it first and  *)
(* writes it last.                                                         *)
THEOREM ManifestTellsWhatIsThere == Spec => []ManifestDescribesDisk
<1>1. IInv => ManifestDescribesDisk
  BY DEF IInv
<1> QED
  BY <1>1, Inductive, PTL

(* A request answers about exactly what it listed itself, in the versions  *)
(* it listed: the manifest names that, and what has a digest is in the     *)
(* workspace, downloaded now or skipped because it was there already.      *)
THEOREM ClaimedArtifactsAreThere == Spec => AnsweredIsOnDisk
<1> DEFINE A(s) ==
      /\ answer[s] = "none" /\ answer'[s] \in {"skipped", "downloaded"}
      => /\ ToSet(manifest'.listing) = ListedBy(s)
         /\ \A i \in ListedBy(s) :
              /\ i.id \in Undigested => answer'[s] = "downloaded"
              /\ Sound(i.id)' /\ i.id \notin Undigested => files'[i.id] = {i.version}
<1>1. ASSUME IInv, [Next]_vars
      PROVE  \A s \in Sync : A(s)
  <2> SUFFICES ASSUME NEW s \in Sync, answer[s] = "none", answer'[s] \in {"skipped", "downloaded"}
               PROVE  /\ ToSet(manifest'.listing) = ListedBy(s)
                      /\ \A i \in ListedBy(s) :
                           /\ i.id \in Undigested => answer'[s] = "downloaded"
                           /\ Sound(i.id)' /\ i.id \notin Undigested => files'[i.id] = {i.version}
    OBVIOUS
  <2>1. PICK t \in Sync, l \in Seq(Item) : Answers(t, l) /\ ToSet(l) = ListedBy(t)
    BY <1>1, NextKeeps
  <2>2. /\ t = s /\ manifest'.kind = "complete" /\ manifest'.listing = l
        /\ answer'[s] = "skipped" => \A j \in ToSet(l) : j.id \notin Undigested
    BY <2>1 DEF Answers
  <2>3. ListedIsOnDisk'
    BY <1>1, NextKeeps DEF IInv
  <2> QED
    BY <2>1, <2>2, <2>3 DEF ListedIsOnDisk
<1>2. IInv /\ [Next]_vars => [\A s \in Sync : A(s)]_vars
  BY <1>1
<1> QED
  BY <1>2, Inductive, PTL DEF Spec, AnsweredIsOnDisk

(* Unless an artifact appears or vanishes during the request, an answer is *)
(* about all the forge has, however many pages it takes.                   *)
THEOREM SteadyPagesAddUp == Spec => SteadyListIsWhole
<1> DEFINE A(s) ==
      /\ answer[s] = "none" /\ answer'[s] \in {"skipped", "downloaded"} /\ steady[s]
      => {i.id : i \in ToSet(manifest'.listing)} = {a \in Artifact : uploaded[a] # 0}
<1>1. ASSUME IInv, [Next]_vars
      PROVE  \A s \in Sync : A(s)
  <2> SUFFICES ASSUME NEW s \in Sync, answer[s] = "none", answer'[s] \in {"skipped", "downloaded"},
                      steady[s]
               PROVE  Ids(manifest'.listing) = There
    BY DEF Ids, There
  <2>1. PICK t \in Sync, l \in Seq(Item) :
          Answers(t, l) /\ (steady[t] /\ answer' # answer => Ids(l) = There)
    BY <1>1, NextKeeps
  <2>2. t = s /\ manifest'.listing = l
    BY <2>1 DEF Answers
  <2> QED
    BY <2>1, <2>2
<1>2. IInv /\ [Next]_vars => [\A s \in Sync : A(s)]_vars
  BY <1>1
<1> QED
  BY <1>2, Inductive, PTL DEF Spec, SteadyListIsWhole
=============================================================================
