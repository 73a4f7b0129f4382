---------------------------- MODULE ArtifactSync ----------------------------
(***************************************************************************)
(* sync_run_artifacts_to_workspace of app/services/workspaces.py: several  *)
(* handlers copy the artifacts of one workflow run into one workspace,     *)
(* while the forge reruns the run and scripts use what was copied.         *)
(*                                                                         *)
(* A handler awaits the forge for the run, for every page of the list and  *)
(* for every archive.  Its two locked windows have no await inside, so     *)
(* each belongs to the step whose answer it follows; in the second one     *)
(* only a failure or a crash comes between two files.                      *)
(***************************************************************************)
EXTENDS Integers, Sequences, FiniteSets, SequencesExt

CONSTANTS
  Sync,        \* handlers
  Artifact,    \* artifact ids of the run, in the order of the list
  Undigested,  \* those the forge reports no digest of
  PageSize,    \* _ARTIFACT_PAGE_SIZE
  MaxAttempt   \* bound of the model: attempts of the run

ASSUME ArtifactAssumption ==
  /\ Artifact \subseteq Nat /\ IsFiniteSet(Artifact)
  /\ Undigested \subseteq Artifact
  /\ PageSize \in Nat \ {0} /\ MaxAttempt \in Nat \ {0}

VARIABLES
  attempt,    \* attempt of the run
  completed,  \* the run has completed
  uploaded,   \* the attempt whose file the forge has of an artifact, 0 for none
  manifest,   \* manifest.json: NoManifest, Torn, or what it lists and has synced
  files,      \* what is in the directory of an artifact: attempts whose files,
              \* Piece for a part of them, nothing when it does not exist
  touched,    \* history: directories scripts changed since the manifest
  trimmed,    \* history: directories an interrupted removal cut since then
  stale,      \* a crash left the lock
  pc,         \* where a handler awaits: "idle", "list", "download"
  listing,    \* the items it has listed
  total,      \* total_count of the first page
  steady,     \* history: artifacts neither appeared nor vanished since it started
  got,        \* the archives it has downloaded
  answer      \* how its last request ended

forge  == <<attempt, completed, uploaded>>
disk   == <<manifest, files, touched, trimmed, stale>>
call   == <<pc, listing, total, steady, got, answer>>
vars   == <<forge, disk, call>>

Attempt == 1 .. MaxAttempt
Item == [id : Artifact, version : Attempt]
NoManifest == [kind |-> "none"]
Torn == [kind |-> "torn"]
Complete(l, g) == [kind |-> "complete", listing |-> l, synced |-> g]
Piece == 0

(* Handlers have downloaded a prefix of what they listed, and manifests    *)
(* and lists are made of items the forge had.                              *)
TypeOK ==
  /\ attempt \in Attempt /\ completed \in BOOLEAN
  /\ uploaded \in [Artifact -> 0 .. attempt]
  /\ manifest \in {NoManifest, Torn} \cup
       [kind : {"complete"}, listing : Seq(Item), synced : Seq(Item)]
  /\ files \in [Artifact -> SUBSET ({Piece} \cup Attempt)]
  /\ touched \subseteq Artifact /\ trimmed \subseteq Artifact
  /\ stale \in BOOLEAN
  /\ pc \in [Sync -> {"idle", "list", "download"}]
  /\ listing \in [Sync -> Seq(Item)] /\ got \in [Sync -> Seq(Item)]
  /\ total \in [Sync -> 0 .. Cardinality(Artifact)]
  /\ steady \in [Sync -> BOOLEAN]
  /\ answer \in [Sync -> {"none", "refused", "skipped", "downloaded"}]
  /\ \A s \in Sync :
       /\ pc[s] = "download" => Len(got[s]) < Len(listing[s])
       /\ \A i \in DOMAIN got[s] : got[s][i].id = listing[s][i].id

(* A prepared workspace and a run that is in progress. *)
Init ==
  /\ attempt = 1 /\ completed = FALSE
  /\ uploaded = [a \in Artifact |-> 0]
  /\ manifest = NoManifest /\ files = [a \in Artifact |-> {}]
  /\ touched = {} /\ trimmed = {} /\ stale = FALSE
  /\ pc = [s \in Sync |-> "idle"]
  /\ listing = [s \in Sync |-> <<>>] /\ got = [s \in Sync |-> <<>>]
  /\ total = [s \in Sync |-> 0] /\ steady = [s \in Sync |-> TRUE]
  /\ answer = [s \in Sync |-> "none"]

-----------------------------------------------------------------------------
(* The windows under the lock *)

Answer(s, how) ==
  /\ pc' = [pc EXCEPT ![s] = "idle"]
  /\ answer' = [answer EXCEPT ![s] = how]
  /\ listing' = [listing EXCEPT ![s] = <<>>] /\ got' = [got EXCEPT ![s] = <<>>]
  /\ total' = [total EXCEPT ![s] = 0] /\ steady' = [steady EXCEPT ![s] = TRUE]

Refuse(s) == Answer(s, "refused") /\ UNCHANGED disk

(* Fault: the manifest is compared by ids only. *)
CurrentByIds(l) ==
  /\ \A i \in ToSet(l) : i.id \notin Undigested
  /\ manifest.kind = "complete"
  /\ {i.id : i \in ToSet(manifest.listing)} = {i.id : i \in ToSet(l)}
  /\ \A i \in ToSet(manifest.synced) : files[i.id] # {}

(* The manifest lists the same, all of it with digests, and the            *)
(* directories it names exist.                                             *)
Current(l) ==
  /\ \A i \in ToSet(l) : i.id \notin Undigested
  /\ manifest.kind = "complete"
  /\ manifest.listing = l
  /\ \A i \in ToSet(manifest.synced) : files[i.id] # {}

(* The directories after the first n archives were extracted; two archives *)
(* of one id go to the same directory.                                     *)
Extracted(g, n) ==
  [a \in Artifact |-> {g[i].version : i \in {j \in 1 .. n : g[j].id = a}}]

(* Fault: the manifest is written before the archives are extracted. *)
CutShortAfterManifest(l, g) ==
  \E n \in 0 .. Len(g) :
    /\ files' = Extracted(g, n)
    /\ manifest' = Complete(l, g)
    /\ touched' = {} /\ trimmed' = {}

(* An error or a crash on the way: while the old target is removed, in any *)
(* order; while the archives are extracted, the manifest being gone; or    *)
(* while the manifest is written.                                          *)
CutShort(l, g) ==
  \/ \E cut \in SUBSET {a \in Artifact : files[a] # {}}, left \in {{}, {Piece}} :
       /\ files' = [a \in Artifact |-> IF a \in cut THEN left ELSE files[a]]
       /\ trimmed' = trimmed \cup cut
       /\ manifest' \in {manifest, NoManifest}
       /\ UNCHANGED touched
  \/ \E n \in 0 .. Len(g), part \in {{}, {Piece}} :
       /\ files' = [a \in Artifact |->
            IF n < Len(g) /\ g[n + 1].id = a THEN Extracted(g, n)[a] \cup part ELSE Extracted(g, n)[a]]
       /\ manifest' = NoManifest
       /\ touched' = {} /\ trimmed' = {}
  \/ /\ files' = Extracted(g, Len(g))
     /\ manifest' = Torn
     /\ touched' = {} /\ trimmed' = {}

(* The second window replaces the target, unless the manifest has become   *)
(* current meanwhile.                                                      *)
Replace(s, l, g) ==
  /\ ~stale /\ manifest # Torn /\ ~Current(l)
  /\ files' = Extracted(g, Len(g))
  /\ manifest' = Complete(l, g)
  /\ touched' = {} /\ trimmed' = {}
  /\ Answer(s, "downloaded")
  /\ UNCHANGED stale

ReplaceFails(s, l, g) ==
  /\ ~stale /\ manifest # Torn /\ ~Current(l)
  /\ CutShort(l, g)
  /\ Answer(s, "refused")
  /\ UNCHANGED stale

SecondWindow(s, l, g) ==
  \/ Replace(s, l, g)
  \/ ReplaceFails(s, l, g)
  \/ ~stale /\ Current(l) /\ Answer(s, "skipped") /\ UNCHANGED disk
  \/ (stale \/ manifest = Torn) /\ Refuse(s)

(* The first window only looks.  Without artifacts the second follows.     *)
FirstWindow(s, l) ==
  \/ (stale \/ manifest = Torn) /\ Refuse(s)
  \/ ~stale /\ Current(l) /\ Answer(s, "skipped") /\ UNCHANGED disk
  \/ /\ ~stale /\ manifest # Torn /\ ~Current(l) /\ l # <<>>
     /\ pc' = [pc EXCEPT ![s] = "download"]
     /\ listing' = [listing EXCEPT ![s] = l]
     /\ UNCHANGED <<total, steady, got, answer, disk>>
  \/ l = <<>> /\ ~stale /\ manifest # Torn /\ ~Current(l) /\ SecondWindow(s, <<>>, <<>>)

-----------------------------------------------------------------------------
(* What handlers wait for *)

(* get_workflow_run: only completed runs are synchronised. *)
Start(s) ==
  /\ pc[s] = "idle"
  /\ completed
  /\ pc' = [pc EXCEPT ![s] = "list"]
  /\ answer' = [answer EXCEPT ![s] = "none"]
  /\ UNCHANGED <<listing, total, steady, got, disk, forge>>

There == {a \in Artifact : uploaded[a] # 0}

(* The numbers of S in ascending order: the nth has n that are not larger. *)
Sorted(S) ==
  [n \in 1 .. Cardinality(S) |-> CHOOSE a \in S : Cardinality({b \in S : b <= a}) = n]

Listed == Sorted(There)

(* The items of the list from one on, at most a page of them. *)
ItemsAfter(from) ==
  LET left == Len(Listed) - from
  IN  [i \in 1 .. (IF left < PageSize THEN left ELSE PageSize) |->
         [id |-> Listed[from + i], version |-> uploaded[Listed[from + i]]]]

(* Fault: the second page starts one item late. *)
PageOneLate(from) == ItemsAfter(IF from = 0 THEN 0 ELSE from + 1)

Page(from) == ItemsAfter(from)

(* _artifact_manifest_records: by id, which leaves items of one id in the  *)
(* order of their pages.                                                   *)
Records(l) ==
  LET Rank(i) ==
        Cardinality({j \in DOMAIN l : l[j].id < l[i].id \/ (l[j].id = l[i].id /\ j <= i)})
  IN  [n \in DOMAIN l |-> l[CHOOSE i \in DOMAIN l : Rank(i) = n]]

(* One page; the last one leads into the first window.  The total is the   *)
(* first page's, the pages are of the list as it is when they are read.    *)
ListPage(s) ==
  LET seen == Len(listing[s])
      page == Page(seen)
      all  == listing[s] \o page
      sum  == IF seen = 0 THEN Len(Listed) ELSE total[s]
  IN  /\ pc[s] = "list"
      /\ IF page = <<>> \/ Len(all) >= sum \/ Len(page) < PageSize
           THEN FirstWindow(s, Records(all))
           ELSE /\ listing' = [listing EXCEPT ![s] = all]
                /\ total' = [total EXCEPT ![s] = sum]
                /\ UNCHANGED <<pc, steady, got, answer, disk>>
      /\ UNCHANGED forge

(* The archive is there and has the digest it was listed with, if any. *)
Accepted(item) ==
  /\ uploaded[item.id] # 0
  /\ item.id \notin Undigested => uploaded[item.id] = item.version

(* One archive; the last one leads into the second window. *)
Download(s) ==
  LET item == listing[s][Len(got[s]) + 1]
      have == Append(got[s], [item EXCEPT !.version = uploaded[item.id]])
  IN  /\ pc[s] = "download"
      /\ Accepted(item)
      /\ IF Len(have) < Len(listing[s])
           THEN got' = [got EXCEPT ![s] = have] /\ UNCHANGED <<pc, listing, total, steady, answer, disk>>
           ELSE SecondWindow(s, listing[s], have)
      /\ UNCHANGED forge

(* The forge fails, the archive is another one, or another operation holds *)
(* the lock.                                                               *)
Fails(s) == pc[s] # "idle" /\ Refuse(s) /\ UNCHANGED forge

-----------------------------------------------------------------------------
(* Around the handlers *)

Die ==
  /\ pc' = [s \in Sync |-> "idle"] /\ answer' = [s \in Sync |-> "none"]
  /\ listing' = [s \in Sync |-> <<>>] /\ got' = [s \in Sync |-> <<>>]
  /\ total' = [s \in Sync |-> 0] /\ steady' = [s \in Sync |-> TRUE]
  /\ UNCHANGED forge

Crash == (\E s \in Sync : pc[s] # "idle") /\ Die /\ UNCHANGED disk

(* A crash inside the second window of a handler that has everything but   *)
(* its last archive.                                                       *)
CrashInWindow(s) ==
  LET item == listing[s][Len(got[s]) + 1]
      have == Append(got[s], [item EXCEPT !.version = uploaded[item.id]])
  IN  /\ pc[s] = "download" /\ Len(have) = Len(listing[s]) /\ Accepted(item)
      /\ ~stale /\ manifest # Torn /\ ~Current(listing[s])
      /\ CutShort(listing[s], have)
      /\ stale' = TRUE
      /\ Die

OperatorUnlocks ==
  /\ stale /\ stale' = FALSE
  /\ UNCHANGED <<manifest, files, touched, trimmed, forge, call>>

(* A script deletes or damages what was copied, or all of the target. *)
ScriptTouches(a) ==
  /\ ~stale
  /\ files[a] # {}
  /\ files' \in {[files EXCEPT ![a] = v] : v \in {{}, {Piece}} \ {files[a]}}
  /\ touched' = touched \cup {a}
  /\ UNCHANGED <<manifest, trimmed, stale, forge, call>>

ScriptRemovesTarget ==
  /\ ~stale
  /\ manifest # NoManifest
  /\ manifest' = NoManifest /\ files' = [a \in Artifact |-> {}]
  /\ touched' = {} /\ trimmed' = {}
  /\ UNCHANGED <<stale, forge, call>>

RunsUpload(a) ==
  /\ ~completed /\ uploaded[a] # attempt
  /\ uploaded' = [uploaded EXCEPT ![a] = attempt]
  /\ steady' = [s \in Sync |-> steady[s] /\ (pc[s] = "idle" \/ uploaded[a] # 0)]
  /\ UNCHANGED <<attempt, completed, disk, pc, listing, total, got, answer>>

RunCompletes ==
  /\ ~completed /\ completed' = TRUE
  /\ UNCHANGED <<attempt, uploaded, disk, call>>

RunIsRerun ==
  /\ completed /\ attempt < MaxAttempt
  /\ completed' = FALSE /\ attempt' = attempt + 1
  /\ UNCHANGED <<uploaded, disk, call>>

ArtifactExpires(a) ==
  /\ completed /\ uploaded[a] # 0
  /\ uploaded' = [uploaded EXCEPT ![a] = 0]
  /\ steady' = [s \in Sync |-> steady[s] /\ pc[s] = "idle"]
  /\ UNCHANGED <<attempt, completed, disk, pc, listing, total, got, answer>>

Next ==
  \/ \E s \in Sync : Start(s) \/ ListPage(s) \/ Download(s) \/ Fails(s) \/ CrashInWindow(s)
  \/ Crash \/ OperatorUnlocks \/ ScriptRemovesTarget
  \/ \E a \in Artifact : ScriptTouches(a) \/ RunsUpload(a) \/ ArtifactExpires(a)
  \/ RunCompletes \/ RunIsRerun

Spec == Init /\ [][Next]_vars

-----------------------------------------------------------------------------
(* Properties *)

Sound(a) == a \notin touched \cup trimmed

(* A manifest that parses tells what is in every directory nobody cut or   *)
(* touched since, whatever failures, crashes and other synchronisations    *)
(* came before it: it goes first and is written last.                      *)
ManifestDescribesDisk ==
  manifest.kind = "complete" =>
    \A i \in ToSet(manifest.synced) :
      Sound(i.id) => files[i.id] = {j.version : j \in {k \in ToSet(manifest.synced) : k.id = i.id}}

(* What a handler has listed by itself, with the page that just arrived. *)
ListedBy(s) ==
  ToSet(listing[s]) \cup (IF pc[s] = "list" THEN ToSet(Page(Len(listing[s]))) ELSE {})

(* An answer is about exactly what this very request listed, in the        *)
(* versions it listed: that is what the manifest names, and, of artifacts  *)
(* with a digest, what is in the workspace, downloaded or skipped.  No     *)
(* list with an artifact without a digest is skipped.                      *)
AnsweredIsOnDisk ==
  [][\A s \in Sync :
       /\ answer[s] = "none" /\ answer'[s] \in {"skipped", "downloaded"}
       => /\ ToSet(manifest'.listing) = ListedBy(s)
          /\ \A i \in ListedBy(s) :
               /\ i.id \in Undigested => answer'[s] = "downloaded"
               /\ Sound(i.id)' /\ i.id \notin Undigested => files'[i.id] = {i.version}]_vars

(* As long as no artifact appears or vanishes during the request, what is  *)
(* answered is everything the forge has, whatever else happens to the run  *)
(* and however many pages it takes.                                        *)
SteadyListIsWhole ==
  [][\A s \in Sync :
       /\ answer[s] = "none" /\ answer'[s] \in {"skipped", "downloaded"} /\ steady[s]
       => {i.id : i \in ToSet(manifest'.listing)} = {a \in Artifact : uploaded[a] # 0}]_vars
=============================================================================
