------------------------ MODULE PullRequests_proofs ------------------------
(***************************************************************************)
(* Theorems about PullRequests: what a merge merges and is answered, what  *)
(* a create is answered, for any handlers, branches and page size.         *)
(***************************************************************************)
EXTENDS PullRequests, SequenceTheorems, FiniteSetTheorems, TLAPS

Pcs == {"idle", "list", "create", "get", "merge", "reread", "head", "runs"}

Request == [base : Base \cup {"none"}, pull : Nat, sha : 0 .. MaxSha]

(* Pull requests and the commits they were merged at; what is not merged   *)
(* has no commit yet.                                                      *)
ForgeOK ==
  /\ head \in Sha
  /\ pulls \in Seq(Pull)
  /\ merged \in Seq(0 .. MaxSha) /\ Len(merged) = Len(pulls)
  /\ \A n \in Number : merged[n] > 0 => pulls[n].state = "merged"

CallsOK ==
  /\ pc \in [Handler -> Pcs]
  /\ ask \in [Handler -> Request]
  /\ \A h \in Handler : pc[h] \in {"list", "create"} => ask[h].base \in Base
  /\ \A h \in Handler : pc[h] \in {"get", "merge", "reread"} =>
       ask[h].pull \in Number /\ ask[h].sha \in Sha

(* Between the merge and the answer the pull request stays as it was       *)
(* merged.                                                                 *)
RereadIsMerged ==
  \A h \in Handler : pc[h] = "reread" => merged[ask[h].pull] = ask[h].sha

(* A create that saw all open pull requests, none of its pair among them,  *)
(* and was not disturbed since, will not conflict.                         *)
CreateSawAll ==
  \A h \in Handler : pc[h] = "create" /\ h \notin full /\ h \notin moved =>
    OpenFor(ask[h].base) = {}

AnswerOK ==
  /\ answer.kind = "merged" =>
       answer.pull \in Number /\ answer.sha \in Sha /\ merged[answer.pull] = answer.sha
  /\ answer.kind = "conflict" => ~answer.all

IInv == ForgeOK /\ CallsOK /\ RereadIsMerged /\ CreateSawAll /\ AnswerOK

-----------------------------------------------------------------------------
(* The forge *)

(* What was merged stays merged at its commit. *)
ForgeKeeps ==
  \A n \in Number : n \in Number' /\ (merged[n] > 0 => merged'[n] = merged[n])

LEMMA Put ==
  ASSUME NEW S, NEW s \in Seq(S), NEW i \in DOMAIN s, NEW v \in S
  PROVE  /\ [s EXCEPT ![i] = v] \in Seq(S)
         /\ Len([s EXCEPT ![i] = v]) = Len(s)
         /\ DOMAIN [s EXCEPT ![i] = v] = DOMAIN s
         /\ [s EXCEPT ![i] = v][i] = v
         /\ \A j \in DOMAIN s : j # i => [s EXCEPT ![i] = v][j] = s[j]
BY ExceptSeq

LEMMA NumberIsInterval == ForgeOK => Number = 1 .. Len(pulls) /\ DOMAIN merged = 1 .. Len(pulls)
BY DEF ForgeOK, Number

(* No step of the kind at hand opens anything. *)
OpensNone == \A base : OpenFor(base)' \subseteq OpenFor(base)

LEMMA Same ==
  ASSUME ForgeOK, UNCHANGED <<head, pulls, merged>>
  PROVE  ForgeOK' /\ ForgeKeeps /\ Number' = Number /\ OpensNone
BY DEF ForgeOK, ForgeKeeps, Number, Sha, OpensNone, OpenFor, Open

LEMMA Opened ==
  ASSUME ForgeOK, NEW base \in Base, OpenPull(base)
  PROVE  /\ ForgeOK' /\ ForgeKeeps
         /\ Len(pulls') \in Number' /\ pulls'[Len(pulls')] = [base |-> base, state |-> "open"]
<1> DEFINE new == [base |-> base, state |-> "open"]
<1>1. new \in Pull
  BY DEF Pull
<1>2. /\ pulls' \in Seq(Pull) /\ Len(pulls') = Len(pulls) + 1
      /\ pulls'[Len(pulls) + 1] = new
      /\ \A n \in 1 .. Len(pulls) : pulls'[n] = pulls[n]
  BY <1>1, AppendProperties DEF OpenPull, ForgeOK
<1>3. /\ merged' \in Seq(0 .. MaxSha) /\ Len(merged') = Len(merged) + 1
      /\ merged'[Len(merged) + 1] = 0
      /\ \A n \in 1 .. Len(merged) : merged'[n] = merged[n]
  <2>1. 0 \in 0 .. MaxSha
    BY MaxShaAssumption
  <2> QED
    BY <2>1, AppendProperties DEF OpenPull, ForgeOK
<1>4. head' \in Sha
  BY DEF OpenPull, ForgeOK, Sha
<1>5. Len(pulls) \in Nat /\ Len(merged) = Len(pulls) /\ Number = 1 .. Len(pulls)
  BY DEF ForgeOK, Number
<1>6. Number' = 1 .. Len(pulls) + 1
  BY <1>2, <1>5 DEF Number
<1>7. \A n \in Number' : merged'[n] > 0 => pulls'[n].state = "merged"
  BY <1>2, <1>3, <1>5, <1>6 DEF ForgeOK
<1> QED
  BY <1>2, <1>3, <1>4, <1>5, <1>6, <1>7 DEF ForgeOK, ForgeKeeps

LEMMA Merges ==
  ASSUME ForgeOK, NEW n \in Number, MergeAt(n)
  PROVE  /\ ForgeOK' /\ ForgeKeeps /\ Number' = Number
         /\ merged'[n] = head
         /\ OpensNone
<1> DEFINE now == [base |-> pulls[n].base, state |-> "merged"]
<1>1. pulls[n] \in Pull /\ n \in DOMAIN pulls /\ n \in DOMAIN merged
  BY NumberIsInterval DEF ForgeOK, Number
<1>2. now \in Pull /\ now.state = "merged"
  BY <1>1 DEF Pull
<1>3. pulls' = [pulls EXCEPT ![n] = now] /\ merged' = [merged EXCEPT ![n] = head]
  <2>1. [pulls[n] EXCEPT !.state = "merged"] = now
    BY <1>1 DEF Pull
  <2> QED
    BY <2>1 DEF MergeAt
<1>4. /\ pulls' \in Seq(Pull) /\ Len(pulls') = Len(pulls) /\ Number' = Number
      /\ pulls'[n] = now
      /\ \A m \in Number : m # n => pulls'[m] = pulls[m]
  BY <1>1, <1>2, <1>3, Put DEF ForgeOK, Number
<1>5. head \in 0 .. MaxSha
  BY DEF ForgeOK, Sha
<1>6. /\ merged' \in Seq(0 .. MaxSha) /\ Len(merged') = Len(merged)
      /\ merged'[n] = head
      /\ \A m \in DOMAIN merged : m # n => merged'[m] = merged[m]
  BY <1>1, <1>3, <1>5, Put DEF ForgeOK
<1>7. merged[n] = 0
  <2>1. pulls[n].state = "open"
    BY Zenon DEF MergeAt
  <2>2. merged[n] \in 0 .. MaxSha
    BY NumberIsInterval, ElementOfSeq DEF ForgeOK
  <2> QED
    BY <2>1, <2>2, MaxShaAssumption DEF ForgeOK
<1>8. \A m \in Number' : merged'[m] > 0 => pulls'[m].state = "merged"
  BY <1>2, <1>4, <1>6, NumberIsInterval DEF ForgeOK
<1>9. \A m \in Number : merged[m] > 0 => merged'[m] = merged[m]
  BY <1>6, <1>7, NumberIsInterval
<1>10. OpensNone
  BY <1>2, <1>4 DEF OpensNone, OpenFor, Open
<1>11. head' \in Sha
  BY DEF MergeAt, ForgeOK, Sha
<1> QED
  BY <1>4, <1>6, <1>8, <1>9, <1>10, <1>11 DEF ForgeOK, ForgeKeeps

LEMMA Changes ==
  ASSUME ForgeOK, NEW n \in Number, NEW base \in Base, NEW state \in {"open", "closed"},
         Change(n, base, state)
  PROVE  /\ ForgeOK' /\ ForgeKeeps /\ Number' = Number
         /\ state = "closed" => OpensNone
<1> DEFINE now == [base |-> base, state |-> state]
<1>1. n \in DOMAIN pulls /\ now \in Pull
  BY DEF Number, Pull
<1>2. pulls' = [pulls EXCEPT ![n] = now] /\ merged' = merged /\ head' = head
  BY DEF Change
<1>3. /\ pulls' \in Seq(Pull) /\ Len(pulls') = Len(pulls) /\ Number' = Number
      /\ pulls'[n] = now
      /\ \A m \in Number : m # n => pulls'[m] = pulls[m]
  BY <1>1, <1>2, Put DEF ForgeOK, Number
<1>4. ~(merged[n] > 0)
  BY DEF Change, ForgeOK
<1>5. \A m \in Number' : merged'[m] > 0 => pulls'[m].state = "merged"
  BY <1>2, <1>3, <1>4 DEF ForgeOK
<1>6. state = "closed" => OpensNone
  BY <1>3 DEF OpensNone, OpenFor, Open
<1> QED
  BY <1>2, <1>3, <1>5, <1>6 DEF ForgeOK, ForgeKeeps, Sha

LEMMA ForgeOnly ==
  ASSUME CallsOK, RereadIsMerged, ForgeOK, ForgeKeeps, UNCHANGED <<pc, ask>>
  PROVE  CallsOK' /\ RereadIsMerged'
<1>1. CallsOK'
  BY DEF CallsOK, ForgeKeeps
<1>2. ASSUME NEW h \in Handler, pc'[h] = "reread"
      PROVE  merged'[ask'[h].pull] = ask'[h].sha
  <2>1. ask[h].pull \in Number /\ ask[h].sha \in Sha /\ merged[ask[h].pull] = ask[h].sha
    BY <1>2 DEF CallsOK, RereadIsMerged
  <2> QED
    BY <2>1, MaxShaAssumption DEF ForgeKeeps, Sha
<1> QED
  BY <1>1, <1>2 DEF RereadIsMerged

(* A handler goes on to p with request a, and the forge may change. *)
LEMMA Moves ==
  ASSUME CallsOK, RereadIsMerged, ForgeOK, ForgeKeeps,
         NEW h \in Handler, NEW p \in Pcs, NEW a \in Request,
         pc' = [pc EXCEPT ![h] = p], ask' = [ask EXCEPT ![h] = a],
         p \in {"list", "create"} => a.base \in Base,
         p \in {"get", "merge", "reread"} => a.pull \in Number /\ a.sha \in Sha,
         p = "reread" => merged'[a.pull] = a.sha
  PROVE  CallsOK' /\ RereadIsMerged'
<1>1. /\ pc' \in [Handler -> Pcs] /\ ask' \in [Handler -> Request]
      /\ pc'[h] = p /\ ask'[h] = a
      /\ \A g \in Handler : g # h => pc'[g] = pc[g] /\ ask'[g] = ask[g]
  BY DEF CallsOK
<1>2. \A g \in Handler : pc'[g] \in {"list", "create"} => ask'[g].base \in Base
  BY <1>1 DEF CallsOK
<1>3. \A g \in Handler : pc'[g] \in {"get", "merge", "reread"} =>
        ask'[g].pull \in Number' /\ ask'[g].sha \in Sha
  BY <1>1 DEF CallsOK, ForgeKeeps
<1>4. ASSUME NEW g \in Handler, pc'[g] = "reread", g # h
      PROVE  merged'[ask'[g].pull] = ask'[g].sha
  <2>1. ask[g].pull \in Number /\ ask[g].sha \in Sha /\ merged[ask[g].pull] = ask[g].sha
    BY <1>1, <1>4 DEF CallsOK, RereadIsMerged
  <2> QED
    BY <1>1, <1>4, <2>1, MaxShaAssumption DEF ForgeKeeps, Sha
<1> QED
  BY <1>1, <1>2, <1>3, <1>4 DEF CallsOK, RereadIsMerged, Sha

(* A handler whose request was answered, or goes on to anything but        *)
(* opening one, disturbs no create; nor do fewer open pull requests.       *)
LEMMA SeenStays ==
  ASSUME CallsOK, CreateSawAll, NEW h \in Handler, NEW p \in Pcs, NEW a \in Request,
         pc' = [pc EXCEPT ![h] = p], ask' = [ask EXCEPT ![h] = a], p # "create",
         OpensNone,
         full \ {h} \subseteq full', moved \ {h} \subseteq moved'
  PROVE  CreateSawAll'
<1> SUFFICES ASSUME NEW g \in Handler, pc'[g] = "create", g \notin full', g \notin moved'
             PROVE  OpenFor(ask[g].base)' = {} /\ ask'[g] = ask[g]
  BY DEF CreateSawAll, OpenFor, Open, Number
<1>1. g # h /\ pc[g] = "create" /\ ask'[g] = ask[g]
  BY DEF CallsOK
<1>2. OpenFor(ask[g].base) = {}
  BY <1>1 DEF CreateSawAll
<1> QED
  BY <1>1, <1>2 DEF OpensNone

-----------------------------------------------------------------------------
(* Kinds of steps *)

LEMMA Answers ==
  ASSUME IInv, ForgeOK', ForgeKeeps, OpensNone, NEW h \in Handler, NEW what, Answer(h, what),
         what.kind = "merged" =>
           what.pull \in Number /\ what.sha \in Sha /\ merged'[what.pull] = what.sha,
         what.kind = "conflict" => ~what.all
  PROVE  IInv'
<1>1. "idle" \in Pcs /\ Nothing \in Request
  BY MaxShaAssumption DEF Pcs, Nothing, Request
<1>2. CallsOK' /\ RereadIsMerged'
  BY <1>1, Moves DEF Answer, IInv
<1>3. CreateSawAll'
  BY <1>1, SeenStays DEF Answer, IInv
<1>4. AnswerOK'
  BY DEF Answer, AnswerOK, ForgeKeeps, Sha
<1> QED
  BY <1>2, <1>3, <1>4 DEF IInv

LEMMA Goes ==
  ASSUME IInv, ForgeOK', ForgeKeeps, OpensNone,
         NEW h \in Handler, NEW p \in Pcs, NEW a \in Request,
         pc' = [pc EXCEPT ![h] = p], ask' = [ask EXCEPT ![h] = a], p # "create",
         p = "list" => a.base \in Base,
         p \in {"get", "merge", "reread"} => a.pull \in Number /\ a.sha \in Sha,
         p = "reread" => merged'[a.pull] = a.sha,
         UNCHANGED <<full, moved>>, answer' = Silent
  PROVE  IInv'
<1>1. CallsOK' /\ RereadIsMerged'
  BY Moves DEF IInv
<1>2. CreateSawAll'
  BY SeenStays DEF IInv
<1>3. AnswerOK'
  BY DEF AnswerOK, Silent
<1> QED
  BY <1>1, <1>2, <1>3 DEF IInv

LEMMA World ==
  ASSUME IInv, ForgeOK', ForgeKeeps, UNCHANGED <<pc, ask, full>>, answer' = Silent,
         Disturb \/ (OpensNone /\ UNCHANGED moved)
  PROVE  IInv'
<1>1. CallsOK' /\ RereadIsMerged'
  BY ForgeOnly DEF IInv
<1>2. CreateSawAll'
  <2> SUFFICES ASSUME NEW g \in Handler, pc'[g] = "create", g \notin full', g \notin moved'
               PROVE  OpenFor(ask[g].base)' = {}
    BY DEF CreateSawAll
  <2>1. pc[g] = "create" /\ ask'[g] = ask[g] /\ g \notin full
    OBVIOUS
  <2>2. OpensNone /\ UNCHANGED moved
    BY <2>1 DEF Disturb
  <2>3. OpenFor(ask[g].base) = {}
    BY <2>1, <2>2 DEF IInv, CreateSawAll
  <2> QED
    BY <2>1, <2>2, <2>3 DEF OpensNone
<1>3. AnswerOK'
  BY DEF AnswerOK, Silent
<1> QED
  BY <1>1, <1>2, <1>3 DEF IInv

-----------------------------------------------------------------------------
(* One lemma per action *)

LEMMA AskKeeps == ASSUME IInv, NEW h \in Handler, Ask(h) PROVE IInv'
<1>1. ForgeOK' /\ ForgeKeeps /\ OpensNone
  BY Same DEF IInv, Ask, Receive, forge
<1>2. 0 \in Nat /\ 0 \in 0 .. MaxSha /\ Sha \subseteq 0 .. MaxSha /\ Number \subseteq Nat
  BY MaxShaAssumption, NumberIsInterval DEF IInv, Sha
<1>3. {"list", "get", "head"} \subseteq Pcs
  BY DEF Pcs
<1>4. ASSUME NEW base \in Base, Receive(h, [Nothing EXCEPT !.base = base], "list")
      PROVE  IInv'
  <2>1. [Nothing EXCEPT !.base = base] \in Request /\ [Nothing EXCEPT !.base = base].base \in Base
    BY <1>2 DEF Nothing, Request
  <2> QED
    BY <1>1, <1>3, <1>4, <2>1, Goes DEF Receive
<1>5. ASSUME NEW n \in Number, NEW sha \in Sha,
             Receive(h, [Nothing EXCEPT !.pull = n, !.sha = sha], "get")
      PROVE  IInv'
  <2> DEFINE what == [Nothing EXCEPT !.pull = n, !.sha = sha]
  <2>1. what \in Request /\ what.pull \in Number /\ what.sha \in Sha
    BY <1>2 DEF Nothing, Request
  <2> QED
    BY <1>1, <1>3, <1>5, <2>1, Goes DEF Receive
<1>6. ASSUME NEW n \in Number, Receive(h, [Nothing EXCEPT !.pull = n], "head")
      PROVE  IInv'
  <2>1. [Nothing EXCEPT !.pull = n] \in Request
    BY <1>2 DEF Nothing, Request
  <2> QED
    BY <1>1, <1>3, <1>6, <2>1, Goes DEF Receive
<1> QED
  BY <1>4, <1>5, <1>6 DEF Ask

LEMMA RefuseKeeps ==
  ASSUME IInv, ForgeOK', ForgeKeeps, OpensNone, NEW h \in Handler, Refuse(h)
  PROVE  IInv'
<1>1. Silent.kind = "none"
  BY DEF Silent
<1> QED
  BY <1>1, Answers DEF Refuse

LEMMA ListPullsKeeps == ASSUME IInv, NEW h \in Handler, ListPulls(h) PROVE IInv'
<1>1. ForgeOK' /\ ForgeKeeps /\ OpensNone
  BY Same DEF IInv, ListPulls, forge
<1>2. PICK page \in SUBSET Open :
         \/ \E n \in Continuable(h, page) :
               Answer(h, [Silent EXCEPT !.kind = "exists", !.pull = n])
         \/ /\ Continuable(h, page) = {}
            /\ Await(h, "create")
            /\ full' = IF page = Open THEN full ELSE full \cup {h}
            /\ UNCHANGED <<ask, moved>>
  BY DEF ListPulls
<1>3. ASSUME NEW n \in Continuable(h, page),
             Answer(h, [Silent EXCEPT !.kind = "exists", !.pull = n])
      PROVE  IInv'
  <2>1. [Silent EXCEPT !.kind = "exists", !.pull = n].kind = "exists"
    BY DEF Silent
  <2> QED
    BY <1>1, <1>3, <2>1, Answers
<1>4. CASE /\ Continuable(h, page) = {}
           /\ Await(h, "create")
           /\ full' = IF page = Open THEN full ELSE full \cup {h}
           /\ UNCHANGED <<ask, moved>>
  <2>1. pc[h] = "list" /\ ask[h].base \in Base /\ ask[h] \in Request /\ "create" \in Pcs
    BY DEF ListPulls, IInv, CallsOK, Pcs
  <2>2. pc' = [pc EXCEPT ![h] = "create"] /\ ask' = [ask EXCEPT ![h] = ask[h]]
    BY <1>4 DEF Await, IInv, CallsOK
  <2>3. CallsOK' /\ RereadIsMerged'
    BY <1>1, <2>1, <2>2, Moves DEF IInv
  <2>4. CreateSawAll'
    <3> SUFFICES ASSUME NEW g \in Handler, pc'[g] = "create", g \notin full', g \notin moved'
                 PROVE  OpenFor(ask[g].base)' = {}
      BY DEF CreateSawAll
    <3>1. ask'[g] = ask[g] /\ g \notin full /\ g \notin moved
      BY <1>4
    <3>2. CASE g = h
      <4>1. page = Open
        BY <1>4, <3>2
      <4>2. OpenFor(ask[h].base) = {}
        BY <1>4, <4>1 DEF OpenFor, Continuable
      <4> QED
        BY <1>1, <3>1, <3>2, <4>2 DEF OpensNone
    <3>3. CASE g # h
      <4>1. pc[g] = "create"
        BY <2>2, <3>3 DEF IInv, CallsOK
      <4>2. OpenFor(ask[g].base) = {}
        BY <3>1, <4>1 DEF IInv, CreateSawAll
      <4> QED
        BY <1>1, <3>1, <4>2 DEF OpensNone
    <3> QED
      BY <3>2, <3>3
  <2>5. AnswerOK'
    BY <1>4 DEF Await, AnswerOK, Silent
  <2> QED
    BY <1>1, <2>3, <2>4, <2>5 DEF IInv
<1> QED
  BY <1>2, <1>3, <1>4

LEMMA CreatePullKeeps == ASSUME IInv, NEW h \in Handler, CreatePull(h) PROVE IInv'
<1>1. pc[h] = "create" /\ ask[h].base \in Base /\ OpenPull(ask[h].base)
  BY DEF CreatePull, IInv, CallsOK
<1>2. ForgeOK' /\ ForgeKeeps
  BY <1>1, Opened DEF IInv
<1>3. "idle" \in Pcs /\ Nothing \in Request
  BY MaxShaAssumption DEF Pcs, Nothing, Request
<1>4. CallsOK' /\ RereadIsMerged'
  BY <1>2, <1>3, Moves DEF IInv, CreatePull
<1>5. CreateSawAll'
  <2>1. \A g \in Handler : pc'[g] = "create" => g \in moved'
    BY DEF CreatePull, IInv, CallsOK
  <2> QED
    BY <2>1 DEF CreateSawAll
<1>6. AnswerOK'
  <2> DEFINE created == [Silent EXCEPT !.kind = "created", !.pull = Len(pulls')]
  <2>1. created.kind = "created" /\ Silent.kind = "none"
    BY DEF Silent
  <2>2. answer' = created \/ answer' = Silent
    BY DEF CreatePull
  <2> HIDE DEF created
  <2> QED
    BY <2>1, <2>2 DEF AnswerOK
<1> QED
  BY <1>2, <1>4, <1>5, <1>6 DEF IInv

LEMMA CreateConflictsKeeps == ASSUME IInv, NEW h \in Handler, CreateConflicts(h) PROVE IInv'
<1> DEFINE what == [Silent EXCEPT !.kind = "conflict", !.all = h \notin full /\ h \notin moved]
<1>1. ForgeOK' /\ ForgeKeeps /\ OpensNone
  BY Same DEF IInv, CreateConflicts, forge
<1>2. what.kind = "conflict" /\ what.all = (h \notin full /\ h \notin moved)
  BY DEF Silent
<1>3. ~(h \notin full /\ h \notin moved)
  BY DEF CreateConflicts, IInv, CreateSawAll
<1> HIDE DEF what
<1>4. Answer(h, what)
  BY DEF CreateConflicts, what
<1> QED
  BY <1>1, <1>2, <1>3, <1>4, Answers

LEMMA GetPullKeeps == ASSUME IInv, NEW h \in Handler, GetPull(h) PROVE IInv'
<1>1. ForgeOK' /\ ForgeKeeps /\ OpensNone
  BY Same DEF IInv, GetPull, forge
<1>2. CASE MayMerge(h)
  <2>1. /\ ask[h] \in Request /\ ask[h].pull \in Number /\ ask[h].sha \in Sha
        /\ "merge" \in Pcs /\ ask = [ask EXCEPT ![h] = ask[h]]
    BY DEF GetPull, IInv, CallsOK, Pcs
  <2> QED
    BY <1>1, <1>2, <2>1, Goes DEF GetPull, Await
<1>3. CASE ~MayMerge(h)
  BY <1>1, <1>3, RefuseKeeps DEF GetPull
<1> QED
  BY <1>2, <1>3

LEMMA MergePullKeeps == ASSUME IInv, NEW h \in Handler, MergePull(h) PROVE IInv'
<1>1. /\ ask[h] \in Request /\ ask[h].pull \in Number /\ ask[h].sha \in Sha
      /\ "reread" \in Pcs /\ ask = [ask EXCEPT ![h] = ask[h]]
  BY DEF MergePull, IInv, CallsOK, Pcs
<1>2. ForgeOK' /\ ForgeKeeps /\ OpensNone /\ merged'[ask[h].pull] = head
  BY <1>1, Merges DEF IInv, MergePull
<1>3. head = ask[h].sha
  BY DEF MergePull, HeadAgrees
<1>4. CASE Await(h, "reread") /\ UNCHANGED <<ask, full, moved>>
  BY <1>1, <1>2, <1>3, <1>4, Goes DEF Await
<1>5. CASE Refuse(h)
  BY <1>2, <1>5, RefuseKeeps
<1> QED
  BY <1>4, <1>5 DEF MergePull

LEMMA RereadPullKeeps == ASSUME IInv, NEW h \in Handler, RereadPull(h) PROVE IInv'
<1> DEFINE what == [Silent EXCEPT !.kind = "merged", !.pull = ask[h].pull, !.sha = ask[h].sha]
<1>1. ForgeOK' /\ ForgeKeeps /\ OpensNone /\ UNCHANGED merged
  BY Same DEF IInv, RereadPull, forge
<1>2. what.kind = "merged" /\ what.pull = ask[h].pull /\ what.sha = ask[h].sha
  BY DEF Silent
<1>3. ask[h].pull \in Number /\ ask[h].sha \in Sha /\ merged[ask[h].pull] = ask[h].sha
  BY DEF RereadPull, IInv, CallsOK, RereadIsMerged
<1>4. Answer(h, what)
  BY DEF RereadPull
<1> HIDE DEF what
<1> QED
  BY <1>1, <1>2, <1>3, <1>4, Answers

LEMMA ReadHeadKeeps == ASSUME IInv, NEW h \in Handler, ReadHead(h) PROVE IInv'
<1> DEFINE what == [base |-> ask[h].base, pull |-> ask[h].pull, sha |-> head]
<1>1. ForgeOK' /\ ForgeKeeps /\ OpensNone
  BY Same DEF IInv, ReadHead, forge
<1>2. ask[h] \in Request /\ "runs" \in Pcs /\ head \in 0 .. MaxSha
  BY DEF IInv, ForgeOK, CallsOK, Pcs, Sha
<1>3. what \in Request
  BY <1>2 DEF Request
<1>4. ask' = [ask EXCEPT ![h] = what]
  <2>1. [ask[h] EXCEPT !.sha = head] = what
    BY <1>2 DEF Request
  <2> QED
    BY <2>1, Zenon DEF ReadHead
<1>5. pc' = [pc EXCEPT ![h] = "runs"] /\ UNCHANGED <<full, moved>> /\ answer' = Silent
  BY Zenon DEF ReadHead, Await
<1> HIDE DEF what
<1> QED
  BY <1>1, <1>2, <1>3, <1>4, <1>5, Goes DEF IInv

LEMMA ReadRunsKeeps == ASSUME IInv, NEW h \in Handler, ReadRuns(h) PROVE IInv'
<1>1. ForgeOK' /\ ForgeKeeps /\ OpensNone
  BY Same DEF IInv, ReadRuns, forge
<1>2. ASSUME NEW v, Answer(h, [Silent EXCEPT !.kind = "status", !.sha = ask[h].sha, !.verdict = v])
      PROVE  IInv'
  <2> DEFINE what == [Silent EXCEPT !.kind = "status", !.sha = ask[h].sha, !.verdict = v]
  <2>1. what.kind = "status"
    BY DEF Silent
  <2>2. Answer(h, what)
    BY <1>2
  <2> HIDE DEF what
  <2> QED
    BY <1>1, <2>1, <2>2, Answers
<1>3. Refuse(h) => IInv'
  BY <1>1, RefuseKeeps
<1> QED
  BY <1>2, <1>3, Zenon DEF ReadRuns

LEMMA RequestFailsKeeps == ASSUME IInv, NEW h \in Handler, RequestFails(h) PROVE IInv'
<1>1. ForgeOK' /\ ForgeKeeps /\ OpensNone
  BY Same DEF IInv, RequestFails, forge
<1> QED
  BY <1>1, RefuseKeeps DEF RequestFails

LEMMA ChangeKeeps ==
  ASSUME IInv, NEW n \in Number, NEW base \in Base, NEW state \in {"open", "closed"},
         Change(n, base, state)
  PROVE  IInv'
<1>1. ForgeOK' /\ ForgeKeeps /\ (state = "closed" => OpensNone)
  BY Changes DEF IInv
<1>2. /\ UNCHANGED <<pc, ask, full>> /\ answer' = Silent
      /\ state = "open" => Disturb
      /\ state = "closed" => UNCHANGED moved
  BY DEF Change
<1> QED
  BY <1>1, <1>2, World

LEMMA WorldKeeps ==
  ASSUME IInv,
         \/ \E base \in Base : OthersOpen(base)
         \/ \E n \in Number : OthersMerge(n)
         \/ \E i \in DOMAIN runs : AdvanceRun(i)
         \/ Push \/ StartRun
  PROVE  IInv'
<1>1. ASSUME NEW base \in Base, OthersOpen(base) PROVE IInv'
  <2>1. ForgeOK' /\ ForgeKeeps
    BY <1>1, Opened DEF OthersOpen, IInv
  <2> QED
    BY <1>1, <2>1, World DEF OthersOpen
<1>2. ASSUME NEW n \in Number, OthersMerge(n) PROVE IInv'
  <2>1. ForgeOK' /\ ForgeKeeps /\ OpensNone
    BY <1>2, Merges DEF OthersMerge, IInv
  <2> QED
    BY <1>2, <2>1, World DEF OthersMerge, calls
<1>3. ASSUME NEW i \in DOMAIN runs, AdvanceRun(i) PROVE IInv'
  <2>1. UNCHANGED <<head, pulls, merged, calls>> /\ answer' = Silent
    BY <1>3, Zenon DEF AdvanceRun
  <2>2. ForgeOK' /\ ForgeKeeps /\ OpensNone
    BY <2>1, Same DEF IInv
  <2> QED
    BY <2>1, <2>2, World DEF calls
<1>4. CASE StartRun
  <2>1. ForgeOK' /\ ForgeKeeps /\ OpensNone
    BY <1>4, Same DEF StartRun, IInv
  <2> QED
    BY <1>4, <2>1, World DEF StartRun, calls
<1>5. CASE Push
  <2>1. head' \in Sha /\ UNCHANGED <<pulls, merged>>
    BY <1>5, MaxShaAssumption DEF Push, IInv, ForgeOK, Sha
  <2>2. ForgeOK' /\ ForgeKeeps /\ OpensNone
    BY <2>1 DEF IInv, ForgeOK, ForgeKeeps, OpensNone, OpenFor, Open, Number, Sha
  <2> QED
    BY <1>5, <2>2, World DEF Push, calls
<1> QED
  BY <1>1, <1>2, <1>3, <1>4, <1>5

-----------------------------------------------------------------------------
(* Theorems *)

LEMMA InitEstablishes == Init => IInv
<1> SUFFICES ASSUME Init PROVE IInv
  OBVIOUS
<1>1. Nothing \in Request /\ 1 \in Sha
  BY MaxShaAssumption DEF Nothing, Request, Sha
<1>2. pulls = <<>> /\ merged = <<>> /\ Number = {}
  BY DEF Init, Number
<1>3. ForgeOK
  BY <1>1, <1>2 DEF Init, ForgeOK
<1>4. CallsOK /\ RereadIsMerged /\ CreateSawAll
  BY <1>1 DEF Init, CallsOK, RereadIsMerged, CreateSawAll, Pcs
<1>5. AnswerOK
  BY DEF Init, AnswerOK, Silent
<1> QED
  BY <1>3, <1>4, <1>5 DEF IInv

LEMMA NextKeeps == IInv /\ [Next]_vars => IInv'
<1> SUFFICES ASSUME IInv, [Next]_vars PROVE IInv'
  OBVIOUS
<1>1. CASE UNCHANGED vars
  <2>1. ForgeOK' /\ ForgeKeeps /\ OpensNone
    BY <1>1, Same DEF vars, forge, IInv
  <2>2. CallsOK' /\ RereadIsMerged'
    BY <1>1, <2>1, ForgeOnly DEF vars, calls, IInv
  <2>3. CreateSawAll' /\ AnswerOK'
    BY <1>1 DEF vars, forge, calls, IInv, CreateSawAll, AnswerOK, OpenFor, Open, Number
  <2> QED
    BY <2>1, <2>2, <2>3 DEF IInv
<1>2. ASSUME NEW h \in Handler,
             \/ Ask(h) \/ RequestFails(h)
             \/ ListPulls(h) \/ CreatePull(h) \/ CreateConflicts(h)
             \/ GetPull(h) \/ MergePull(h) \/ RereadPull(h)
             \/ ReadHead(h) \/ ReadRuns(h)
      PROVE  IInv'
  BY <1>2, AskKeeps, RequestFailsKeeps, ListPullsKeeps, CreatePullKeeps, CreateConflictsKeeps,
     GetPullKeeps, MergePullKeeps, RereadPullKeeps, ReadHeadKeeps, ReadRunsKeeps
<1>3. ASSUME NEW n \in Number, NEW base \in Base, NEW state \in {"open", "closed"},
             Change(n, base, state)
      PROVE  IInv'
  BY <1>3, ChangeKeeps
<1> QED
  BY <1>1, <1>2, <1>3, WorldKeeps DEF Next

(* Everything proved here about the states the gateway reaches. *)
LEMMA Inductive == Spec => []IInv
BY InitEstablishes, NextKeeps, PTL DEF Spec

(* A create is told of a conflict only when the list it read was cut or    *)
(* has changed since (create_pull_request).                                *)
THEOREM ConflictsAreExcused == Spec => []ConflictIsExcused
<1>1. IInv => ConflictIsExcused
  BY DEF IInv, AnswerOK, ConflictIsExcused
<1> QED
  BY <1>1, Inductive, PTL

(* Who is told that its merge succeeded has it merged, at the commit it    *)
(* named (merge_pull_request).                                             *)
THEOREM MergedAnswersAreTrue == Spec => []MergedAnswerIsTrue
<1>1. IInv => MergedAnswerIsTrue
  BY DEF IInv, AnswerOK, MergedAnswerIsTrue
<1> QED
  BY <1>1, Inductive, PTL

(* A merge merges the commit it named, whatever was pushed since the pull  *)
(* request was looked at (merge_pull_request).                             *)
THEOREM MergesWhatWasExpected == Spec => MergedWasExpected
<1>1. ASSUME IInv, NEW h \in Handler, MergePull(h)
      PROVE  merged'[ask[h].pull] = ask[h].sha
  <2>1. ask[h].pull \in Number
    BY <1>1 DEF MergePull, IInv, CallsOK
  <2>2. merged'[ask[h].pull] = head
    BY <1>1, <2>1, Merges DEF MergePull, IInv
  <2> QED
    BY <1>1, <2>2 DEF MergePull, HeadAgrees
<1>2. IInv /\ [Next]_vars => [\A h \in Handler : MergePull(h) => merged'[ask[h].pull] = ask[h].sha]_vars
  BY <1>1
<1> QED
  BY <1>2, Inductive, PTL DEF Spec, MergedWasExpected

(* The kinds of what a step answers. *)
LEMMA KindsOfAnswers ==
  \A n, all :
    /\ Silent.kind = "none"
    /\ [Silent EXCEPT !.kind = "exists", !.pull = n].kind = "exists"
    /\ [Silent EXCEPT !.kind = "exists", !.pull = n].pull = n
    /\ [Silent EXCEPT !.kind = "created", !.pull = n].kind = "created"
    /\ [Silent EXCEPT !.kind = "created", !.pull = n].pull = n
    /\ [Silent EXCEPT !.kind = "conflict", !.all = all].kind = "conflict"
BY DEF Silent

(* The step names a pull request for a base. *)
Names == answer'.kind \in {"exists", "created"}

(* Only a create names a pull request of its own. *)
LEMMA OnlyCreatesName ==
  ASSUME IInv, Next, Names
  PROVE  \E h \in Handler : ListPulls(h) \/ CreatePull(h)
<1>1. answer' # Silent
  BY KindsOfAnswers DEF Names
<1>2. ASSUME NEW h \in Handler,
             \/ Ask(h) \/ RequestFails(h) \/ CreateConflicts(h) \/ GetPull(h) \/ MergePull(h)
             \/ RereadPull(h) \/ ReadHead(h) \/ ReadRuns(h)
      PROVE  FALSE
  <2>1. CASE Ask(h) \/ RequestFails(h) \/ GetPull(h) \/ MergePull(h) \/ ReadHead(h)
    BY <1>1, <2>1, Zenon
    DEF Ask, Receive, RequestFails, GetPull, MergePull, ReadHead, Await, Refuse, Answer
  <2>2. CASE CreateConflicts(h)
    <3>1. answer'.kind = "conflict"
      BY <2>2, KindsOfAnswers, Zenon DEF CreateConflicts, Answer
    <3> QED
      BY <3>1 DEF Names
  <2>3. CASE RereadPull(h)
    <3> DEFINE what == [Silent EXCEPT !.kind = "merged", !.pull = ask[h].pull, !.sha = ask[h].sha]
    <3>1. what.kind = "merged"
      BY DEF Silent
    <3>2. answer' = what
      BY <2>3, Zenon DEF RereadPull, Answer
    <3> HIDE DEF what
    <3> QED
      BY <3>1, <3>2 DEF Names
  <2>4. CASE ReadRuns(h)
    <3> DEFINE what(v) == [Silent EXCEPT !.kind = "status", !.sha = ask[h].sha, !.verdict = v]
    <3>1. \A v : what(v).kind = "status"
      BY DEF Silent
    <3>2. answer' = Silent \/ \E v : answer' = what(v)
      BY <2>4, Zenon DEF ReadRuns, Refuse, Answer
    <3> HIDE DEF what
    <3> QED
      BY <1>1, <3>1, <3>2 DEF Names
  <2> QED
    BY <1>2, <2>1, <2>2, <2>3, <2>4
<1>3. ASSUME \/ \E n \in Number, base \in Base, state \in {"open", "closed"} : Change(n, base, state)
             \/ \E base \in Base : OthersOpen(base)
             \/ \E n \in Number : OthersMerge(n)
             \/ \E i \in DOMAIN runs : AdvanceRun(i)
             \/ Push \/ StartRun
      PROVE  FALSE
  BY <1>1, <1>3, Zenon DEF Change, OthersOpen, OthersMerge, AdvanceRun, Push, StartRun
<1> QED
  BY <1>2, <1>3, Zenon DEF Next

(* What a create answers is open and has the base it asked for, whatever   *)
(* the page of the list holds (list_pull_requests, create_pull_request).   *)
THEOREM CreatesAnswerTheirPair == Spec => CreateAnswersItsPair
<1> DEFINE pull == pulls'[answer'.pull]
<1>1. ASSUME IInv, Next, Names, NEW h \in Handler, ask'[h] # ask[h]
      PROVE  pull.state = "open" /\ pull.base = ask[h].base
  <2>1. PICK g \in Handler : ListPulls(g) \/ CreatePull(g)
    BY <1>1, OnlyCreatesName
  <2>2. CASE CreatePull(g)
    <3>1. g = h
      BY <1>1, <2>2 DEF CreatePull, IInv, CallsOK
    <3>2. ask[g].base \in Base /\ OpenPull(ask[g].base)
      BY <1>1, <2>2 DEF CreatePull, IInv, CallsOK
    <3>3. pulls'[Len(pulls')] = [base |-> ask[g].base, state |-> "open"]
      BY <1>1, <3>2, Opened DEF IInv
    <3>4. answer'.pull = Len(pulls')
      <4> DEFINE created == [Silent EXCEPT !.kind = "created", !.pull = Len(pulls')]
      <4>1. created.pull = Len(pulls') /\ answer' # Silent
        BY <1>1, KindsOfAnswers DEF Names, Silent
      <4>2. answer' = created \/ answer' = Silent
        BY <2>2, Zenon DEF CreatePull
      <4> HIDE DEF created
      <4> QED
        BY <4>1, <4>2
    <3> QED
      BY <3>1, <3>3, <3>4
  <2>3. CASE ListPulls(g)
    <3>1. PICK page \in SUBSET Open :
             \/ \E n \in Continuable(g, page) :
                   Answer(g, [Silent EXCEPT !.kind = "exists", !.pull = n])
             \/ Await(g, "create")
      BY <2>3, Zenon DEF ListPulls
    <3>2. ~Await(g, "create")
      BY <1>1, KindsOfAnswers DEF Await, Names
    <3>3. PICK n \in Continuable(g, page) :
             Answer(g, [Silent EXCEPT !.kind = "exists", !.pull = n])
      BY <3>1, <3>2, Zenon
    <3>4. answer'.pull = n
      BY <3>3, KindsOfAnswers, Zenon DEF Answer
    <3>5. g = h
      BY <1>1, <3>3, Zenon DEF Answer, IInv, CallsOK
    <3>6. pulls' = pulls
      BY <2>3 DEF ListPulls, forge
    <3>7. pulls[n].state = "open" /\ pulls[n].base = ask[g].base
      BY <3>3 DEF Continuable, Open
    <3> QED
      BY <3>4, <3>5, <3>6, <3>7
  <2> QED
    BY <2>1, <2>2, <2>3
<1>2. IInv /\ [Next]_vars =>
        [\A h \in Handler :
           answer'.kind \in {"exists", "created"} /\ ask'[h] # ask[h]
             => pull.state = "open" /\ pull.base = ask[h].base]_vars
  BY <1>1 DEF Names
<1> QED
  BY <1>2, Inductive, PTL DEF Spec, CreateAnswersItsPair
-----------------------------------------------------------------------------
(* The status of a commit *)

Run == [sha : Sha, state : RunState]

RunsOK == runs \in Seq(Run)

LEMMA RunsStay == IInv /\ RunsOK /\ [Next]_vars => RunsOK'
<1> SUFFICES ASSUME IInv, RunsOK, [Next]_vars PROVE RunsOK'
  OBVIOUS
<1>1. CASE UNCHANGED runs
  BY <1>1 DEF RunsOK
<1>2. CASE StartRun
  <2> DEFINE new == [sha |-> head, state |-> "queued"]
  <2>1. new \in Run
    BY DEF IInv, ForgeOK, Run, RunState, Pending
  <2>2. <<new>> \in Seq(Run)
    BY <2>1
  <2>3. runs' = <<new>> \o runs
    BY <1>2 DEF StartRun
  <2> HIDE DEF new
  <2> QED
    BY <2>2, <2>3, ConcatProperties DEF RunsOK
<1>3. ASSUME NEW i \in DOMAIN runs, AdvanceRun(i)
      PROVE  RunsOK'
  <2>1. PICK state : state \in RunState /\ runs' = [runs EXCEPT ![i].state = state]
    BY <1>3 DEF AdvanceRun, RunState, Pending, Failing, Passing
  <2> DEFINE new == [runs[i] EXCEPT !.state = state]
  <2>2. new \in Run
    <3>1. runs[i] \in Run
      BY ElementOfSeq DEF RunsOK
    <3> QED
      BY <2>1, <3>1 DEF Run
  <2>3. runs' = [runs EXCEPT ![i] = new]
    BY <2>1
  <2> HIDE DEF new
  <2> QED
    BY <2>2, <2>3, Put DEF RunsOK
<1>4. ASSUME NEW h \in Handler,
             \/ Ask(h) \/ RequestFails(h)
             \/ ListPulls(h) \/ CreatePull(h) \/ CreateConflicts(h)
             \/ GetPull(h) \/ MergePull(h) \/ RereadPull(h)
             \/ ReadHead(h) \/ ReadRuns(h)
      PROVE  UNCHANGED runs
  <2>1. CASE Ask(h) \/ RequestFails(h) \/ ListPulls(h) \/ CreateConflicts(h) \/ GetPull(h)
             \/ RereadPull(h) \/ ReadHead(h) \/ ReadRuns(h)
    <3>1. UNCHANGED forge
      BY <2>1, Zenon DEF Ask, Receive, RequestFails, ListPulls, CreateConflicts, GetPull,
                         RereadPull, ReadHead, ReadRuns
    <3> QED
      BY <3>1 DEF forge
  <2>2. CASE CreatePull(h) \/ MergePull(h)
    BY <2>2, Zenon DEF CreatePull, OpenPull, MergePull, MergeAt
  <2> QED
    BY <1>4, <2>1, <2>2
<1>5. ASSUME \/ \E n \in Number, base \in Base, state \in {"open", "closed"} : Change(n, base, state)
             \/ \E base \in Base : OthersOpen(base)
             \/ \E n \in Number : OthersMerge(n)
             \/ Push
      PROVE  UNCHANGED runs
  BY <1>5, Zenon DEF Change, OthersOpen, OpenPull, OthersMerge, MergeAt, Push
<1>6. UNCHANGED vars => UNCHANGED runs
  BY DEF vars, forge
<1> QED
  BY <1>1, <1>2, <1>3, <1>4, <1>5, <1>6, Zenon DEF Next

LEMMA RunsAreRuns == Spec => [](IInv /\ RunsOK)
<1>1. Init => RunsOK
  BY DEF Init, RunsOK
<1> QED
  BY <1>1, InitEstablishes, NextKeeps, RunsStay, PTL DEF Spec

(* A run of the commit that is among the first ListedRuns of all runs is   *)
(* listed, whether or not the forge filters, and shown if it is one of the *)
(* ShownRuns newest of its commit.                                         *)
LEMMA NewestAreShown ==
  ASSUME RunsOK, NEW sha, NEW listed,
         listed \in {NewestOf(DOMAIN runs, ListedRuns), NewestOf(RunsOf(sha), ListedRuns)},
         NEW i \in RunsOf(sha), i <= ListedRuns,
         Cardinality({j \in RunsOf(sha) : j < i}) < ShownRuns
  PROVE  i \in Shown(runs, listed, sha)
<1> DEFINE upto(positions) == {j \in positions : j <= i}
           before == {j \in RunsOf(sha) : j < i}
           own == {j \in listed : runs[j].sha = sha}
<1>1. /\ Len(runs) \in Nat /\ DOMAIN runs = 1 .. Len(runs)
      /\ i \in DOMAIN runs /\ i \in Nat /\ 1 <= i /\ runs[i].sha = sha
      /\ RunsOf(sha) \subseteq DOMAIN runs
  BY DEF RunsOK, RunsOf
<1>2. IsFiniteSet(1 .. i) /\ Cardinality(1 .. i) = i
  BY <1>1, FS_Interval
<1>3. \A positions : positions \subseteq DOMAIN runs =>
        upto(positions) \subseteq 1 .. i
  BY <1>1
<1>4. \A positions : positions \subseteq DOMAIN runs =>
        Cardinality(upto(positions)) <= ListedRuns
  <2> TAKE positions
  <2> HAVE positions \subseteq DOMAIN runs
  <2>1. upto(positions) \subseteq 1 .. i
    BY <1>3
  <2>2. /\ IsFiniteSet(upto(positions))
        /\ Cardinality(upto(positions)) <= i
    BY <1>2, <2>1, FS_Subset
  <2>3. Cardinality(upto(positions)) \in Nat
    BY <2>2, FS_CardinalityType
  <2> QED
    BY <1>1, <2>2, <2>3, RunsAssumption
<1>5. i \in listed /\ listed \subseteq DOMAIN runs
  BY <1>1, <1>4 DEF NewestOf
<1>6. i \in own /\ own \subseteq RunsOf(sha)
  BY <1>1, <1>5 DEF RunsOf
<1>7. upto(own) \subseteq before \cup {i}
  BY <1>1, <1>6
<1>8. IsFiniteSet(before) /\ i \notin before
  <2>1. before \subseteq 1 .. i
    BY <1>1
  <2> QED
    BY <1>1, <1>2, <2>1, FS_Subset
<1>9. /\ IsFiniteSet(before \cup {i})
      /\ Cardinality(before \cup {i}) = Cardinality(before) + 1
  BY <1>8, FS_AddElement
<1>10. Cardinality(upto(own)) <= Cardinality(before) + 1 /\ IsFiniteSet(upto(own))
  BY <1>7, <1>9, FS_Subset
<1>11. Cardinality(upto(own)) \in Nat /\ Cardinality(before) \in Nat
  BY <1>8, <1>10, FS_CardinalityType
<1>12. Cardinality(upto(own)) <= ShownRuns
  BY <1>10, <1>11, RunsAssumption
<1> QED
  BY <1>6, <1>12 DEF Shown, NewestOf

(* Nothing that is summed up as a success is unfinished or failed. *)
LEMMA SuccessMeans ==
  ASSUME NEW shown, Verdict(runs, shown) = "success", NEW i \in shown
  PROVE  runs[i].state \notin Pending \cup Failing
<1> DEFINE states == {runs[j].state : j \in shown}
<1>1. runs[i].state \in states
  OBVIOUS
<1>2. "queued" \notin states /\ "running" \notin states /\ states \cap Failing = {}
  BY DEF Verdict
<1> QED
  BY <1>1, <1>2 DEF Pending

(* Only ReadRuns answers with a status. *)
LEMMA OnlyReadRunsTells ==
  ASSUME Next, answer'.kind = "status"
  PROVE  \E h \in Handler : ReadRuns(h)
<1>1. answer' # Silent
  BY KindsOfAnswers
<1>2. ASSUME NEW h \in Handler,
             \/ Ask(h) \/ RequestFails(h) \/ ListPulls(h) \/ CreatePull(h) \/ CreateConflicts(h)
             \/ GetPull(h) \/ MergePull(h) \/ RereadPull(h) \/ ReadHead(h)
      PROVE  FALSE
  <2>1. CASE Ask(h) \/ RequestFails(h) \/ GetPull(h) \/ MergePull(h) \/ ReadHead(h)
    BY <1>1, <2>1, Zenon
    DEF Ask, Receive, RequestFails, GetPull, MergePull, ReadHead, Await, Refuse, Answer
  <2>2. CASE CreateConflicts(h)
    <3>1. answer'.kind = "conflict"
      BY <2>2, KindsOfAnswers, Zenon DEF CreateConflicts, Answer
    <3> QED
      BY <3>1
  <2>3. CASE RereadPull(h)
    <3> DEFINE what == [Silent EXCEPT !.kind = "merged", !.pull = ask[h].pull, !.sha = ask[h].sha]
    <3>1. what.kind = "merged"
      BY DEF Silent
    <3>2. answer' = what
      BY <2>3, Zenon DEF RereadPull, Answer
    <3> HIDE DEF what
    <3> QED
      BY <3>1, <3>2
  <2>4. CASE CreatePull(h)
    <3>1. answer' = Silent \/ answer'.kind = "created"
      BY <2>4, KindsOfAnswers, Zenon DEF CreatePull
    <3> QED
      BY <1>1, <3>1
  <2>5. CASE ListPulls(h)
    <3>1. answer' = Silent \/ answer'.kind = "exists"
      BY <2>5, KindsOfAnswers, Zenon DEF ListPulls, Await, Answer
    <3> QED
      BY <1>1, <3>1
  <2> QED
    BY <1>2, <2>1, <2>2, <2>3, <2>4, <2>5
<1>3. ASSUME \/ \E n \in Number, base \in Base, state \in {"open", "closed"} : Change(n, base, state)
             \/ \E base \in Base : OthersOpen(base)
             \/ \E n \in Number : OthersMerge(n)
             \/ \E i \in DOMAIN runs : AdvanceRun(i)
             \/ Push \/ StartRun
      PROVE  FALSE
  BY <1>1, <1>3, Zenon DEF Change, OthersOpen, OthersMerge, AdvanceRun, Push, StartRun
<1> QED
  BY <1>2, <1>3, Zenon DEF Next

(* A green status is about its own commit, and none of the runs the caller *)
(* can be shown of it is unfinished or failed (get_ci_status, _aggregate). *)
THEOREM GreenStatusesAreTrue == Spec => GreenMeansNothingFailed
<1>1. ASSUME IInv, RunsOK, Next, answer'.kind = "status", answer'.verdict = "success"
      PROVE  /\ RunsOf(answer'.sha) # {}
             /\ \A i \in RunsOf(answer'.sha) :
                  i <= ListedRuns /\ Cardinality({j \in RunsOf(answer'.sha) : j < i}) < ShownRuns
                    => runs[i].state \notin Pending \cup Failing
  <2>1. PICK h \in Handler : ReadRuns(h)
    BY <1>1, OnlyReadRunsTells
  <2> DEFINE sha == ask[h].sha
             what(v) == [Silent EXCEPT !.kind = "status", !.sha = sha, !.verdict = v]
  <2>2. \A v : what(v).sha = sha /\ what(v).verdict = v
    BY DEF Silent
  <2>3. answer' # Silent
    BY <1>1, KindsOfAnswers
  <2>4. PICK listed \in {NewestOf(DOMAIN runs, ListedRuns), NewestOf(RunsOf(sha), ListedRuns)} :
          /\ Shown(runs, listed, sha) # {}
          /\ answer' = what(Verdict(runs, Shown(runs, listed, sha)))
    BY <2>1, <2>3, Zenon DEF ReadRuns, Refuse, Answer
  <2>5. answer'.sha = sha /\ Verdict(runs, Shown(runs, listed, sha)) = "success"
    <3> HIDE DEF what, sha
    <3> QED
      BY <1>1, <2>2, <2>4
  <2>6. Shown(runs, listed, sha) \subseteq RunsOf(sha)
    BY DEF Shown, NewestOf, RunsOf
  <2>7. ASSUME NEW i \in RunsOf(sha), i <= ListedRuns,
               Cardinality({j \in RunsOf(sha) : j < i}) < ShownRuns
        PROVE  runs[i].state \notin Pending \cup Failing
    <3>1. i \in Shown(runs, listed, sha)
      BY <1>1, <2>7, NewestAreShown
    <3> QED
      BY <2>5, <3>1, SuccessMeans
  <2> HIDE DEF sha
  <2> QED
    BY <2>4, <2>5, <2>6, <2>7
<1>2. IInv /\ RunsOK /\ [Next]_vars =>
        [answer'.kind = "status" /\ answer'.verdict = "success" =>
           /\ RunsOf(answer'.sha) # {}
           /\ \A i \in RunsOf(answer'.sha) :
                i <= ListedRuns /\ Cardinality({j \in RunsOf(answer'.sha) : j < i}) < ShownRuns
                  => runs[i].state \notin Pending \cup Failing]_vars
  BY <1>1
<1> QED
  BY <1>2, RunsAreRuns, PTL DEF Spec, GreenMeansNothingFailed
=============================================================================
