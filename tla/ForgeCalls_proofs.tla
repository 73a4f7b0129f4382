------------------------- MODULE ForgeCalls_proofs -------------------------
(***************************************************************************)
(* Theorems about ForgeCalls: what an idempotency key guarantees, for any  *)
(* handlers, keys and payloads.                                            *)
(***************************************************************************)
EXTENDS ForgeCalls, TLAPS

InUse(h, k) == pc[h] # "idle" /\ call[h].key = k

(* Handlers at work have a request. *)
CallsOK == \A h \in Handler : pc[h] # "idle" => call[h] \in Calls

(* Whoever got an answer left a row. *)
AckedIsRecorded == \A k \in acked : records[k] # NoRecord

(* Of a key that no two requests used at once: one request at most is in   *)
(* progress, there is no row until it is answered, and a row answers its   *)
(* own request.                                                            *)
Orderly(k) ==
  /\ \A g, h \in Handler : InUse(g, k) /\ InUse(h, k) => g = h
  /\ \A h \in Handler : InUse(h, k) => records[k] = NoRecord
  /\ records[k] # NoRecord => records[k].response = records[k].hash

(* If no answer was lost either: before the request in progress performed  *)
(* nothing was, and what was performed and is over has left a row.         *)
Frugal(k) ==
  /\ \A h \in Handler : InUse(h, k) /\ pc[h] # "answered" => performed[k] = 0
  /\ ~InProgress(k) /\ records[k] = NoRecord => performed[k] = 0
  /\ performed[k] <= 1

Excused == overlapped \cup lost

KeysOK ==
  /\ \A k \in Key \ overlapped : Orderly(k)
  /\ \A k \in Key \ Excused : Frugal(k)

IInv ==
  /\ TypeOK /\ CallsOK /\ AckedIsRecorded
  /\ KeysOK
  /\ CrossedOnlyByOverlap

-----------------------------------------------------------------------------
(* The table *)

(* A row once made stays, with the request it was made for. *)
LEMMA SaveKeeps ==
  ASSUME records \in RecordsOver(Payload, Payload), NEW k, NEW p \in Payload,
         SaveIdempotentResponse(k, p, p)
  PROVE  /\ records' \in RecordsOver(Payload, Payload)
         /\ k \in Key => records'[k] # NoRecord
         /\ \A j \in Key : j # k => records'[j] = records[j]
         /\ k \in Key /\ records[k] = NoRecord => records'[k] = [hash |-> p, response |-> p]
<1> DEFINE Row == [hash : Payload, response : Payload]
<1>1. CASE k \notin Key
  BY <1>1 DEF SaveIdempotentResponse
<1>2. CASE k \in Key
  <2>1. records' = [records EXCEPT ![k] =
                      IF records[k] = NoRecord THEN [hash |-> p, response |-> p]
                      ELSE [records[k] EXCEPT !.response = p]]
    BY <1>2, Zenon DEF SaveIdempotentResponse
  <2>2. records[k] # NoRecord => [records[k] EXCEPT !.response = p] \in Row
    <3>1. records[k] # NoRecord => records[k] \in Row
      BY <1>2 DEF RecordsOver
    <3> QED
      BY <3>1
  <2>3. [hash |-> p, response |-> p] \in Row /\ NoRecord \notin Row
    BY PayloadAssumption
  <2> HIDE DEF Row
  <2>4. records \in [Key -> Row \cup {NoRecord}]
    BY DEF RecordsOver, Row
  <2>5. records'[k] \in Row /\ records' \in [Key -> Row \cup {NoRecord}]
    BY <1>2, <2>1, <2>2, <2>3, <2>4, Zenon
  <2>6. \A j \in Key : j # k => records'[j] = records[j]
    BY <2>1, <2>4
  <2>7. records[k] = NoRecord => records'[k] = [hash |-> p, response |-> p]
    BY <1>2, <2>1, <2>4
  <2> QED
    BY <1>2, <2>3, <2>5, <2>6, <2>7 DEF RecordsOver, Row
<1> QED
  BY <1>1, <1>2
-----------------------------------------------------------------------------
(* The handlers *)

(* Who goes on stays with his request; nobody else moves. *)
LEMMA GotoMoves ==
  ASSUME TypeOK, NEW h \in Handler, NEW w \in {"continue", "answered"}, Goto(h, w)
  PROVE  /\ pc' \in [Handler -> {"idle", "lookup", "continue", "answered"}]
         /\ call' = call
         /\ pc'[h] = w
         /\ \A g \in Handler \ {h} : pc'[g] = pc[g]
BY DEF TypeOK, Goto

(* Who ends forgets his request; nobody else moves. *)
LEMMA EndMoves ==
  ASSUME TypeOK, NEW h \in Handler, End(h)
  PROVE  /\ pc' \in [Handler -> {"idle", "lookup", "continue", "answered"}]
         /\ call' \in [Handler -> Calls \cup {NoCall}]
         /\ pc'[h] = "idle"
         /\ \A g \in Handler \ {h} : pc'[g] = pc[g] /\ call'[g] = call[g]
BY DEF TypeOK, End

(* Who begins has the request given; nobody else moves. *)
LEMMA BeginMoves ==
  ASSUME TypeOK, NEW h \in Handler, NEW c \in Calls, Begin(h, c)
  PROVE  /\ pc' \in [Handler -> {"idle", "lookup", "continue", "answered"}]
         /\ call' \in [Handler -> Calls \cup {NoCall}]
         /\ pc'[h] = "lookup" /\ call'[h] = c
         /\ \A g \in Handler \ {h} : pc'[g] = pc[g] /\ call'[g] = call[g]
BY DEF TypeOK, Begin

-----------------------------------------------------------------------------
(* Steps *)

LEMMA InitEstablishes == Init => IInv
<1> SUFFICES ASSUME Init PROVE IInv
  OBVIOUS
<1>1. records \in RecordsOver(Payload, Payload)
  BY DEF Init, NoRecords, RecordsOver
<1>2. TypeOK
  BY <1>1 DEF Init, TypeOK
<1>3. \A k \in Key : records[k] = NoRecord /\ performed[k] = 0
  BY DEF Init, NoRecords
<1>4. \A k \in Key, h \in Handler : ~InUse(h, k)
  BY DEF Init, InUse
<1>5. ASSUME NEW k \in Key PROVE Orderly(k) /\ Frugal(k)
  <2>1. performed[k] <= 1
    BY <1>3
  <2> QED
    BY <1>3, <1>4, <2>1, Zenon DEF Orderly, Frugal
<1>6. KeysOK
  BY <1>5 DEF KeysOK
<1> QED
  BY <1>2, <1>6 DEF Init, IInv, CallsOK, AckedIsRecorded, CrossedOnlyByOverlap

LEMMA BeginKeeps ==
  ASSUME IInv, NEW h \in Handler, NEW c \in Admissible, Begin(h, c)
  PROVE  IInv'
<1> USE DEF IInv
<1>1. c \in Calls
  BY DEF Admissible
<1>2. /\ pc' \in [Handler -> {"idle", "lookup", "continue", "answered"}]
      /\ call' \in [Handler -> Calls \cup {NoCall}]
      /\ pc'[h] = "lookup" /\ call'[h] = c
      /\ \A g \in Handler \ {h} : pc'[g] = pc[g] /\ call'[g] = call[g]
  BY <1>1, BeginMoves
<1>3. TypeOK' /\ CallsOK'
  BY <1>1, <1>2 DEF TypeOK, CallsOK, Begin
<1>4. AckedIsRecorded' /\ CrossedOnlyByOverlap'
  BY DEF AckedIsRecorded, CrossedOnlyByOverlap, Begin
<1>5. ASSUME NEW k \in Key \ overlapped'
      PROVE  Orderly(k)' /\ (k \notin lost' => Frugal(k)')
  <2>1. /\ pc[h] = "idle" /\ Orderly(k)
        /\ k \notin lost' => Frugal(k)
    BY <1>5 DEF Begin, KeysOK, Excused
  <2>2. c.key = k => ~InProgress(k) /\ records[k] = NoRecord
    BY <1>5 DEF Begin, Miss
  <2>3. \A g \in Handler : InUse(g, k)' <=> InUse(g, k) \/ (g = h /\ c.key = k)
    BY <1>2, <2>1 DEF InUse
  <2>4. \A g \in Handler \ {h} : pc'[g] = pc[g]
    BY <1>2
  <2>5. records' = records /\ performed' = performed
    BY DEF Begin
  <2>6. InProgress(k) => InProgress(k)'
    BY <2>3 DEF InProgress, InUse
  <2>7. Orderly(k)'
    BY <2>1, <2>2, <2>3, <2>5 DEF Orderly, InProgress, InUse
  <2>8. ASSUME k \notin lost' PROVE Frugal(k)'
    BY <2>1, <2>2, <2>3, <2>4, <2>5, <2>6, <2>8 DEF Frugal, InProgress, InUse
  <2> QED
    BY <2>7, <2>8
<1>6. KeysOK'
  BY <1>5 DEF KeysOK, Excused
<1> QED
  BY <1>3, <1>4, <1>6

LEMMA ReplayKeeps ==
  ASSUME IInv, NEW h \in Handler, NEW c \in Admissible, Replay(h, c)
  PROVE  IInv'
<1> USE DEF IInv
<1>1. c \in Calls /\ c.key \in Key /\ records[c.key] # NoRecord /\ records[c.key].hash = c.payload
  BY DEF Admissible, Replay, Hit
<1>2. records[c.key].response \in Payload
  BY <1>1 DEF TypeOK, RecordsOver
<1>3. given' = [call |-> c, response |-> records[c.key].response]
  BY DEF Replay
<1>4. TypeOK' /\ CallsOK' /\ AckedIsRecorded'
  BY <1>1, <1>2, <1>3 DEF TypeOK, CallsOK, AckedIsRecorded, Replay, Given, handler
<1>5. c.key \notin overlapped => given'.response = c.payload
  BY <1>1, <1>3 DEF KeysOK, Orderly
<1>6. CrossedOnlyByOverlap'
  BY <1>3, <1>5 DEF CrossedOnlyByOverlap, Replay
<1>7. KeysOK'
  BY DEF Replay, KeysOK, Excused, Orderly, Frugal, InUse, InProgress, handler
<1> QED
  BY <1>4, <1>6, <1>7

LEMMA PerformKeeps ==
  ASSUME IInv, NEW h \in Handler, Perform(h)
  PROVE  IInv'
<1> USE DEF IInv
<1>1. /\ pc' \in [Handler -> {"idle", "lookup", "continue", "answered"}]
      /\ call' = call /\ pc'[h] = "answered"
      /\ \A g \in Handler \ {h} : pc'[g] = pc[g]
  BY GotoMoves DEF Perform
<1>2. TypeOK' /\ CallsOK'
  <2>1. branches' \subseteq Named
    BY DEF TypeOK, Perform
  <2>2. performed' \in [Key -> 0 .. 2]
    BY DEF TypeOK, Perform
  <2> QED
    BY <1>1, <2>1, <2>2 DEF TypeOK, CallsOK, Perform
<1>3. AckedIsRecorded' /\ CrossedOnlyByOverlap'
  BY DEF AckedIsRecorded, CrossedOnlyByOverlap, Perform
<1>4. ASSUME NEW k \in Key \ overlapped'
      PROVE  Orderly(k)' /\ (k \notin lost' => Frugal(k)')
  <2>1. /\ pc[h] = "lookup" /\ Orderly(k) /\ records' = records
        /\ k \notin lost' => Frugal(k)
    BY <1>4 DEF Perform, KeysOK, Excused
  <2>2. \A g \in Handler : InUse(g, k)' <=> InUse(g, k)
    BY <1>1, <2>1 DEF InUse
  <2>3. InProgress(k)' <=> InProgress(k)
    BY <2>2 DEF InProgress, InUse
  <2>4. ASSUME k \notin lost', call[h].key = k PROVE Frugal(k)'
    <3>1. InUse(h, k) /\ performed[k] = 0
      BY <2>1, <2>4 DEF InUse, Frugal
    <3>2. performed'[k] = 1
      BY <2>4, <3>1 DEF Perform
    <3>3. \A g \in Handler : InUse(g, k) => g = h
      BY <2>1, <3>1 DEF Orderly
    <3>4. InProgress(k)
      BY <3>1 DEF InProgress, InUse
    <3> QED
      BY <1>1, <2>1, <2>2, <2>3, <3>2, <3>3, <3>4 DEF Frugal
  <2>5. ASSUME k \notin lost', call[h].key # k PROVE Frugal(k)'
    <3>1. performed'[k] = performed[k]
      BY <2>5 DEF Perform
    <3>2. \A g \in Handler : InUse(g, k) => pc'[g] = pc[g]
      BY <1>1, <2>5 DEF InUse
    <3> QED
      BY <2>1, <2>2, <2>3, <2>5, <3>1, <3>2 DEF Frugal
  <2>6. Orderly(k)'
    BY <2>1, <2>2 DEF Orderly
  <2> QED
    BY <2>4, <2>5, <2>6
<1>5. KeysOK'
  BY <1>4 DEF KeysOK, Excused
<1> QED
  BY <1>2, <1>3, <1>5

(* A request still without its answer ends, or learns that its branch      *)
(* exists: nothing was performed under its key.                            *)
LEMMA EndUnansweredKeeps ==
  ASSUME IInv, NEW h \in Handler, pc[h] \in {"lookup", "continue"}, End(h),
         UNCHANGED <<records, branches, history>>
  PROVE  IInv'
<1> USE DEF IInv, history
<1>1. /\ pc' \in [Handler -> {"idle", "lookup", "continue", "answered"}]
      /\ call' \in [Handler -> Calls \cup {NoCall}]
      /\ pc'[h] = "idle"
      /\ \A g \in Handler \ {h} : pc'[g] = pc[g] /\ call'[g] = call[g]
  BY EndMoves
<1>2. TypeOK' /\ CallsOK' /\ AckedIsRecorded' /\ CrossedOnlyByOverlap'
  BY <1>1 DEF TypeOK, CallsOK, AckedIsRecorded, CrossedOnlyByOverlap
<1>3. ASSUME NEW k \in Key \ overlapped'
      PROVE  Orderly(k)' /\ (k \notin lost' => Frugal(k)')
  <2>1. Orderly(k) /\ (k \notin lost' => Frugal(k))
    BY <1>3 DEF KeysOK, Excused
  <2>2. \A g \in Handler : InUse(g, k)' <=> InUse(g, k) /\ g # h
    BY <1>1 DEF InUse
  <2>3. k \notin lost' /\ InUse(h, k) => performed[k] = 0
    BY <2>1 DEF Frugal
  <2>4. InProgress(k) => InProgress(k)' \/ InUse(h, k)
    BY <2>2 DEF InProgress, InUse
  <2> QED
    BY <1>1, <2>1, <2>2, <2>3, <2>4 DEF Orderly, Frugal
<1>4. KeysOK'
  BY <1>3 DEF KeysOK, Excused
<1> QED
  BY <1>2, <1>4

LEMMA GotoKeeps ==
  ASSUME IInv, NEW h \in Handler, NEW w \in {"continue", "answered"},
         pc[h] \in {"lookup", "continue"}, Goto(h, w),
         UNCHANGED <<records, branches, history>>
  PROVE  IInv'
<1> USE DEF IInv, history
<1>1. /\ pc' \in [Handler -> {"idle", "lookup", "continue", "answered"}]
      /\ call' = call /\ pc'[h] = w
      /\ \A g \in Handler \ {h} : pc'[g] = pc[g]
  BY GotoMoves
<1>2. TypeOK' /\ CallsOK' /\ AckedIsRecorded' /\ CrossedOnlyByOverlap'
  BY <1>1 DEF TypeOK, CallsOK, AckedIsRecorded, CrossedOnlyByOverlap
<1>3. ASSUME NEW k \in Key \ overlapped'
      PROVE  Orderly(k)' /\ (k \notin lost' => Frugal(k)')
  <2>1. Orderly(k) /\ (k \notin lost' => Frugal(k))
    BY <1>3 DEF KeysOK, Excused
  <2>2. \A g \in Handler : InUse(g, k)' <=> InUse(g, k)
    BY <1>1 DEF InUse
  <2>3. InProgress(k)' <=> InProgress(k)
    BY <2>2 DEF InProgress, InUse
  <2>4. k \notin lost' /\ InUse(h, k) => performed[k] = 0
    BY <2>1 DEF Frugal
  <2> QED
    BY <1>1, <2>1, <2>2, <2>3, <2>4 DEF Orderly, Frugal
<1>4. KeysOK'
  BY <1>3 DEF KeysOK, Excused
<1> QED
  BY <1>2, <1>4

LEMMA LoseAnswerKeeps ==
  ASSUME IInv, NEW h \in Handler, LoseAnswer(h)
  PROVE  IInv'
<1> USE DEF IInv
<1>1. /\ pc' \in [Handler -> {"idle", "lookup", "continue", "answered"}]
      /\ call' \in [Handler -> Calls \cup {NoCall}]
      /\ pc'[h] = "idle"
      /\ \A g \in Handler \ {h} : pc'[g] = pc[g] /\ call'[g] = call[g]
  BY EndMoves DEF LoseAnswer
<1>2. TypeOK' /\ CallsOK' /\ AckedIsRecorded' /\ CrossedOnlyByOverlap'
  BY <1>1 DEF TypeOK, CallsOK, AckedIsRecorded, CrossedOnlyByOverlap, LoseAnswer
<1>3. ASSUME NEW k \in Key \ overlapped' PROVE Orderly(k)'
  <2>1. Orderly(k)
    BY <1>3 DEF LoseAnswer, KeysOK
  <2>2. \A g \in Handler : InUse(g, k)' => InUse(g, k)
    BY <1>1 DEF InUse
  <2> QED
    BY <2>1, <2>2 DEF Orderly, LoseAnswer
<1>4. ASSUME NEW k \in Key \ Excused' PROVE Frugal(k)'
  <2>1. Frugal(k) /\ call[h].key # k
    BY <1>4 DEF LoseAnswer, KeysOK, Excused
  <2>2. \A g \in Handler : /\ InUse(g, k)' <=> InUse(g, k)
                           /\ InUse(g, k) => pc'[g] = pc[g]
    BY <1>1, <2>1 DEF InUse
  <2>3. InProgress(k)' <=> InProgress(k)
    BY <2>2 DEF InProgress, InUse
  <2> QED
    BY <2>1, <2>2, <2>3 DEF Frugal, LoseAnswer
<1>5. KeysOK'
  BY <1>3, <1>4 DEF KeysOK
<1> QED
  BY <1>2, <1>5

LEMMA RespondKeeps ==
  ASSUME IInv, NEW h \in Handler, Respond(h)
  PROVE  IInv'
<1> USE DEF IInv
<1> DEFINE c == call[h]
<1>1. pc[h] = "answered" /\ c \in Calls
  BY DEF Respond, CallsOK
<1>2. c.payload \in Payload
  BY <1>1 DEF Calls
<1>3. /\ records' \in RecordsOver(Payload, Payload)
      /\ c.key \in Key => records'[c.key] # NoRecord
      /\ \A j \in Key : j # c.key => records'[j] = records[j]
      /\ c.key \in Key /\ records[c.key] = NoRecord =>
           records'[c.key] = [hash |-> c.payload, response |-> c.payload]
  BY <1>2, SaveKeeps DEF TypeOK, Respond
<1>4. /\ pc' \in [Handler -> {"idle", "lookup", "continue", "answered"}]
      /\ call' \in [Handler -> Calls \cup {NoCall}]
      /\ pc'[h] = "idle"
      /\ \A g \in Handler \ {h} : pc'[g] = pc[g] /\ call'[g] = call[g]
  BY EndMoves DEF Respond
<1>5. given' = [call |-> c, response |-> c.payload] /\ acked' = acked \cup ({c.key} \cap Key)
  BY DEF Respond
<1>6. TypeOK' /\ CallsOK'
  BY <1>1, <1>2, <1>3, <1>4, <1>5 DEF TypeOK, CallsOK, Respond, Given
<1>7. AckedIsRecorded' /\ CrossedOnlyByOverlap'
  BY <1>3, <1>5 DEF AckedIsRecorded, CrossedOnlyByOverlap, TypeOK
<1>8. ASSUME NEW k \in Key \ overlapped'
      PROVE  Orderly(k)' /\ (k \notin lost' => Frugal(k)')
  <2>1. /\ Orderly(k) /\ performed' = performed
        /\ k \notin lost' => Frugal(k)
    BY <1>8 DEF Respond, KeysOK, Excused
  <2>2. \A g \in Handler : InUse(g, k)' <=> InUse(g, k) /\ g # h
    BY <1>4 DEF InUse
  <2>3. CASE c.key = k
    <3>1. InUse(h, k)
      BY <1>1, <2>3 DEF InUse
    <3>2. records[k] = NoRecord /\ \A g \in Handler : ~InUse(g, k)'
      BY <2>1, <2>2, <3>1 DEF Orderly
    <3>3. records'[k] # NoRecord /\ records'[k].response = records'[k].hash
      BY <1>3, <2>3, <3>2
    <3> QED
      BY <2>1, <3>2, <3>3 DEF Orderly, Frugal
  <2>4. CASE c.key # k
    <3>1. \A g \in Handler : /\ InUse(g, k)' <=> InUse(g, k)
                             /\ InUse(g, k) => pc'[g] = pc[g]
      BY <1>4, <2>4 DEF InUse
    <3>2. InProgress(k)' <=> InProgress(k)
      BY <3>1 DEF InProgress, InUse
    <3>3. records'[k] = records[k]
      BY <1>3, <2>4
    <3> QED
      BY <2>1, <3>1, <3>2, <3>3 DEF Orderly, Frugal
  <2> QED
    BY <2>3, <2>4
<1>9. KeysOK'
  BY <1>8 DEF KeysOK, Excused
<1> QED
  BY <1>6, <1>7, <1>9

LEMMA CrashKeeps ==
  ASSUME IInv, Crash
  PROVE  IInv'
<1> USE DEF IInv
<1>1. TypeOK' /\ CallsOK' /\ AckedIsRecorded' /\ CrossedOnlyByOverlap'
  BY DEF TypeOK, CallsOK, AckedIsRecorded, CrossedOnlyByOverlap, Crash
<1>2. \A g \in Handler, k \in Key : ~InUse(g, k)'
  BY DEF Crash, InUse
<1>3. ASSUME NEW k \in Key \ overlapped' PROVE Orderly(k)'
  BY <1>2, <1>3 DEF Crash, KeysOK, Orderly
<1>4. ASSUME NEW k \in Key \ Excused' PROVE Frugal(k)'
  <2>1. Frugal(k) /\ \A h \in Handler : InUse(h, k) => pc[h] # "answered"
    BY <1>4 DEF Crash, KeysOK, Excused, InUse
  <2>2. records[k] = NoRecord => performed[k] = 0
    BY <2>1 DEF Frugal, InProgress, InUse
  <2> QED
    BY <1>2, <2>1, <2>2 DEF Frugal, Crash
<1>5. KeysOK'
  BY <1>3, <1>4 DEF KeysOK
<1> QED
  BY <1>1, <1>5

LEMMA NextKeeps == IInv /\ [Next]_vars => IInv'
<1> SUFFICES ASSUME IInv, [Next]_vars PROVE IInv'
  OBVIOUS
<1>1. ASSUME NEW h \in Handler, NEW c \in Admissible, Begin(h, c) PROVE IInv'
  BY <1>1, BeginKeeps
<1>2. ASSUME NEW h \in Handler, NEW c \in Admissible, Replay(h, c) PROVE IInv'
  BY <1>2, ReplayKeeps
<1>3. ASSUME NEW h \in Handler, Perform(h) PROVE IInv'
  BY <1>3, PerformKeeps
<1>4. ASSUME NEW h \in Handler, Conflict(h) PROVE IInv'
  BY <1>4, GotoKeeps, EndUnansweredKeeps DEF Conflict
<1>5. ASSUME NEW h \in Handler, ContinueBranch(h) PROVE IInv'
  BY <1>5, GotoKeeps DEF ContinueBranch
<1>6. ASSUME NEW h \in Handler, Fail(h) PROVE IInv'
  BY <1>6, EndUnansweredKeeps DEF Fail
<1>7. ASSUME NEW h \in Handler, LoseAnswer(h) PROVE IInv'
  BY <1>7, LoseAnswerKeeps
<1>8. ASSUME NEW h \in Handler, Respond(h) PROVE IInv'
  BY <1>8, RespondKeeps
<1>9. CASE Crash
  BY <1>9, CrashKeeps
<1>10. ASSUME NEW p \in Named, DeleteBranch(p) PROVE IInv'
  BY <1>10 DEF IInv, TypeOK, CallsOK, AckedIsRecorded, CrossedOnlyByOverlap, KeysOK, Excused,
               Orderly, Frugal, InUse, InProgress, DeleteBranch, handler, history
<1>11. CASE UNCHANGED vars
  BY <1>11 DEF IInv, TypeOK, CallsOK, AckedIsRecorded, CrossedOnlyByOverlap, KeysOK, Excused,
               Orderly, Frugal, InUse, InProgress, vars, handler, history
<1> QED
  BY <1>1, <1>2, <1>3, <1>4, <1>5, <1>6, <1>7, <1>8, <1>9, <1>10, <1>11 DEF Next

LEMMA Inductive == Spec => []IInv
BY InitEstablishes, NextKeeps, PTL DEF Spec

-----------------------------------------------------------------------------
(* Theorems *)

(* A key whose requests never overlapped and never lost an answer bought   *)
(* one dispatch, rerun or branch at most, through any crashes and repeats. *)
THEOREM KeyBuysOnce == Spec => []OncePerKeyUnlessExcused
<1>1. IInv => OncePerKeyUnlessExcused
  BY DEF IInv, KeysOK, Excused, OncePerKeyUnlessExcused, Frugal
<1> QED
  BY <1>1, Inductive, PTL

(* The response a request gets reports the payload it asked for, unless    *)
(* two requests with its key were between get_idempotent_response and      *)
(* save_idempotent_response at once; lost answers and crashes do not       *)
(* excuse it.                                                              *)
THEOREM AnswerIsItsOwn == Spec => []CrossedOnlyByOverlap
<1>1. IInv => CrossedOnlyByOverlap
  BY DEF IInv
<1> QED
  BY <1>1, Inductive, PTL

(* No request under a key that was answered with success reaches the forge *)
(* again: the row is there before the answer leaves and is never removed.  *)
THEOREM AnsweredStaysAnswered == Spec => AnsweredIsNeverRepeated
<1> DEFINE Step == \A h \in Handler :
              pc[h] = "idle" /\ pc'[h] = "lookup" => call'[h].key \notin acked
<1>1. IInv /\ [Next]_vars => [Step]_vars
  <2> SUFFICES ASSUME IInv, Next, NEW h \in Handler, pc[h] = "idle", pc'[h] = "lookup"
               PROVE  call'[h].key \notin acked
    OBVIOUS
  <2>1. ASSUME NEW g \in Handler, NEW c \in Admissible, Begin(g, c)
        PROVE  call'[h].key \notin acked
    <3>1. g = h /\ call'[h] = c
      BY <2>1, BeginMoves DEF IInv, Admissible
    <3> QED
      BY <2>1, <3>1 DEF Begin, Miss, IInv, TypeOK, AckedIsRecorded
  <2>2. ASSUME NEW g \in Handler, Perform(g) \/ Conflict(g) \/ ContinueBranch(g) \/ Fail(g)
                                    \/ LoseAnswer(g) \/ Respond(g)
        PROVE  FALSE
    BY <2>2, EndMoves, GotoMoves
       DEF IInv, Perform, Conflict, ContinueBranch, Fail, LoseAnswer, Respond
  <2>3. \A g \in Handler, c \in Admissible : ~Replay(g, c)
    BY DEF Replay, handler
  <2>4. ~Crash /\ \A p \in Named : ~DeleteBranch(p)
    BY DEF Crash, DeleteBranch, handler
  <2> QED
    BY <2>1, <2>2, <2>3, <2>4 DEF Next
<1> QED
  BY <1>1, Inductive, PTL DEF Spec, AnsweredIsNeverRepeated
=============================================================================
