----------------------------- MODULE ForgeCalls -----------------------------
(***************************************************************************)
(* The operations that change something at the forge under an optional     *)
(* idempotency_key and without a lock: create_work_branch                  *)
(* (app/services/branches.py), dispatch_workflow, rerun_workflow_run and   *)
(* rerun_workflow_job (app/services/ci.py).  All have one shape: look the  *)
(* key up; ask the forge for what the operation needs; perform it; save    *)
(* the response under the key; answer.  Only the first and the last two    *)
(* run without an await in between.                                        *)
(*                                                                         *)
(* A dispatch or rerun can be performed any number of times.  A branch of  *)
(* a given name can be created once: the forge refuses a second time with  *)
(* a conflict, which continue_if_exists turns into a success.              *)
(*                                                                         *)
(* A response is abstracted to the payload whose performance it reports.   *)
(***************************************************************************)
EXTENDS Naturals, AuditStore

CONSTANTS
  Handler,   \* concurrent requests
  Payload,   \* the request bodies, without their key
  Accepts,   \* the payloads of each key's scope, which names an operation
  Named,     \* payloads that create a branch under a given name
  Continue   \* those of Named with continue_if_exists

ASSUME PayloadAssumption ==
  /\ Continue \subseteq Named /\ Named \subseteq Payload
  /\ Accepts \in [Key -> SUBSET Payload]
  /\ NoRecord \notin Payload \cup [hash : Payload, response : Payload]

VARIABLES
  pc,        \* "idle", "lookup" (asking the forge), "continue" (the branch
             \* exists, asking for its head) or "answered" (response arrived)
  call,      \* the key and payload of the request in progress
  branches,  \* at the forge: payloads of Named whose branch exists
  acked,     \* history: keys some request succeeded with
  overlapped,\* history: keys two requests used at once
  lost,      \* history: keys one of whose requests the forge had answered
             \* when it ended without a response
  performed, \* history: performances under each key; 2 stands for more
  given      \* history: the latest success: its call and the response

handler == <<pc, call>>
history == <<acked, overlapped, lost, performed, given>>
vars    == <<records, branches, handler, history>>

NoCall == [key |-> NoKey, payload |-> NoRecord]
Calls  == [key : Key \cup {NoKey}, payload : Payload]
Given  == [call : Calls, response : Payload]

TypeOK ==
  /\ records \in RecordsOver(Payload, Payload)
  /\ pc \in [Handler -> {"idle", "lookup", "continue", "answered"}]
  /\ call \in [Handler -> Calls \cup {NoCall}]
  /\ branches \subseteq Named
  /\ acked \subseteq Key /\ overlapped \subseteq Key /\ lost \subseteq Key
  /\ performed \in [Key -> 0 .. 2]
  /\ given \in Given \cup {NoRecord}

Init ==
  /\ NoRecords
  /\ pc = [h \in Handler |-> "idle"]
  /\ call = [h \in Handler |-> NoCall]
  /\ branches = {}
  /\ acked = {} /\ overlapped = {} /\ lost = {}
  /\ performed = [k \in Key |-> 0]
  /\ given = NoRecord

-----------------------------------------------------------------------------

InProgress(k) == \E h \in Handler : pc[h] # "idle" /\ call[h].key = k

Goto(h, where) == pc' = [pc EXCEPT ![h] = where] /\ UNCHANGED call

End(h) ==
  /\ pc' = [pc EXCEPT ![h] = "idle"]
  /\ call' = [call EXCEPT ![h] = NoCall]

(* Fault: the table is not consulted. *)
BeginUnchecked(h, c) ==
  /\ pc[h] = "idle"
  /\ pc' = [pc EXCEPT ![h] = "lookup"]
  /\ call' = [call EXCEPT ![h] = c]
  /\ overlapped' = overlapped \cup {k \in Key : k = c.key /\ InProgress(k)}
  /\ UNCHANGED <<records, branches, acked, lost, performed, given>>

(* The request is new: on to the forge. *)
Begin(h, c) ==
  /\ pc[h] = "idle"
  /\ Miss(c.key)
  /\ pc' = [pc EXCEPT ![h] = "lookup"]
  /\ call' = [call EXCEPT ![h] = c]
  /\ overlapped' = overlapped \cup {k \in Key : k = c.key /\ InProgress(k)}
  /\ UNCHANGED <<records, branches, acked, lost, performed, given>>

(* The request repeats one that succeeded: its response is replayed.       *)
(* (A key reused for another payload is answered with an error and changes *)
(* nothing.)                                                               *)
Replay(h, c) ==
  /\ pc[h] = "idle"
  /\ Hit(c.key, c.payload)
  /\ given' = [call |-> c, response |-> records[c.key].response]
  /\ UNCHANGED <<records, branches, handler, acked, overlapped, lost, performed>>

(* The forge performs the operation and its answer arrives. *)
Perform(h) ==
  /\ pc[h] = "lookup"
  /\ call[h].payload \notin branches
  /\ branches' = branches \cup ({call[h].payload} \cap Named)
  /\ performed' = [k \in Key |-> IF k = call[h].key /\ performed[k] < 2
                                   THEN performed[k] + 1 ELSE performed[k]]
  /\ Goto(h, "answered")
  /\ UNCHANGED <<records, acked, overlapped, lost, given>>

(* create_ref meets an existing branch. *)
Conflict(h) ==
  /\ pc[h] = "lookup"
  /\ call[h].payload \in branches
  /\ IF call[h].payload \in Continue THEN Goto(h, "continue") ELSE End(h)
  /\ UNCHANGED <<records, branches, history>>

ContinueBranch(h) ==
  /\ pc[h] = "continue"
  /\ call[h].payload \in branches
  /\ Goto(h, "answered")
  /\ UNCHANGED <<records, branches, history>>

(* The forge refuses a preliminary request, or nothing is heard from it.   *)
Fail(h) ==
  /\ pc[h] \in {"lookup", "continue"}
  /\ End(h)
  /\ UNCHANGED <<records, branches, history>>

(* The operation was performed and its answer is lost: a timeout or a      *)
(* broken connection.  The handler ends with an error and saves nothing.   *)
LoseAnswer(h) ==
  /\ pc[h] = "answered"
  /\ End(h)
  /\ lost' = lost \cup ({call[h].key} \cap Key)
  /\ UNCHANGED <<records, branches, acked, overlapped, performed, given>>

(* Save the response under the key, then answer. *)
Respond(h) ==
  /\ pc[h] = "answered"
  /\ SaveIdempotentResponse(call[h].key, call[h].payload, call[h].payload)
  /\ acked' = acked \cup ({call[h].key} \cap Key)
  /\ given' = [call |-> call[h], response |-> call[h].payload]
  /\ End(h)
  /\ UNCHANGED <<branches, overlapped, lost, performed>>

(* The gateway dies: the requests in progress are forgotten. *)
Crash ==
  /\ pc' = [h \in Handler |-> "idle"]
  /\ call' = [h \in Handler |-> NoCall]
  /\ lost' = lost \cup {k \in Key : \E h \in Handler : pc[h] = "answered" /\ call[h].key = k}
  /\ UNCHANGED <<records, branches, acked, overlapped, performed, given>>

(* Somebody else deletes the branch, for instance after a merge. *)
DeleteBranch(p) ==
  /\ p \in branches
  /\ branches' = branches \ {p}
  /\ UNCHANGED <<records, handler, history>>

Admissible == {c \in Calls : c.key \in Key => c.payload \in Accepts[c.key]}

Next ==
  \/ \E h \in Handler :
       \/ \E c \in Admissible : Begin(h, c) \/ Replay(h, c)
       \/ Perform(h) \/ Conflict(h) \/ ContinueBranch(h) \/ Fail(h)
       \/ LoseAnswer(h) \/ Respond(h)
  \/ Crash
  \/ \E p \in Named : DeleteBranch(p)

Spec == Init /\ [][Next]_vars

-----------------------------------------------------------------------------
(* Properties *)

(* Once a request with a key was answered with success, no request with    *)
(* that key goes to the forge again, whatever crashes in between: the row  *)
(* is committed before the answer leaves.                                  *)
AnsweredIsNeverRepeated ==
  [][\A h \in Handler :
       pc[h] = "idle" /\ pc'[h] = "lookup" => call'[h].key \notin acked]_vars

(* A key buys at most one performance, unless two of its requests overlap  *)
(* or one was performed and never answered.  Those are the windows between *)
(* get_idempotent_response and save_idempotent_response.                   *)
OncePerKeyUnlessExcused ==
  \A k \in Key \ (overlapped \cup lost) : performed[k] <= 1

(* The response a request gets is about that request, unless two requests  *)
(* with its key were between get_idempotent_response and                   *)
(* save_idempotent_response at once.  Lost answers and crashes are no      *)
(* excuse: what is performed again after one leaves a row of its own.      *)
CrossedOnlyByOverlap ==
  given # NoRecord /\ given.call.key \notin overlapped =>
    given.response = given.call.payload
=============================================================================
