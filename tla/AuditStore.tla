----------------------------- MODULE AuditStore -----------------------------
(***************************************************************************)
(* The idempotency table of app/storage/audit.py: one row per scope and    *)
(* key, holding the hash of a request and the response it got.  The rows   *)
(* are in SQLite and committed before the call returns, so they survive a  *)
(* crash.  Hashes are the requests themselves (SHA-256 does not collide).  *)
(***************************************************************************)

CONSTANTS
  Key,       \* pairs of a scope and an idempotency_key
  NoKey,     \* the request carries no idempotency_key
  NoRecord   \* no row for the key

ASSUME KeyAssumption == NoKey \notin Key

VARIABLE records  \* the table: key -> [hash, response] or NoRecord

RecordsOver(Request, Response) ==
  [Key -> [hash : Request, response : Response] \cup {NoRecord}]

NoRecords == records = [k \in Key |-> NoRecord]

(* get_idempotent_response finds no row: the handler goes on. *)
Miss(k) == k \in Key => records[k] = NoRecord

(* Fault: the hash of the request is not compared. *)
HitByKey(k, request) == k \in Key /\ records[k] # NoRecord

(* It finds the row of this very request: the stored response is replayed. *)
(* (The row of another request is an error, IDEMPOTENCY_KEY_REUSED.)       *)
Hit(k, request) ==
  /\ k \in Key
  /\ records[k] # NoRecord
  /\ records[k].hash = request

(* Fault: nothing is saved. *)
SaveNothing(k, request, response) == records' = records

(* save_idempotent_response: INSERT, or on conflict replace the response   *)
(* and leave request_hash as it is.  Nothing is saved without a key.       *)
SaveIdempotentResponse(k, request, response) ==
  records' = IF k \notin Key THEN records
             ELSE [records EXCEPT ![k] =
                     IF @ = NoRecord THEN [hash |-> request, response |-> response]
                     ELSE [@ EXCEPT !.response = response]]
=============================================================================
