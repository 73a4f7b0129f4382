---------------------------- MODULE RateLimiter ----------------------------
(***************************************************************************)
(* enforce_rate_limit (app/auth/dependencies.py): a sliding window of      *)
(* timestamps per key, the caller's host and the start of its token.       *)
(* Every authenticated request of every route passes it first.  Times are  *)
(* ages in ticks of the clock; what is older than the window is all one    *)
(* age, so the clock needs no bound.  The buckets are memory of the        *)
(* process: a restart empties them, which is not modelled.                 *)
(***************************************************************************)
EXTENDS Integers, Sequences, FiniteSets

CONSTANTS
  Key,     \* callers the limiter tells apart
  Limit,   \* settings.rate_limit_per_minute
  Window   \* the minute, in ticks

ASSUME LimitAssumption == Limit \in Nat /\ Window \in Nat

VARIABLES
  bucket,    \* per key, the ages of the timestamps kept, oldest first
  admitted,  \* history: per key, the ages of what was let in, while in the window
  refused    \* history: keys the step just taken refused

limiter == <<bucket, admitted, refused>>

Age == 0 .. Window + 1
Allowed == IF Limit < 1 THEN 1 ELSE Limit

LimiterTypeOK ==
  /\ bucket \in [Key -> Seq(Age)]
  /\ admitted \in [Key -> Seq(Age)]
  /\ refused \subseteq Key
  /\ \A k \in Key : \A i, j \in DOMAIN bucket[k] : i < j => bucket[k][i] >= bucket[k][j]

LimiterInit ==
  /\ bucket = [k \in Key |-> <<>>]
  /\ admitted = [k \in Key |-> <<>>]
  /\ refused = {}

(* From the left, ages go as long as they are over a limit.  Loops like    *)
(* this one end at the first age that is not, or at the end.               *)
Dropped(ages, limit) ==
  LET n == CHOOSE m \in 0 .. Len(ages) :
             /\ \A i \in 1 .. m : ages[i] > limit
             /\ m < Len(ages) => ages[m + 1] <= limit
  IN  SubSeq(ages, n + 1, Len(ages))

Recent(ages) == Dropped(ages, Window)

(* Fault: a timestamp is dropped when it is exactly a window old. *)
KeptShort(k) == Dropped(bucket[k], Window - 1)

(* What is left after the timestamps before window_start were dropped. *)
Kept(k) == Recent(bucket[k])

(* Fault: the request is counted before it is compared. *)
RefuseCounted(k) ==
  /\ Len(Kept(k)) >= Allowed
  /\ bucket' = [bucket EXCEPT ![k] = Append(Kept(k), 0)]
  /\ refused' = {k}
  /\ UNCHANGED admitted

(* Too many in the window: refused, and not counted. *)
Refuse(k) ==
  /\ Len(Kept(k)) >= Allowed
  /\ bucket' = [bucket EXCEPT ![k] = Kept(k)]
  /\ refused' = {k}
  /\ UNCHANGED admitted

Admit(k) ==
  /\ Len(Kept(k)) < Allowed
  /\ bucket' = [bucket EXCEPT ![k] = Append(Kept(k), 0)]
  /\ admitted' = [admitted EXCEPT ![k] = Append(@, 0)]
  /\ refused' = {}

Tick ==
  LET Older(age) == IF age > Window THEN age ELSE age + 1 IN
  /\ bucket' = [k \in Key |-> [i \in DOMAIN bucket[k] |-> Older(bucket[k][i])]]
  /\ admitted' = [k \in Key |->
       Recent([i \in DOMAIN admitted[k] |-> Older(admitted[k][i])])]
  /\ refused' = {}

(* Within any minute, ends included, a key is let in no more often than    *)
(* its limit, however its requests are spread over it, and is refused only *)
(* when the last minute was full: neither refused requests nor those of    *)
(* other keys count (enforce_rate_limit drops what is older than 60        *)
(* seconds, compares, and only then counts).  It is about one life of the  *)
(* process: after a restart a key is let in anew.                          *)
LimitPerWindow ==
  \A k \in Key :
    LET inWindow == {i \in DOMAIN admitted[k] : admitted[k][i] <= Window}
    IN  /\ Cardinality(inWindow) <= Allowed
        /\ k \in refused => Cardinality(inWindow) = Allowed
=============================================================================
