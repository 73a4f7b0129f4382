------------------------------ MODULE LogText ------------------------------
(***************************************************************************)
(* What is cut out of a job's log for an answer: _trim_log and             *)
(* _extract_step_log of app/services/ci.py, parse_failed_log of            *)
(* app/ci/logs.py.  A log is a sequence of lines; a line is its bytes and  *)
(* what the code can tell of it, whether it matches ERROR_RE and whether   *)
(* it names the step asked for.                                            *)
(***************************************************************************)
EXTENDS Naturals, Sequences, FiniteSets, FiniteSetsExt

CONSTANTS
  Line,       \* lines a log may have: [kind, bytes], the line break counted
  MaxBytes,   \* settings.max_log_bytes
  TailBytes,  \* what is left of it for last_lines of a failed log
  Lead, Rest, \* lines shown before (20) and after (80) the first error
  TailLines,  \* lines of last_lines at most (200)
  StepLead, StepRest  \* lines shown before (5) and from (80) the last naming of a step

ASSUME LogAssumption ==
  /\ Line \subseteq [kind : {"plain", "error", "step"}, bytes : Nat \ {0}]
  /\ MaxBytes \in Nat /\ TailBytes \in Nat /\ TailLines \in Nat
  /\ Lead \in Nat /\ Rest \in Nat /\ StepLead \in Nat /\ StepRest \in Nat \ {0}

First(s, n) == SubSeq(s, 1, IF n < Len(s) THEN n ELSE Len(s))
Last(s, n) == SubSeq(s, IF n < Len(s) THEN Len(s) - n + 1 ELSE 1, Len(s))

Lines(log, kind) == {i \in DOMAIN log : log[i].kind = kind}

Bytes(log) == MapThenSumSet(LAMBDA i : log[i].bytes, DOMAIN log)

(* The first n bytes: the lines that fit, and what the limit leaves of the *)
(* next one, which may not show any more what was looked for (_clip_bytes, *)
(* without the mark it adds).                                              *)
Clip(log, n) ==
  LET whole == First(log, Max({m \in 0 .. Len(log) : Bytes(First(log, m)) <= n}))
      left  == n - Bytes(whole) IN
  IF Bytes(log) > n
  THEN whole \o (IF left = 0 THEN <<>> ELSE <<[kind |-> "cut", bytes |-> left]>>)
  ELSE log

(* _trim_log. Fault: only what the lines cut is reported. *)
TrimSilently(log, maxLines) ==
  LET clipped == Clip(log, MaxBytes) IN
  [ excerpt |-> First(clipped, maxLines), last |-> Last(clipped, maxLines),
    truncated |-> Len(clipped) > maxLines ]

(* The bytes are cut first: last_lines are of what is left of them, not of *)
(* the log.                                                                *)
Trim(log, maxLines) ==
  LET clipped == Clip(log, MaxBytes) IN
  [ excerpt   |-> First(clipped, maxLines),
    last      |-> Last(clipped, maxLines),
    truncated |-> Bytes(log) > MaxBytes \/ Len(clipped) > maxLines ]

(* Fault: the end is counted from the first line that names the step. *)
StepLogFirst(log) ==
  LET named == Lines(log, "step") IN
  IF named = {} THEN log
  ELSE SubSeq(log, Max({1, Min(named) - StepLead}), Min({Min(named) + StepRest - 1, Len(log)}))

(* _extract_step_log: from a little before the first line that names the   *)
(* step to a little after the last, or everything.                         *)
StepLog(log) ==
  LET named == Lines(log, "step") IN
  IF named = {} THEN log
  ELSE SubSeq(log, Max({1, Min(named) - StepLead}), Min({Max(named) + StepRest - 1, Len(log)}))

(* Fault: the lines before the error are not limited. *)
AroundFromStart(log, maxLines) ==
  LET errors == Lines(log, "error") IN
  IF errors = {} THEN Last(log, maxLines)
  ELSE SubSeq(log, 1, Min({Len(log), Min(errors) + Rest}))

(* Around the first error, or the tail when nothing looks like one. *)
Around(log, maxLines) ==
  LET errors == Lines(log, "error") IN
  IF errors = {} THEN Last(log, maxLines)
  ELSE SubSeq(log, Max({1, Min(errors) - Lead}), Min({Len(log), Min(errors) + Rest}))

(* parse_failed_log: truncated speaks of bytes only. *)
FailedLog(log, maxLines) ==
  LET excerpt == First(Around(log, maxLines), maxLines)
      last    == Last(log, Min({TailLines, maxLines})) IN
  [ excerpt   |-> Clip(excerpt, MaxBytes),
    last      |-> Clip(last, TailBytes),
    truncated |-> Bytes(excerpt) > MaxBytes \/ Bytes(last) > TailBytes ]
=============================================================================
