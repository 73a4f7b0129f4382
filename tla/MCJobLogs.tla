----------------------------- MODULE MCJobLogs -----------------------------
(* Three jobs, two of them on the page that is listed and one of these with *)
(* a binary log; of one failed job the log is answered; archives of three   *)
(* files asked for in part or cut; logs of up to three lines, some as long  *)
(* as a whole answer; two callers with two requests in two ticks.           *)
EXTENDS JobLogs, TLC

Symmetry == Permutations(Key)

Short(kind) == [kind |-> kind, bytes |-> 1]
Long == [kind |-> "plain", bytes |-> 3]
SomeLines == {Long} \cup {Short(kind) : kind \in {"plain", "error", "step"}}

(* What is looked for, an error or a step, anywhere and any number of       *)
(* times, or after a line that leaves no bytes for it.                      *)
LogsOf(kind) ==
  UNION {[1 .. n -> {Short("plain"), Short(kind)}] : n \in 0 .. 3}
    \cup {<<Long>> \o rest : rest \in {<<Short(kind)>>, <<Short(kind), Short("plain")>>}}

SomeLogs == LogsOf("error") \cup LogsOf("step")
=============================================================================
