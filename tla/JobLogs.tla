------------------------------ MODULE JobLogs ------------------------------
(***************************************************************************)
(* The logs of a workflow run (get_run_log, get_failed_ci_log, get_job_log *)
(* of app/services/ci.py, download_run_logs of app/gitea/client.py): a page *)
(* of the jobs is listed once and their logs fetched one by one, while the *)
(* jobs end and their logs appear and expire.  Requests pass the rate      *)
(* limiter; what is cut out of each log is LogText.                        *)
(***************************************************************************)
EXTENDS RateLimiter, LogText

CONSTANTS
  Jobs,       \* number of jobs of the run
  JobsPage,   \* jobs the forge lists on one page (100)
  Binary,     \* jobs whose log has a zero byte among its first 4096
  MaxFiles,   \* bound: most files of an archive a request may ask for
  MaxFailed,  \* failed jobs whose logs are answered (10)
  Logs,       \* logs a job may have
  MaxLines    \* bound: most lines a request may ask for

ASSUME JobAssumption ==
  /\ Jobs \in Nat /\ JobsPage \in Nat /\ Binary \subseteq 1 .. Jobs /\ MaxFiles \in Nat /\ MaxFailed \in Nat
  /\ Logs \subseteq Seq(Line) /\ MaxLines \in Nat

VARIABLES
  job,     \* per job of the page, [end, log]: its conclusion and whether its
           \* log is there
  pc,      \* what the request awaits
  due,     \* jobs whose logs it still has to fetch
  got,     \* what it fetched: [job, there]
  listed,  \* history: jobs of the list the request asked for
  answer   \* what the step just taken answered: files, and of one job the
           \* whole log (history) and what was cut out of it

request == <<pc, due, got, listed>>
vars == <<limiter, job, request, answer>>

-----------------------------------------------------------------------------

Job == 1 .. Jobs
Page == {j \in Job : j <= JobsPage}             \* nobody asks for a second one
Entry == [job : {0} \cup Job, there : BOOLEAN]   \* job 0 is the manifest

Uncut == [excerpt |-> <<>>, last |-> <<>>, truncated |-> FALSE]
Silent == [kind |-> "none", files |-> {}, truncated |-> FALSE, asked |-> {},
           log |-> <<>>, lines |-> 0, cut |-> Uncut]

TypeOK ==
  /\ LimiterTypeOK
  /\ job \in [Page -> [end : {"none", "success", "failure"}, log : BOOLEAN]]
  /\ pc \in {"idle", "list_all", "list_failed", "fetch_all", "fetch_failed", "fetch_job"}
  /\ due \subseteq listed /\ listed \subseteq Page
  /\ got \subseteq [job : listed, there : BOOLEAN]
  /\ answer.kind \in {"none", "all", "failed", "step", "job"}
  /\ answer.files \subseteq Entry /\ answer.asked \subseteq {0} \cup Job

Init ==
  /\ LimiterInit
  /\ job = [j \in Page |-> [end |-> "none", log |-> FALSE]]
  /\ pc = "idle" /\ due = {} /\ got = {} /\ listed = {}
  /\ answer = Silent

Await(where) ==
  /\ pc' = where
  /\ answer' = Silent

Answer(what) ==
  /\ pc' = "idle" /\ due' = {} /\ got' = {} /\ listed' = {}
  /\ answer' = what

(* A request of this caller for the logs; refused when it had its share.   *)
Ask(k, where) ==
  /\ pc = "idle"
  /\ \/ Admit(k) /\ Await(where)
     \/ Refuse(k) /\ Await("idle")
  /\ UNCHANGED <<job, due, got, listed>>

(* Any other request counts too. *)
OtherRequest(k) ==
  /\ Admit(k) \/ Refuse(k)
  /\ answer' = Silent
  /\ UNCHANGED <<job, request>>

(* The forge does not answer, or with something else than "not ready". *)
ForgeFails ==
  /\ pc # "idle"
  /\ Answer(Silent)
  /\ UNCHANGED <<limiter, job>>

(* The jobs of the list a request about failed jobs is for: the one it     *)
(* names, or those that ended with anything but a success.                 *)
Matching(named) == {j \in Page : IF named = 0 THEN job[j].end = "failure" ELSE j = named}

(* The first n of some jobs, in the order of the list. *)
FirstJobs(jobs, n) == {j \in jobs : Cardinality({i \in jobs : i <= j}) <= n}

ListAll ==
  /\ pc = "list_all"
  /\ due' = Page /\ listed' = Page
  /\ Await("fetch_all")
  /\ UNCHANGED <<limiter, job, got>>

(* Only the first ten are fetched, and nothing says there were more. *)
ListFailed(named) ==
  /\ pc = "list_failed" /\ Matching(named) # {}
  /\ due' = FirstJobs(Matching(named), MaxFailed)
  /\ listed' = Matching(named)
  /\ Await("fetch_failed")
  /\ UNCHANGED <<limiter, job, got>>

(* No job of the page failed, or none has the id: refused. *)
NothingMatches ==
  /\ pc = "list_failed" /\ \E named \in {0} \cup Job : Matching(named) = {}
  /\ Answer(Silent)
  /\ UNCHANGED <<limiter, job>>

IsNext(j) == j \in due /\ \A i \in due : j <= i

(* Fault: a failed job whose log is not ready is passed over. *)
FetchPassingOver(j) ==
  /\ pc \in {"fetch_all", "fetch_failed"} /\ IsNext(j)
  /\ due' = due \ {j}
  /\ got' = got \cup {e \in {[job |-> j, there |-> job[j].log]} : pc = "fetch_all" \/ e.there}
  /\ Await(pc)
  /\ UNCHANGED <<limiter, job, listed>>

(* A log that is not ready is replaced by a note in an archive of all      *)
(* logs; without it the logs of the failed jobs are not answered at all.   *)
Fetch(j) ==
  /\ pc \in {"fetch_all", "fetch_failed"} /\ IsNext(j)
  /\ IF pc = "fetch_all" \/ job[j].log
     THEN /\ due' = due \ {j}
          /\ got' = got \cup {[job |-> j, there |-> job[j].log]}
          /\ Await(pc)
          /\ UNCHANGED listed
     ELSE Answer(Silent)
  /\ UNCHANGED <<limiter, job>>

(* Fault: the manifest is written before the logs are fetched. *)
ArchiveManifestFirst == got \cup {[job |-> 0, there |-> TRUE]}

(* The archive of download_run_logs: the logs, then the manifest that says *)
(* whether one is missing.                                                 *)
Archive == got \cup {[job |-> 0, there |-> \A e \in got : e.there]}

(* Entries come in the order of the jobs, the manifest last. *)
Earlier(e, f) == e.job # 0 /\ (f.job = 0 \/ e.job < f.job)

FilesBefore(e, files) == Cardinality({f \in files : Earlier(f, e)})

(* A note in place of a log is text. *)
IsText(e) == ~(e.there /\ e.job \in Binary)

(* The entries whose path contains what the request asks for, until there  *)
(* are as many files as it allows and one entry more.  An entry that is no *)
(* text is passed over, and nothing says so.                               *)
AnswerAll(asked, maxFiles) ==
  LET entries == {e \in Archive : e.job \in asked}
      texts   == {e \in entries : IsText(e)} IN
  /\ pc = "fetch_all" /\ due = {}
  /\ Answer([Silent EXCEPT
       !.kind = "all", !.asked = asked,
       !.files = {e \in texts : FilesBefore(e, texts) < maxFiles},
       !.truncated = \E e \in entries : FilesBefore(e, texts) >= maxFiles])
  /\ UNCHANGED <<limiter, job>>

(* Every log is cut around its first error; log is the one of the last. *)
AnswerFailed(log, maxLines) ==
  /\ pc = "fetch_failed" /\ due = {}
  /\ Answer([Silent EXCEPT !.kind = "failed", !.files = got, !.asked = listed,
                            !.log = log, !.lines = maxLines, !.cut = FailedLog(log, maxLines)])
  /\ UNCHANGED <<limiter, job>>

(* One job, whole or the part of a step. *)
AnswerJob(log, maxLines, ofStep) ==
  /\ pc = "fetch_job"
  /\ Answer([Silent EXCEPT !.kind = IF ofStep THEN "step" ELSE "job", !.log = log, !.lines = maxLines,
                            !.cut = Trim(IF ofStep THEN StepLog(log) ELSE log, maxLines)])
  /\ UNCHANGED <<limiter, job>>

(* A job ends; its log appears, and may expire. *)
JobEnds(j) ==
  /\ job[j].end = "none"
  /\ \E end \in {"success", "failure"} : job' = [job EXCEPT ![j].end = end]
  /\ answer' = Silent
  /\ UNCHANGED <<limiter, request>>

LogChanges(j) ==
  /\ job[j].end # "none" \/ ~job[j].log
  /\ job' = [job EXCEPT ![j].log = ~@]
  /\ answer' = Silent
  /\ UNCHANGED <<limiter, request>>

Minute == Tick /\ answer' = Silent /\ UNCHANGED <<job, request>>

Next ==
  \/ \E k \in Key :
       Ask(k, "list_all") \/ Ask(k, "list_failed") \/ Ask(k, "fetch_job") \/ OtherRequest(k)
  \/ ForgeFails \/ ListAll \/ NothingMatches
  \/ \E log \in Logs, maxLines \in 1 .. MaxLines :
       AnswerFailed(log, maxLines) \/ AnswerJob(log, maxLines, TRUE) \/ AnswerJob(log, maxLines, FALSE)
  \/ \E named \in {0} \cup Job : ListFailed(named)
  \/ \E asked \in SUBSET ({0} \cup Job), maxFiles \in 1 .. MaxFiles : AnswerAll(asked, maxFiles)
  \/ \E j \in Page : Fetch(j) \/ JobEnds(j) \/ LogChanges(j)
  \/ Minute

Spec == Init /\ [][Next]_vars

-----------------------------------------------------------------------------
(* Properties *)

(* An archive answered without "truncated" has every text file that was    *)
(* asked for among those of the listed page, also the log of a job that    *)
(* ended or lost it while the others were fetched: only a log with a zero  *)
(* byte early in it may be absent.  Its manifest says "complete" exactly   *)
(* when no log of the page was missing (download_run_logs, get_run_log).   *)
WholeOrTruncated ==
  answer.kind = "all" /\ ~answer.truncated =>
    /\ (answer.asked \ Binary) \cap ({0} \cup Page) \subseteq {e.job : e \in answer.files}
    /\ \A e \in answer.files : e.job = 0 /\ (e.there \/ Page \subseteq answer.asked) =>
         e.there = \A f \in answer.files : f.job # 0 => f.there

(* An answer about failed jobs has the log of every job of the listed page *)
(* it was about, as far as the ten that are fetched, and no note in place  *)
(* of one: such a job is never absent because its log was not there in     *)
(* time (get_failed_ci_log).                                               *)
FailedLogsAreThere ==
  answer.kind = "failed" =>
    /\ \A e \in answer.files : e.there
    /\ Cardinality({e.job : e \in answer.files} \cap answer.asked)
         = Min({MaxFailed, Cardinality(answer.asked)})

(* What the answer about a job does not mark as truncated is its whole log *)
(* (_trim_log), up to the lines around a step or an error that were asked  *)
(* for.                                                                    *)
UntruncatedIsWhole ==
  answer.kind = "job" /\ ~answer.cut.truncated =>
    answer.cut.excerpt = answer.log /\ answer.cut.last = answer.log

(* What is cut out of a log keeps what it was cut out for, or is marked as *)
(* truncated: every line that names the step asked for (_extract_step_log), *)
(* and an error of a log that has one, however late it comes, whenever     *)
(* more lines than the lead were asked for (parse_failed_log).  Bytes may  *)
(* cut either off, but never unsaid.                                       *)
LookedForIsShown ==
  /\ answer.kind = "step" /\ ~answer.cut.truncated =>
       Cardinality(Lines(answer.cut.excerpt, "step")) = Cardinality(Lines(answer.log, "step"))
  /\ /\ answer.kind = "failed" /\ ~answer.cut.truncated
     /\ answer.lines > Lead /\ Lines(answer.log, "error") # {}
     => Lines(answer.cut.excerpt, "error") # {}
=============================================================================
