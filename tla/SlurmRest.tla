------------------------------ MODULE SlurmRest ------------------------------
(***************************************************************************)
(* What the manager concludes from slurmrestd's answers: the response      *)
(* handling of SlurmRestClient (slurm_manager/slurm_rest_client.py) and    *)
(* the decoding of job records in _job_exit_code and _check_slurm_job      *)
(* (slurm_manager/slurm_manager.py).  The job runs, ends and is purged     *)
(* from the controller while it is asked about, first at the controller    *)
(* and then, if that knows nothing, at the accounting service.             *)
(*                                                                         *)
(* slurmrestd is external: it reports the truth in any of the forms its    *)
(* API versions use, incompletely, or not at all.  Names differ from those *)
(* of SlurmManager, so that a module may extend both.                      *)
(***************************************************************************)
EXTENDS Integers, Sequences

Live == {"PENDING", "RUNNING"}
Ends == {"COMPLETED", "FAILED", "CANCELLED", "TIMEOUT"}

\* How a process ended: by exit or by a signal.
Exits == {"zero", "nonzero", "signal"}

VARIABLES
  truth,       \* external: the job's state in Slurm
  exit,        \* external: how its batch script ended
  purged,      \* external: the controller has forgotten the job
  killed,      \* external: Slurm has carried out a cancellation
  asking,      \* progress of _check_slurm_job: idle, controller, accounting
  reply,       \* the last answer
  conclusion,  \* what the last check concluded
  accepted     \* the last cancel() returned normally

checkVars == <<truth, exit, purged, killed, asking, reply, conclusion, accepted>>

-----------------------------------------------------------------------------
(* Answers (external).  An HTTP status, and a body: nothing, something that  *)
(* is no JSON object, or an object with errors and job records.              *)

\* A number of the v0.0.44 schema: plain, or with a flag saying that it is set.
\* An exit status has a return code and a signal; an unset number reads zero.
Codes == {[form |-> "absent"]}
           \cup [form : {"number"}, code : {"zero", "nonzero"}]
           \cup [form : {"status"}, code : {"zero", "nonzero", "unset", "absent"},
                 signal : {"none", "sent", "unset", "absent"}]

\* Exit statuses that may be reported of a process that ended with e.
Reported(e) ==
  {c \in Codes :
     \/ c.form = "absent"
     \/ c.form = "number" /\ (c.code = "zero" <=> e = "zero")
     \/ c.form = "status" /\ \/ c.signal = "sent" /\ e = "signal"
                             \/ c.signal # "sent" /\ c.code \in {"unset", "absent"}
                             \/ c.signal # "sent" /\ c.code = e}

\* Base state and flags, as one name, a list, or a list under "current".
StateForms(s) ==
  [form : {"name"}, names : {<<s>>}]
    \cup [form : {"list", "current"}, names : {<<s>>, <<s, "COMPLETING">>, <<"REQUEUED", s>>}]
    \cup [form : {"absent"}, names : {<<>>}]

Records == [state : StateForms(truth), exit_code : Reported(exit)]

Body(errors, jobs) == [kind |-> "object", errors |-> errors, jobs |-> jobs]
NoBody    == [kind |-> "empty"]
Garbled   == [kind |-> "garbled"]
Malformed == [kind |-> "malformed"]   \* an object whose job records are no objects

\* slurmrestd answers a question about the job.
Answers(known) ==
  [http : {200}, body : {Body(<<>>, <<r>>) : r \in IF known THEN Records ELSE {}}]
    \cup [http : {200, 400, 500}, body : {Body(<<2017>>, <<>>) : k \in IF known THEN {} ELSE {1}}]
    \cup [http : {404}, body : IF known THEN {} ELSE {NoBody}]
    \cup [http : {200, 400, 500}, body : {Body(<<2017, 1>>, <<>>), Body(<<1>>, <<>>)}]
    \cup [http : {0, 401, 500}, body : {NoBody}]
    \cup [http : {200}, body : {Body(<<>>, <<>>), NoBody, Garbled, Malformed}]

-----------------------------------------------------------------------------
(* SlurmRestClient. *)

Raised  == [kind |-> "raised"]
NoRecords == [kind |-> "object", errors |-> <<>>, jobs |-> <<>>]

\* Fault: one unknown-job error among others is enough.
AnyMissingJob(body) == body.kind = "object" /\ \E k \in DOMAIN body.errors : body.errors[k] = 2017

\* _missing_job: errors are reported, and all of them mean an unknown job.
MissingJob(body) ==
  /\ body.kind = "object" /\ body.errors # <<>>
  /\ \A k \in DOMAIN body.errors : body.errors[k] = 2017

\* request(): 0 stands for a connection that fails or times out.
Request(a, missing_ok) ==
  LET missing == \/ a.http = 404
                 \/ a.http \in {200, 400, 500} /\ MissingJob(a.body)
      failed  == \/ a.http # 200
                 \/ a.body.kind = "garbled"
                 \/ a.body.kind = "object" /\ a.body.errors # <<>>
  IN  CASE missing_ok /\ missing -> NoRecords
        [] ~(missing_ok /\ missing) /\ failed -> Raised
        [] OTHER -> IF a.body.kind = "empty" THEN NoRecords ELSE a.body

\* get_job(): the records of the answer (the first is used), or the exception.
GetJob(a) ==
  LET result == Request(a, TRUE) IN IF result.kind = "malformed" THEN Raised ELSE result

-----------------------------------------------------------------------------
(* _check_slurm_job. *)

\* Fault: an unset return code counts as the number it carries.
ExitCodeIgnoresSet(c) ==
  CASE c.form = "absent" -> "none"
    [] c.form = "number" -> c.code
    [] OTHER -> IF c.signal = "sent" THEN "signal"
                ELSE IF c.code = "nonzero" THEN "nonzero" ELSE "zero"

\* Fault: a structured status of v0.0.44 is taken for no code at all.
ExitCodeStructuredUnread(c) == IF c.form = "number" THEN c.code ELSE "none"

\* _job_exit_code: a signal counts before the return code, unset is no code.
ExitCode(c) ==
  CASE c.form = "absent" -> "none"
    [] c.form = "number" -> c.code
    [] OTHER -> IF c.signal = "sent" THEN "signal"
                ELSE IF c.code \in {"unset", "absent"} THEN "none" ELSE c.code

TerminalStates ==
  {"COMPLETED", "CANCELLED", "FAILED", "TIMEOUT", "OUT_OF_MEMORY", "NODE_FAIL", "BOOT_FAIL",
   "DEADLINE", "PREEMPTED", "REVOKED"}

\* The first terminal name of a record decides; COMPLETED without a code is no proof.
Resolve(r) ==
  LET names == r.state.names
      ended == {k \in DOMAIN names : names[k] \in TerminalStates}
      first == CHOOSE k \in ended : \A m \in ended : k <= m
      code  == ExitCode(r.exit_code)
  IN  IF ended = {} THEN "unresolved"
      ELSE CASE names[first] = "CANCELLED" -> "cancelled"
             [] names[first] = "COMPLETED" /\ code = "zero" -> "finished"
             [] names[first] = "COMPLETED" /\ code = "none" -> "unresolved"
             [] OTHER -> "error"

RestInit ==
  /\ truth = "PENDING" /\ exit = "zero" /\ purged = FALSE /\ killed = FALSE
  /\ asking = "idle" /\ reply = [http |-> 0, body |-> NoBody]
  /\ conclusion = "unresolved" /\ accepted = FALSE

Begin ==
  /\ asking = "idle"
  /\ asking' = "controller"
  /\ conclusion' = "unresolved"
  /\ UNCHANGED <<truth, exit, purged, killed, reply, accepted>>

\* An answer is handled: an exception ends the check, a record is resolved, and
\* no record sends the question on to the accounting service.
Handle(a, next) ==
  LET result == GetJob(a)
  IN  /\ reply' = a
      /\ IF result = Raised THEN conclusion' = "unresolved" /\ asking' = "idle"
         ELSE IF result.jobs = <<>> THEN conclusion' = "unresolved" /\ asking' = next
         ELSE conclusion' = Resolve(result.jobs[1]) /\ asking' = "idle"
      /\ UNCHANGED <<truth, exit, purged, killed, accepted>>

AskController ==
  /\ asking = "controller"
  /\ \E a \in Answers(~purged) : Handle(a, "accounting")

AskAccounting ==
  /\ asking = "accounting"
  /\ \E a \in Answers(TRUE) \cup Answers(FALSE) : Handle(a, "idle")

\* Answers to a request for cancellation: it was carried out, nobody knows, it was not.
CarriedOut == [http : {200}, body : {NoBody, Body(<<>>, <<>>)}]
Unanswered == [http : {0}, body : {NoBody}]
Refused    == [http : {400, 401, 500}, body : {NoBody}]
                \cup [http : {200, 500}, body : {Body(<<2017>>, <<>>), Body(<<1>>, <<>>)}]

\* cancel(): slurmrestd carries it out and says so, carries it out and the answer
\* is lost, or does not carry it out and reports errors.  release() is the same.
Cancel ==
  /\ asking = "idle"
  /\ \E a \in CarriedOut \cup Unanswered \cup Refused :
       /\ reply' = a
       /\ killed' \in IF a \in CarriedOut THEN {TRUE}
                     ELSE IF a \in Unanswered THEN {killed, TRUE} ELSE {killed}
       /\ accepted' = (Request(a, FALSE) # Raised)
  /\ UNCHANGED <<truth, exit, purged, asking, conclusion>>

-----------------------------------------------------------------------------
(* Slurm (external). *)

JobStarts ==
  /\ truth = "PENDING" /\ truth' = "RUNNING"
  /\ UNCHANGED <<exit, purged, killed, asking, reply, conclusion, accepted>>

JobEnds ==
  /\ truth \in Live
  /\ truth' \in Ends /\ exit' \in Exits
  /\ truth' = "COMPLETED" => exit' # "signal"
  /\ UNCHANGED <<purged, killed, asking, reply, conclusion, accepted>>

JobPurged ==
  /\ truth \in Ends /\ ~purged
  /\ purged' = TRUE
  /\ UNCHANGED <<truth, exit, killed, asking, reply, conclusion, accepted>>

RestNext ==
  Begin \/ AskController \/ AskAccounting \/ Cancel \/ JobStarts \/ JobEnds \/ JobPurged

RestSpec == RestInit /\ [][RestNext]_checkVars

-----------------------------------------------------------------------------
(* Properties. *)

\* No answer, however partial, makes the manager resolve a job wrongly: success
\* only of a job that completed with code zero, cancellation only of a cancelled
\* one, failure only of one that ended otherwise; and errors, unknown jobs and
\* records of a live job resolve nothing.  Nor does it take a cancellation for
\* carried out that Slurm refused inside a 200 answer, or of a job it does not know.
VerdictIsTrue ==
  /\ conclusion = "finished" => truth = "COMPLETED" /\ exit = "zero"
  /\ conclusion = "cancelled" => truth = "CANCELLED"
  /\ conclusion = "error" => truth \in Ends /\ ~(truth = "COMPLETED" /\ exit = "zero")
  /\ accepted => killed

\* The accounting service is asked only when the controller says that it does not
\* know the job: a failing controller must not be taken for one that forgot.
AccountingIsFallback ==
  [][(asking = "controller" /\ asking' = "accounting")
       => (reply' \in [http : {200}, body : {NoBody, Body(<<>>, <<>>)}] \/ purged)]_checkVars

\* What an exit status says: a plain number always, a structured one if it has a signal
\* or a return code that is set.
CarriesCode(c) ==
  \/ c.form = "number"
  \/ c.form = "status" /\ (c.signal = "sent" \/ c.code \in {"zero", "nonzero"})

\* A record that tells how the job ended: a terminal state and, of a completed job, an
\* exit code.
IsComplete(r) == r.state.form # "absent" /\ (truth # "COMPLETED" \/ CarriesCode(r.exit_code))

\* Such a record settles the job in that very step, wherever the state is among the
\* names and whether the code is a plain number or the structured status of v0.0.44
\* that _job_exit_code decodes.
CompleteRecordResolves ==
  [][(asking # "idle" /\ asking' # asking /\ truth \in Ends /\ reply'.body.kind = "object")
       => \A k \in DOMAIN reply'.body.jobs :
            IsComplete(reply'.body.jobs[k]) => conclusion' # "unresolved"]_checkVars

=============================================================================
