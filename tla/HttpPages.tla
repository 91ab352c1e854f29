------------------------------ MODULE HttpPages ------------------------------
(***************************************************************************)
(* What the callbacks of the HTTP server answer, except for /get_task: the *)
(* pages about jobs, the static files and the welcome page.  An answer has *)
(* a status and, when it is about jobs, the JSON of those it shows.        *)
(*                                                                         *)
(* Callbacks see the jobs of the farm as records with an id, in the order  *)
(* of the numbers they are indexed by.  Ids are not sure to be unique.     *)
(***************************************************************************)
EXTENDS Integers, Sequences

OK          == "200"
Forbidden   == "403"
Missing     == "404"
ServerError == "500"

Answer(status, shown) == [status |-> status, shown |-> shown]
Refused(status) == Answer(status, {})

Methods == {"GET", "HEAD", "PUT", "POST"}

\* What stat and g_mapped_file_new find under the path of a file.
Files == {"readable", "unmappable", "directory", "EPERM", "ENOENT", "EIO"}

-----------------------------------------------------------------------------
(* /jobs *)

\* Job::serialize_json: the members that are not constants, and the status,
\* which is one.  The name of a job is left out.
JobJson(job) ==
    [id |-> job.id, priority |-> job.priority, status |-> "waiting"]

\* Farm::job_by_id: the first job with this id, if there is one.
JobById(jobs, id) ==
    {jobs[i] : i \in {i \in DOMAIN jobs :
                         /\ jobs[i].id = id
                         /\ \A j \in DOMAIN jobs : j < i => jobs[j].id # id}}

\* Each job is assigned to the entry of its id: the last one stays there.
JobsList(jobs) ==
    Answer(OK, {JobJson(jobs[i]) : i \in
                  {i \in DOMAIN jobs : \A j \in DOMAIN jobs :
                                          j > i => jobs[j].id # jobs[i].id}})

\* The id is what atoi makes of the rest of the path, 0 of what is no number.
JobDetails(jobs, id) ==
    IF JobById(jobs, id) = {}
    THEN Refused(Missing)
    ELSE Answer(OK, {JobJson(job) : job \in JobById(jobs, id)})

\* URIQuery: the pairs of a body, of which a later one replaces an earlier one
\* of its key; a key that is not there has the empty value.
QueryValue(pairs, key) ==
    LET found == {i \in DOMAIN pairs : pairs[i][1] = key}
    IN  IF found = {}
        THEN ""
        ELSE pairs[CHOOSE i \in found : \A j \in found : j <= i][2]

\* A command is accepted, whatever job it names, and has no effect; "rese6" is
\* what the code says.
JobCommand(pairs) ==
    IF QueryValue(pairs, "command") \in {"start", "stop", "rese6", "archive"}
    THEN Answer(OK, {})
    ELSE Refused(Forbidden)

JobsCallback(method, isList, id, pairs, jobs) ==
    CASE method = "GET" /\ isList -> JobsList(jobs)
      [] method = "GET" /\ ~isList -> JobDetails(jobs, id)
      [] method = "PUT" -> JobCommand(pairs)
      [] OTHER -> Refused(Forbidden)

JobsDeleteCallback == Refused(Forbidden)

-----------------------------------------------------------------------------
(* Files, and everything else. *)

PerformFileServe(method, file) ==
    CASE file \in {"EPERM", "directory"} -> Refused(Forbidden)
      [] file = "ENOENT" -> Refused(Missing)
      [] file = "EIO" -> Refused(ServerError)
      [] file = "unmappable" /\ method = "GET" -> Refused(ServerError)
      [] OTHER -> Answer(OK, {})

StaticCallback(method, file) ==
    IF method \in {"GET", "HEAD"} THEN PerformFileServe(method, file)
                                  ELSE Refused(Forbidden)

WelcomeCallback(method, isRoot) ==
    CASE method = "GET" /\ ~isRoot -> Refused(Missing)
      [] method = "GET" /\ isRoot -> Answer(OK, {})
      [] OTHER -> Refused(Forbidden)

-----------------------------------------------------------------------------

\* The routes of start_serve that have nothing to do with jobs, and the one
\* for the deletion of jobs.
OtherAnswers ==
    {JobsDeleteCallback}
    \cup {StaticCallback(method, file) : method \in Methods, file \in Files}
    \cup {WelcomeCallback(method, isRoot) : method \in Methods, isRoot \in BOOLEAN}

\* What a request may be answered with, other than one for /get_task.  One that
\* gets a page of /jobs may name a job by one of ids, another one has a body.
Answers(jobs, ids, bodies) ==
    {JobsCallback("GET", isList, id, <<>>, jobs) : isList \in BOOLEAN, id \in ids}
    \cup {JobsCallback(method, FALSE, 0, pairs, jobs) :
             method \in Methods \ {"GET"}, pairs \in bodies}
    \cup OtherAnswers

=============================================================================
