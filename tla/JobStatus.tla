----------------------------- MODULE JobStatus -----------------------------
(***************************************************************************)
(* The life-cycle states of a row of the jobs table and the edges between  *)
(* them that platform/jobs/job.go allows.  Every status write of the       *)
(* backend goes through Repository.transition, which refuses an edge that  *)
(* CanTransition does not list.                                            *)
(***************************************************************************)

(* The job has no row yet: the API has not created it.                     *)
NotCreated == "none"

Status == {"queued", "processing", "completed", "failed", "dead_letter"}

JobState == Status \cup {NotCreated}

(* Mutant: a redelivered request may take up a job that is processing.     *)
validTransitionsResume ==
  { <<"queued", "processing">>,  <<"queued", "dead_letter">>,
    <<"processing", "processing">>,
    <<"processing", "completed">>, <<"processing", "failed">>,
    <<"processing", "dead_letter">>,
    <<"failed", "processing">>,  <<"failed", "dead_letter">> }

validTransitions ==
  { <<"queued", "processing">>,  <<"queued", "dead_letter">>,
    <<"processing", "completed">>, <<"processing", "failed">>,
    <<"processing", "dead_letter">>,
    <<"failed", "processing">>,  <<"failed", "dead_letter">> }

CanTransition(from, to) == <<from, to>> \in validTransitions

Terminal == {"completed", "dead_letter"}

(* The statuses of a job that somebody still has to drive to an end.       *)
Unfinished == Status \ Terminal
=============================================================================
