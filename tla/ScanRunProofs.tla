--------------------------- MODULE ScanRunProofs ---------------------------
(***************************************************************************)
(* The safety of the runs of a scan's tools, for any scans, requests,      *)
(* registered scanners, pages of issues and numbers of retries and faults. *)
(***************************************************************************)
EXTENDS ScanRun, FiniteSetTheorems, WellFoundedInduction, TLAPS

RunTyped ==
  /\ request \in [Scans -> Request]
  /\ pc \in [Scans -> Phases]
  /\ step \in [Scans -> [Scanners -> Steps]]
  /\ outcome \in [Scans -> [Scanners -> {"none", "ok", "error"}]]
  /\ blamed \in [Scans -> SUBSET Scanners]
  /\ spaces \subseteq Scans \X (Scanners \cup {Shared})
  /\ job \in [Scans -> {"queued", "processing", "completed", "failed"}]
  /\ recorded \in [Scans -> SUBSET Scanners]

(***************************************************************************)
(* What a step of a scanner's goroutine or of a sidecar is: it goes on, it *)
(* comes to an outcome, or the goroutine ends.                             *)
(***************************************************************************)
(* A scanner in one of these has a workspace.                              *)
Working == Reading \cup {"cloning", "analysing", "fetching"}

Decided == {"finishing", "ended"}

Undecided(j, s) ==
  /\ step[j][s] \notin Decided
  /\ step[j][s] = "off" => s \in request[j].tools

Waits == UNCHANGED <<step, outcome, blamed, spaces>>

GoesOn(j, s) ==
  \E x \in Steps \ ({"off"} \cup Decided) :
    /\ Undecided(j, s)
    /\ Go(j, s, x)
    /\ UNCHANGED <<outcome, blamed>>
    /\ \/ x \in Working /\ step[j][s] \in Working /\ UNCHANGED spaces
       \/ x \notin Working /\ step[j][s] \notin Working /\ UNCHANGED spaces
       \/ x = "asked" /\ request[j].source = "upload" /\ UNCHANGED spaces
       \/ x = "cloning" /\ request[j].source # "upload" /\ spaces' = spaces \cup {<<j, s>>}

Decides(j, s) ==
  /\ Undecided(j, s)
  /\ Succeed(j, s) \/ Fail(j, s)
  /\ \/ Cleanup(j, s)
     \/ step[j][s] \notin Working /\ UNCHANGED spaces

GoroutineEnds(j, s) ==
  /\ step[j][s] = "finishing" /\ Go(j, s, "ended")
  /\ UNCHANGED <<outcome, blamed, spaces>>

ScannerStep(j) ==
  /\ pc[j] = "running"
  /\ UNCHANGED <<request, pc, jobVars>>
  /\ Waits \/ \E s \in Scanners : GoesOn(j, s) \/ Decides(j, s) \/ GoroutineEnds(j, s)

LEMMA AnswersDiffer ==
  /\ Answers \subseteq Working /\ Answers \cap Decided = {} /\ "off" \notin Answers
  /\ {"asked", "cloning", "analysing", "fetching"} \subseteq Working
  /\ Working \cap (Decided \cup {"off", "spider", "ascan", "alerts"}) = {}
  /\ Working \subseteq Steps /\ {"spider", "ascan", "alerts"} \subseteq Steps
BY DEF Answers, Reading, Working, Decided, Steps

LEMMA StartKind ==
  ASSUME NEW j \in Scans, NEW s \in Scanners, StartScanner(j, s)
  PROVE  ScannerStep(j)
<1>1. /\ pc[j] = "running" /\ step[j][s] = "off" /\ s \in request[j].tools
      /\ UNCHANGED <<request, pc, jobVars>>
  BY DEF StartScanner, At
<1>2. Undecided(j, s) BY <1>1 DEF Undecided, Decided
<1>3. CASE Unusable(j, s)
  <2>1. Fail(j, s) /\ UNCHANGED spaces BY <1>3 DEF StartScanner
  <2> QED BY <1>1, <1>2, <2>1, AnswersDiffer DEF ScannerStep, Decides
<1>4. CASE ~Unusable(j, s)
  <2>1. /\ Go(j, s, Begin(j, s)) /\ UNCHANGED <<outcome, blamed>>
        /\ spaces' = spaces \cup IF Begin(j, s) = "cloning" THEN {<<j, s>>} ELSE {}
    BY <1>4 DEF StartScanner
  <2>2. GoesOn(j, s)
    <3>1. CASE request[j].source = "upload"
      <4>1. Begin(j, s) = "asked" BY <3>1 DEF Begin
      <4> QED BY <1>2, <2>1, <3>1, <4>1, AnswersDiffer DEF GoesOn, Decided
    <3>2. CASE request[j].source # "upload" /\ s = "zap"
      <4>1. Begin(j, s) = "spider" BY <3>2 DEF Begin
      <4> QED BY <1>1, <1>2, <2>1, <4>1, AnswersDiffer DEF GoesOn, Decided
    <3>3. CASE request[j].source # "upload" /\ s # "zap"
      <4>1. Begin(j, s) = "cloning" BY <3>3 DEF Begin
      <4> QED BY <1>2, <2>1, <3>3, <4>1, AnswersDiffer DEF GoesOn, Decided
    <3> QED BY <3>1, <3>2, <3>3
  <2> QED BY <1>1, <2>2 DEF ScannerStep
<1> QED BY <1>3, <1>4

(* Whoever works goes on working, or decides and cleans up.                *)
LEMMA WorkKind ==
  ASSUME NEW j \in Scans, NEW s \in Scanners, pc[j] = "running", step[j][s] \in Working,
         UNCHANGED <<request, pc, jobVars>>,
         \/ UNCHANGED <<step, outcome, blamed, spaces>>
         \/ \E x \in Working : Go(j, s, x) /\ UNCHANGED <<outcome, blamed, spaces>>
         \/ (Succeed(j, s) \/ Fail(j, s)) /\ Cleanup(j, s)
  PROVE  ScannerStep(j)
<1>1. Undecided(j, s) BY AnswersDiffer DEF Undecided
<1>2. ASSUME NEW x \in Working, Go(j, s, x), UNCHANGED <<outcome, blamed, spaces>>
      PROVE  GoesOn(j, s)
  BY <1>1, <1>2, AnswersDiffer DEF GoesOn
<1> QED BY <1>1, <1>2 DEF ScannerStep, Decides, Waits

LEMMA ExecuteKind ==
  ASSUME NEW j \in Scans, NEW s \in Scanners, NEW understood, Execute(j, s, understood)
  PROVE  ScannerStep(j)
<1>1. CASE CloneShallow(j, s)
  <2>1. /\ pc[j] = "running" /\ step[j][s] \in Working /\ UNCHANGED <<request, pc, jobVars>>
    BY <1>1, AnswersDiffer DEF CloneShallow, At
  <2>2. \/ Go(j, s, "asked") /\ UNCHANGED <<outcome, blamed, spaces>>
        \/ Fail(j, s) /\ Cleanup(j, s)
    BY <1>1 DEF CloneShallow
  <2> QED BY <2>1, <2>2, AnswersDiffer, WorkKind
<1>2. CASE ScanTimesOut(j, s)
  BY <1>2, AnswersDiffer, WorkKind DEF ScanTimesOut, At
<1>3. CASE ScanRemote(j, s, understood)
  <2>1. /\ pc[j] = "running" /\ step[j][s] \in Working /\ UNCHANGED <<request, pc, jobVars>>
    BY <1>3, AnswersDiffer DEF ScanRemote
  <2>2. (Succeed(j, s) \/ Fail(j, s)) /\ Cleanup(j, s)
    BY <1>3 DEF ScanRemote
  <2> QED BY <2>1, <2>2, WorkKind
<1> QED BY <1>1, <1>2, <1>3 DEF Execute

LEMMA SonarKind ==
  ASSUME NEW j \in Scans, WaitForAnalysis(j) \/ AnalysisTimesOut(j) \/ FetchIssues(j)
  PROVE  ScannerStep(j)
<1> DEFINE s == "sonarqube"
<1>1. /\ pc[j] = "running" /\ step[j][s] \in Working /\ UNCHANGED <<request, pc, jobVars>>
  BY AnswersDiffer DEF WaitForAnalysis, AnalysisTimesOut, FetchIssues, At
<1>2. \/ UNCHANGED <<step, outcome, blamed, spaces>>
      \/ Go(j, s, "fetching") /\ UNCHANGED <<outcome, blamed, spaces>>
      \/ (Succeed(j, s) \/ Fail(j, s)) /\ Cleanup(j, s)
  BY DEF WaitForAnalysis, AnalysisTimesOut, FetchIssues
<1>3. s \in Scanners BY DEF Scanners
<1> HIDE DEF s
<1> QED BY <1>1, <1>2, <1>3, AnswersDiffer, WorkKind

LEMMA ZapKind ==
  ASSUME RunTyped, NEW j \in Scans, ZapScanner(j)
  PROVE  ScannerStep(j)
<1> DEFINE s == "zap"
<1>0. s \in Scanners BY DEF Scanners
<1>1. /\ pc[j] = "running" /\ step[j][s] \in {"spider", "ascan", "alerts"}
      /\ UNCHANGED <<request, pc, jobVars, spaces>>
  BY DEF ZapScanner, ExecuteWithProgress, RunModule, FetchAlerts, At
<1>2. \/ UNCHANGED <<step, outcome, blamed>>
      \/ \E x \in {"ascan", "alerts"} : Go(j, s, x) /\ UNCHANGED <<outcome, blamed>>
      \/ Succeed(j, s) \/ Fail(j, s)
  <2>1. CASE RunModule(j, "spider", "ascan") BY <2>1 DEF RunModule
  <2>2. CASE RunModule(j, "ascan", "alerts") BY <2>2 DEF RunModule
  <2>3. CASE FetchAlerts(j) BY <2>3 DEF FetchAlerts
  <2> QED BY <2>1, <2>2, <2>3 DEF ZapScanner, ExecuteWithProgress
<1>3. Undecided(j, s) BY <1>1 DEF Undecided, Decided
<1> HIDE DEF s
<1>4. ASSUME NEW x \in {"ascan", "alerts"}, Go(j, s, x), UNCHANGED <<outcome, blamed>>
      PROVE  GoesOn(j, s)
  BY <1>1, <1>3, <1>4, AnswersDiffer DEF GoesOn, Decided
<1>5. ASSUME Succeed(j, s) \/ Fail(j, s) PROVE Decides(j, s)
  BY <1>1, <1>3, <1>5, AnswersDiffer DEF Decides
<1> QED BY <1>0, <1>1, <1>2, <1>4, <1>5 DEF ScannerStep, Waits

(* The steps of the goroutines and of the sidecars are of that kind.       *)
LEMMA ScannerKinds ==
  ASSUME RunTyped, NEW j \in Scans, RunScanner(j) \/ Sidecar(j)
  PROVE  ScannerStep(j)
<1>1. ASSUME NEW s \in Scanners, MarkScannerFinished(j, s) PROVE ScannerStep(j)
  BY <1>1 DEF MarkScannerFinished, At, ScannerStep, GoroutineEnds
<1>2. {"trivy", "gitleaks", "semgrep", "syft", "sonarqube", "zap"} = Scanners
  BY DEF Scanners
<1>3. CASE TrivyScanner(j) \/ GitleaksScanner(j) \/ SemgrepScanner(j) \/ SyftScanner(j)
  BY <1>2, <1>3, ExecuteKind DEF TrivyScanner, GitleaksScanner, SemgrepScanner, SyftScanner
<1>4. CASE SonarScanner(j)
  BY <1>2, <1>4, ExecuteKind, SonarKind DEF SonarScanner
<1>5. ASSUME NEW s \in Scanners, ToolAnswers(j, s) PROVE ScannerStep(j)
  <2>1. /\ pc[j] = "running" /\ step[j][s] \in Working /\ UNCHANGED <<request, pc, jobVars>>
    BY <1>5, AnswersDiffer DEF ToolAnswers, At
  <2>2. \E x \in Working : Go(j, s, x) /\ UNCHANGED <<outcome, blamed, spaces>>
    BY <1>5, AnswersDiffer DEF ToolAnswers
  <2> QED BY <2>1, <2>2, WorkKind
<1>6. CASE SonarSidecar(j)
  <2>1. /\ pc[j] = "running" /\ step[j]["sonarqube"] \in Working
        /\ UNCHANGED <<request, pc, jobVars>>
    BY <1>6, AnswersDiffer DEF SonarSidecar, At
  <2>2. \E x \in {"analysing", "refused"} :
          Go(j, "sonarqube", x) /\ UNCHANGED <<outcome, blamed, spaces>>
    BY <1>6 DEF SonarSidecar
  <2>3. {"analysing", "refused"} \subseteq Working
    BY DEF Working, Reading, Answers
  <2> QED BY <1>2, <2>1, <2>2, <2>3, WorkKind
<1> QED BY <1>1, <1>2, <1>3, <1>4, <1>5, <1>6, StartKind, ZapKind
       DEF RunScanner, Sidecar, TrivySidecar, GitleaksSidecar, SemgrepSidecar, SyftSidecar

JobStep(j) ==
  \/ MarkProcessing(j) \/ LoadProject(j) \/ Gather(j) \/ RecordOutcome(j)
  \/ Return(j) \/ Retry(j) \/ Crash(j)

(* A step is of a scanner, of a job, or of no concern to either.           *)
LEMMA StepKinds ==
  ASSUME RunTyped, [Next]_vars
  PROVE  \/ \E j \in Scans : ScannerStep(j) \/ JobStep(j)
         \/ UNCHANGED <<request, pc, step, outcome, blamed, spaces, job, recorded>>
<1>1. ASSUME NEW j \in Scans,
             RunScanner(j) \/ Sidecar(j) \/ ProcessScanJob(j) \/ Retry(j) \/ Crash(j)
      PROVE  ScannerStep(j) \/ JobStep(j)
  BY <1>1, ScannerKinds DEF ProcessScanJob, JobStep
<1>2. CASE ProcessTask BY <1>2 DEF ProcessTask, jobVars
<1> QED BY <1>1, <1>2 DEF Next, vars, jobVars

LEMMA TypeStep ==
  ASSUME RunTyped, [Next]_vars
  PROVE  RunTyped'
<1> USE DEF RunTyped
<1>1. ASSUME NEW j \in Scans, ScannerStep(j) PROVE RunTyped'
  <2>1. UNCHANGED <<request, pc, job, recorded>>
    BY <1>1 DEF ScannerStep, jobVars
  <2>2. CASE Waits BY <2>1, <2>2 DEF Waits
  <2>3. ASSUME NEW s \in Scanners, GoesOn(j, s) PROVE RunTyped'
    BY <2>1, <2>3 DEF GoesOn, Go
  <2>4. ASSUME NEW s \in Scanners, Decides(j, s) PROVE RunTyped'
    <3>1. "finishing" \in Steps BY DEF Steps
    <3>2. /\ step' \in [Scans -> [Scanners -> Steps]]
          /\ outcome' \in [Scans -> [Scanners -> {"none", "ok", "error"}]]
          /\ blamed' \in [Scans -> SUBSET Scanners]
      <4>1. CASE Succeed(j, s) BY <3>1, <4>1 DEF Succeed, Go
      <4>2. CASE Fail(j, s) BY <3>1, <4>2 DEF Fail, Go
      <4> QED BY <2>4, <4>1, <4>2 DEF Decides
    <3>3. spaces' \subseteq spaces BY <2>4 DEF Decides, Cleanup
    <3> QED BY <2>1, <3>2, <3>3
  <2>5. ASSUME NEW s \in Scanners, GoroutineEnds(j, s) PROVE RunTyped'
    <3>1. "ended" \in Steps BY DEF Steps
    <3> QED BY <2>1, <2>5, <3>1 DEF GoroutineEnds, Go
  <2> QED BY <1>1, <2>2, <2>3, <2>4, <2>5 DEF ScannerStep
<1>2. ASSUME NEW j \in Scans, MarkProcessing(j) PROVE RunTyped'
  BY <1>2 DEF MarkProcessing, Phases, Steps
<1>3. ASSUME NEW j \in Scans, LoadProject(j) PROVE RunTyped'
  <2>1. UNCHANGED <<request, step, job, recorded>>
    BY <1>3 DEF LoadProject, ExtractZip, FailAllScanners, jobVars
  <2>2. pc' \in [Scans -> Phases]
    BY <1>3 DEF LoadProject, ExtractZip, FailAllScanners, Phases
  <2>3. spaces' \subseteq Scans \X (Scanners \cup {Shared})
    BY <1>3 DEF LoadProject, ExtractZip, FailAllScanners
  <2>4. /\ outcome' \in [Scans -> [Scanners -> {"none", "ok", "error"}]]
        /\ blamed' \in [Scans -> SUBSET Scanners]
    <3>1. CASE UNCHANGED <<outcome, blamed>> BY <3>1
    <3>2. CASE FailAllScanners(j)
      <4>1. request[j].tools \subseteq Scanners BY DEF Request
      <4> QED BY <3>2, <4>1 DEF FailAllScanners
    <3> QED BY <1>3, <3>1, <3>2 DEF LoadProject, ExtractZip
  <2> QED BY <2>1, <2>2, <2>3, <2>4
<1>4. ASSUME NEW j \in Scans, Gather(j) PROVE RunTyped'
  BY <1>4 DEF Gather, Phases, jobVars
<1>5. ASSUME NEW j \in Scans, RecordOutcome(j) PROVE RunTyped'
  <2>1. Succeeded(j) \subseteq Scanners BY DEF Succeeded, Request
  <2> QED BY <1>5, <2>1 DEF RecordOutcome, Phases
<1>6. ASSUME NEW j \in Scans, Return(j) PROVE RunTyped'
  BY <1>6 DEF Return, Phases, jobVars
<1>7. ASSUME NEW j \in Scans, Retry(j) \/ Crash(j) PROVE RunTyped'
  BY <1>7 DEF Retry, Crash, Phases, jobVars
<1>8. CASE UNCHANGED <<request, pc, step, outcome, blamed, spaces, job, recorded>>
  BY <1>8
<1> QED BY <1>1, <1>2, <1>3, <1>4, <1>5, <1>6, <1>7, <1>8, StepKinds DEF JobStep

(***************************************************************************)
(* What becomes of a scanner and of its job                                *)
(***************************************************************************)
Fates(j) ==
  /\ blamed[j] = {s \in Scanners : outcome[j][s] = "error"}
  /\ \A s \in Scanners : step[j][s] # "off" => s \in request[j].tools
  /\ \A s \in Scanners : outcome[j][s] # "none" => s \in request[j].tools
  /\ pc[j] \in {"opening", "running"} =>
       \A s \in Scanners : (outcome[j][s] = "none") = (step[j][s] \notin Decided)
  /\ pc[j] = "recording" => \A s \in request[j].tools : outcome[j][s] # "none"
  /\ pc[j] = "waiting" => job[j] \in {"queued", "failed"}
  /\ pc[j] \in {"opening", "running", "recording"} => job[j] = "processing"
  /\ pc[j] \in {"returning", "done"} /\ job[j] = "failed" => request[j].tools = blamed[j]
  /\ job[j] = "completed" => /\ pc[j] \in {"returning", "done", "crashed"}
                             /\ recorded[j] = request[j].tools \ blamed[j]

FateInv == RunTyped /\ \A j \in Scans : Fates(j)

(* A job none of whose variables change keeps its fate.                    *)
LEMMA OtherFates ==
  ASSUME NEW k \in Scans, Fates(k), request'[k] = request[k], pc'[k] = pc[k],
         step'[k] = step[k], outcome'[k] = outcome[k], blamed'[k] = blamed[k],
         job'[k] = job[k], recorded'[k] = recorded[k]
  PROVE  Fates(k)'
BY DEF Fates

LEMMA ScannerFates ==
  ASSUME FateInv, NEW j \in Scans, ScannerStep(j)
  PROVE  \A k \in Scans : Fates(k)'
<1> USE DEF FateInv, RunTyped
<1>0. UNCHANGED <<request, pc, job, recorded>> /\ pc[j] = "running" /\ job[j] = "processing"
  BY DEF ScannerStep, jobVars, Fates
<1>1. CASE Waits BY <1>0, <1>1, OtherFates DEF Waits
<1>2. ASSUME NEW s \in Scanners, NEW x \in Steps \ {"off"}, Go(j, s, x),
             step[j][s] = "off" => s \in request[j].tools,
             (x \in Decided) = (step[j][s] \in Decided), UNCHANGED <<outcome, blamed>>
      PROVE  \A k \in Scans : Fates(k)'
  <2>1. \A k \in Scans \ {j} : step'[k] = step[k]
    BY <1>2 DEF Go
  <2>2. step'[j] = [step[j] EXCEPT ![s] = x]
    BY <1>2 DEF Go
  <2>3. Fates(j)' BY <1>0, <1>2, <2>2 DEF Fates
  <2> QED BY <1>0, <1>2, <2>1, <2>3, OtherFates
<1>3. ASSUME NEW s \in Scanners, GoesOn(j, s) PROVE \A k \in Scans : Fates(k)'
  <2>1. PICK x \in Steps \ ({"off"} \cup Decided) :
          Undecided(j, s) /\ Go(j, s, x) /\ UNCHANGED <<outcome, blamed>>
    BY <1>3, Zenon DEF GoesOn
  <2>2. x \in Steps \ {"off"} /\ (x \in Decided) = (step[j][s] \in Decided)
    BY <2>1 DEF Undecided
  <2>3. step[j][s] = "off" => s \in request[j].tools
    BY <2>1 DEF Undecided
  <2> QED BY <1>2, <2>1, <2>2, <2>3
<1>4. ASSUME NEW s \in Scanners, GoroutineEnds(j, s) PROVE \A k \in Scans : Fates(k)'
  <2>1. step[j][s] = "finishing" /\ Go(j, s, "ended") /\ UNCHANGED <<outcome, blamed>>
    BY <1>4 DEF GoroutineEnds
  <2>2. "ended" \in Steps \ {"off"} /\ ("ended" \in Decided) = (step[j][s] \in Decided)
    BY <2>1 DEF Decided, Steps
  <2> QED BY <1>2, <2>1, <2>2
<1>5. ASSUME NEW s \in Scanners, Decides(j, s) PROVE \A k \in Scans : Fates(k)'
  <2>1. PICK o \in {"ok", "error"} :
          /\ Go(j, s, "finishing")
          /\ outcome' = [outcome EXCEPT ![j][s] = o]
          /\ o = "ok" => UNCHANGED blamed
          /\ o = "error" => blamed' = [blamed EXCEPT ![j] = @ \cup {s}]
    BY <1>5, Zenon DEF Decides, Succeed, Fail
  <2>2. \A k \in Scans \ {j} :
          step'[k] = step[k] /\ outcome'[k] = outcome[k] /\ blamed'[k] = blamed[k]
    BY <2>1 DEF Go
  <2>3. /\ step'[j] = [step[j] EXCEPT ![s] = "finishing"]
        /\ outcome'[j] = [outcome[j] EXCEPT ![s] = o]
        /\ blamed'[j] = IF o = "error" THEN blamed[j] \cup {s} ELSE blamed[j]
    BY <2>1 DEF Go
  <2>4. /\ step[j][s] # "off" => s \in request[j].tools
        /\ step[j][s] = "off" => s \in request[j].tools
        /\ outcome[j][s] = "none"
    BY <1>0, <1>5 DEF Decides, Undecided, Fates
  <2>5. Fates(j)'
    BY <1>0, <2>3, <2>4 DEF Fates, Decided
  <2> QED BY <1>0, <2>2, <2>5, OtherFates
<1> QED BY <1>1, <1>3, <1>4, <1>5 DEF ScannerStep

LEMMA JobFates ==
  ASSUME FateInv, NEW j \in Scans, JobStep(j)
  PROVE  \A k \in Scans : Fates(k)'
<1> USE DEF FateInv, RunTyped
<1>0. request' = request /\ request[j].tools \subseteq Scanners
  BY DEF JobStep, MarkProcessing, LoadProject, Gather, RecordOutcome, Return, Retry, Crash, Request
<1>1. ASSUME NEW k \in Scans \ {j} PROVE Fates(k)'
  <2>1. /\ request'[k] = request[k] /\ pc'[k] = pc[k] /\ step'[k] = step[k]
        /\ outcome'[k] = outcome[k] /\ blamed'[k] = blamed[k] /\ job'[k] = job[k]
        /\ recorded'[k] = recorded[k]
    <3>1. CASE MarkProcessing(j) BY <3>1, <1>0 DEF MarkProcessing
    <3>2. CASE LoadProject(j)
      BY <3>2, <1>0 DEF LoadProject, ExtractZip, FailAllScanners, jobVars
    <3>3. CASE Gather(j) BY <3>3, <1>0 DEF Gather, jobVars
    <3>4. CASE RecordOutcome(j) BY <3>4, <1>0 DEF RecordOutcome
    <3>5. CASE Return(j) \/ Retry(j) \/ Crash(j)
      BY <3>5, <1>0 DEF Return, Retry, Crash, jobVars
    <3> QED BY <3>1, <3>2, <3>3, <3>4, <3>5 DEF JobStep
  <2> QED BY <2>1, OtherFates
<1>2. Fates(j)'
  <2>1. CASE MarkProcessing(j)
    <3>1. /\ pc'[j] = "opening" /\ job'[j] = "processing" /\ blamed'[j] = {}
          /\ step'[j] = [s \in Scanners |-> "off"]
          /\ outcome'[j] = [s \in Scanners |-> "none"]
      BY <2>1 DEF MarkProcessing
    <3> QED BY <1>0, <3>1 DEF Fates, Decided
  <2>2. CASE LoadProject(j)
    <3>1. pc[j] = "opening" /\ UNCHANGED <<step, job, recorded>>
      BY <2>2 DEF LoadProject, ExtractZip, FailAllScanners, jobVars
    <3>2. CASE pc' = [pc EXCEPT ![j] = "running"] /\ UNCHANGED <<outcome, blamed>>
      BY <1>0, <3>1, <3>2 DEF Fates
    <3>3. CASE FailAllScanners(j)
      <4>1. /\ pc'[j] = "recording" /\ blamed'[j] = request[j].tools
            /\ outcome'[j] = [s \in Scanners |->
                 IF s \in request[j].tools THEN "error" ELSE "none"]
        BY <3>3 DEF FailAllScanners
      <4> QED BY <1>0, <3>1, <4>1 DEF Fates
    <3> QED BY <2>2, <3>2, <3>3 DEF LoadProject, ExtractZip
  <2>3. CASE Gather(j)
    <3>1. /\ pc[j] = "running" /\ pc'[j] = "recording"
          /\ UNCHANGED <<step, outcome, blamed, job, recorded>>
          /\ \A s \in request[j].tools : step[j][s] = "ended"
      BY <2>3 DEF Gather, jobVars
    <3>2. \A s \in request[j].tools : outcome[j][s] # "none"
      BY <1>0, <3>1 DEF Fates, Decided
    <3> QED BY <1>0, <3>1, <3>2 DEF Fates
  <2>4. CASE RecordOutcome(j)
    <3>1. /\ pc[j] = "recording" /\ pc'[j] = "returning"
          /\ UNCHANGED <<step, outcome, blamed>>
      BY <2>4 DEF RecordOutcome
    <3>2. \A s \in request[j].tools : outcome[j][s] # "none"
      BY <3>1 DEF Fates
    <3>3. /\ Succeeded(j) = request[j].tools \ blamed[j]
          /\ blamed[j] \subseteq request[j].tools
      BY <1>0, <3>2 DEF Fates, Succeeded
    <3>4. \/ /\ job'[j] = IF Succeeded(j) = {} THEN "failed" ELSE "completed"
             /\ recorded'[j] = Succeeded(j)
          \/ job'[j] = job[j] /\ recorded'[j] = recorded[j]
      BY <2>4 DEF RecordOutcome
    <3>5. job[j] = "processing" BY <3>1 DEF Fates
    <3> QED BY <1>0, <3>1, <3>3, <3>4, <3>5 DEF Fates
  <2>5. CASE Return(j)
    BY <1>0, <2>5 DEF Return, Fates, jobVars
  <2>6. CASE Retry(j)
    BY <1>0, <2>6 DEF Retry, Fates
  <2>7. CASE Crash(j)
    BY <1>0, <2>7 DEF Crash, Fates, jobVars
  <2> QED BY <2>1, <2>2, <2>3, <2>4, <2>5, <2>6, <2>7 DEF JobStep
<1> QED BY <1>1, <1>2

LEMMA FatesInit == Init => FateInv
<1> SUFFICES ASSUME Init PROVE FateInv OBVIOUS
<1>1. request \in [Scans -> Request] BY ScanRunAssumption DEF Init
<1>2. RunTyped BY <1>1 DEF Init, RunTyped, Phases, Steps
<1> QED BY <1>2 DEF Init, FateInv, Fates, Decided

LEMMA FatesStep == FateInv /\ [Next]_vars => FateInv'
<1> SUFFICES ASSUME FateInv, [Next]_vars PROVE FateInv' OBVIOUS
<1>1. RunTyped' BY TypeStep DEF FateInv
<1>2. ASSUME UNCHANGED <<request, pc, step, outcome, blamed, spaces, job, recorded>>
      PROVE  \A k \in Scans : Fates(k)'
  BY <1>2, OtherFates DEF FateInv
<1>3. \A k \in Scans : Fates(k)'
  BY <1>2, StepKinds, ScannerFates, JobFates DEF FateInv
<1> QED BY <1>1, <1>3 DEF FateInv

(* A scanner's failure stays its own: it fails the job only together with  *)
(* all the others, and what a completed job's result calls succeeded are   *)
(* exactly the scanners without one (runConcurrently, wg.Wait).            *)
THEOREM ScannersFailAlone == Spec => []NoCollateral
<1>1. FateInv => NoCollateral
  BY DEF FateInv, Fates, NoCollateral
<1> QED BY <1>1, FatesInit, FatesStep, PTL DEF Spec

(***************************************************************************)
(* The directories on the shared volume                                    *)
(***************************************************************************)
Volume(j) ==
  /\ \A s \in Scanners : step[j][s] \in Working =>
       pc[j] \in {"running", "crashed"} /\ Space(j, s) \in spaces
  /\ \A s \in Scanners : <<j, s>> \in spaces =>
       step[j][s] \in Working /\ pc[j] \in {"running", "crashed"}
  /\ <<j, Shared>> \in spaces => pc[j] \in {"running", "recording", "returning", "crashed"}
  /\ request[j].source = "upload" /\ pc[j] = "running" => <<j, Shared>> \in spaces

VolumeInv == FateInv /\ \A j \in Scans : Volume(j)

LEMMA SharedIsNoScanner == Shared \notin Scanners
BY DEF Shared, Scanners

LEMMA OtherVolume ==
  ASSUME NEW k \in Scans, Volume(k), request'[k] = request[k], pc'[k] = pc[k],
         step'[k] = step[k],
         \A e \in Scanners \cup {Shared} : (<<k, e>> \in spaces') = (<<k, e>> \in spaces)
  PROVE  Volume(k)'
BY SharedIsNoScanner DEF Volume, Space

LEMMA ScannerVolume ==
  ASSUME VolumeInv, NEW j \in Scans, ScannerStep(j)
  PROVE  \A k \in Scans : Volume(k)'
<1> USE DEF VolumeInv, FateInv, RunTyped
<1>0. UNCHANGED <<request, pc>> /\ pc[j] = "running"
  BY DEF ScannerStep
<1>1. CASE Waits BY <1>0, <1>1, OtherVolume DEF Waits
<1>2. ASSUME NEW s \in Scanners, NEW x \in Steps, Go(j, s, x),
             \A k \in Scans, e \in Scanners \cup {Shared} :
               <<k, e>> # <<j, s>> => (<<k, e>> \in spaces') = (<<k, e>> \in spaces),
             x \in Working => Space(j, s) \in spaces',
             <<j, s>> \in spaces' => x \in Working
      PROVE  \A k \in Scans : Volume(k)'
  <2>1. step'[j] = [step[j] EXCEPT ![s] = x] /\ \A k \in Scans \ {j} : step'[k] = step[k]
    BY <1>2 DEF Go
  <2>2. ASSUME NEW k \in Scans \ {j} PROVE Volume(k)'
    <3>1. \A e \in Scanners \cup {Shared} : (<<k, e>> \in spaces') = (<<k, e>> \in spaces)
      BY <1>2
    <3> QED BY <1>0, <2>1, <3>1, OtherVolume
  <2>3. Volume(j)'
    <3>1. <<j, Shared>> \in spaces' <=> <<j, Shared>> \in spaces
      BY <1>2, SharedIsNoScanner
    <3>2. \A t \in Scanners \ {s} : (<<j, t>> \in spaces') = (<<j, t>> \in spaces)
      BY <1>2
    <3>3. \A t \in Scanners : Space(j, t)' = Space(j, t)
      BY <1>0 DEF Space
    <3>0. \A t \in Scanners : Space(j, t) = <<j, t>> \/ Space(j, t) = <<j, Shared>>
      BY DEF Space
    <3>4. ASSUME NEW t \in Scanners \ {s} PROVE Space(j, t) \in spaces => Space(j, t) \in spaces'
      <4>1. CASE Space(j, t) = <<j, t>> BY <3>2, <4>1
      <4>2. CASE Space(j, t) = <<j, Shared>> BY <3>1, <4>2
      <4> QED BY <3>0, <4>1, <4>2
    <3>5. \A t \in Scanners : step'[j][t] \in Working =>
            pc'[j] \in {"running", "crashed"} /\ Space(j, t)' \in spaces'
      <4>1. ASSUME NEW t \in Scanners \ {s}, step'[j][t] \in Working
            PROVE  pc'[j] \in {"running", "crashed"} /\ Space(j, t)' \in spaces'
        <5>1. step[j][t] \in Working BY <2>1, <4>1
        <5>2. Space(j, t) \in spaces BY <5>1 DEF Volume
        <5> QED BY <1>0, <3>3, <3>4, <5>2
      <4>2. step'[j][s] = x BY <2>1
      <4> QED BY <1>0, <1>2, <3>3, <4>1, <4>2
    <3>6. \A t \in Scanners : <<j, t>> \in spaces' =>
            step'[j][t] \in Working /\ pc'[j] \in {"running", "crashed"}
      <4>1. ASSUME NEW t \in Scanners \ {s}, <<j, t>> \in spaces'
            PROVE  step'[j][t] \in Working /\ pc'[j] \in {"running", "crashed"}
        BY <1>0, <2>1, <3>2, <4>1 DEF Volume
      <4>2. step'[j][s] = x BY <2>1
      <4> QED BY <1>0, <1>2, <4>1, <4>2
    <3> QED BY <1>0, <3>1, <3>5, <3>6 DEF Volume
  <2> QED BY <2>2, <2>3
<1>3. ASSUME NEW s \in Scanners, GoesOn(j, s) PROVE \A k \in Scans : Volume(k)'
  <2>1. PICK x \in Steps \ ({"off"} \cup Decided) :
          /\ Go(j, s, x)
          /\ \/ x \in Working /\ step[j][s] \in Working /\ UNCHANGED spaces
             \/ x \notin Working /\ step[j][s] \notin Working /\ UNCHANGED spaces
             \/ x = "asked" /\ request[j].source = "upload" /\ UNCHANGED spaces
             \/ x = "cloning" /\ request[j].source # "upload" /\ spaces' = spaces \cup {<<j, s>>}
    BY <1>3, Zenon DEF GoesOn
  <2>2. x \in Working => Space(j, s) \in spaces'
    BY <1>0, <2>1 DEF Volume, Space
  <2>3. <<j, s>> \in spaces' => x \in Working
    BY <2>1, AnswersDiffer DEF Volume
  <2>4. \A k \in Scans, e \in Scanners \cup {Shared} :
          <<k, e>> # <<j, s>> => (<<k, e>> \in spaces') = (<<k, e>> \in spaces)
    BY <2>1
  <2> QED BY <1>2, <2>1, <2>2, <2>3, <2>4
<1>4. ASSUME NEW s \in Scanners, Decides(j, s) PROVE \A k \in Scans : Volume(k)'
  <2>1. Go(j, s, "finishing") BY <1>4 DEF Decides, Succeed, Fail
  <2>2. /\ <<j, s>> \notin spaces'
        /\ \A k \in Scans, e \in Scanners \cup {Shared} :
             <<k, e>> # <<j, s>> => (<<k, e>> \in spaces') = (<<k, e>> \in spaces)
    <3>1. CASE Cleanup(j, s) BY <3>1 DEF Cleanup
    <3>2. CASE step[j][s] \notin Working /\ UNCHANGED spaces BY <3>2 DEF Volume
    <3> QED BY <1>4, <3>1, <3>2 DEF Decides
  <2>3. "finishing" \in Steps /\ "finishing" \notin Working
    BY AnswersDiffer DEF Steps, Decided
  <2> QED BY <1>2, <2>1, <2>2, <2>3
<1>5. ASSUME NEW s \in Scanners, GoroutineEnds(j, s) PROVE \A k \in Scans : Volume(k)'
  <2>1. step[j][s] = "finishing" /\ Go(j, s, "ended") /\ UNCHANGED spaces
    BY <1>5 DEF GoroutineEnds
  <2>2. "ended" \in Steps /\ "ended" \notin Working /\ "finishing" \notin Working
    BY AnswersDiffer DEF Steps, Decided
  <2>3. <<j, s>> \notin spaces BY <2>1, <2>2 DEF Volume
  <2> QED BY <1>2, <2>1, <2>2, <2>3
<1> QED BY <1>1, <1>3, <1>4, <1>5 DEF ScannerStep

LEMMA JobVolume ==
  ASSUME VolumeInv, NEW j \in Scans, JobStep(j)
  PROVE  \A k \in Scans : Volume(k)'
<1> USE DEF VolumeInv, FateInv, RunTyped
<1>0. request' = request
  BY DEF JobStep, MarkProcessing, LoadProject, Gather, RecordOutcome, Return, Retry, Crash
<1>1. /\ \A k \in Scans \ {j} : pc'[k] = pc[k] /\ step'[k] = step[k]
      /\ \/ UNCHANGED spaces
         \/ spaces' = spaces \cup {<<j, Shared>>}
         \/ spaces' = spaces \ {<<j, Shared>>}
  <2>1. CASE MarkProcessing(j) BY <2>1 DEF MarkProcessing
  <2>2. CASE LoadProject(j) BY <2>2 DEF LoadProject, ExtractZip, FailAllScanners
  <2>3. CASE Gather(j) BY <2>3 DEF Gather
  <2>4. CASE RecordOutcome(j) BY <2>4 DEF RecordOutcome
  <2>5. CASE Return(j) BY <2>5 DEF Return
  <2>6. CASE Retry(j) \/ Crash(j) BY <2>6 DEF Retry, Crash
  <2> QED BY <2>1, <2>2, <2>3, <2>4, <2>5, <2>6 DEF JobStep
<1>2. ASSUME NEW k \in Scans \ {j} PROVE Volume(k)'
  <2>1. \A e \in Scanners \cup {Shared} : (<<k, e>> \in spaces') = (<<k, e>> \in spaces)
    BY <1>1
  <2> QED BY <1>0, <1>1, <2>1, OtherVolume
<1>3. \A s \in Scanners : (<<j, s>> \in spaces') = (<<j, s>> \in spaces)
  BY <1>1, SharedIsNoScanner
<1>4. "off" \notin Working /\ "ended" \notin Working
  BY AnswersDiffer DEF Decided
(* Outside running nothing is at work, and no clone is there.              *)
<1>5. ASSUME pc[j] \notin {"running", "crashed"}
      PROVE  \A s \in Scanners : step[j][s] \notin Working /\ <<j, s>> \notin spaces
  BY <1>5 DEF Volume
<1>6. Volume(j)'
  <2>1. CASE MarkProcessing(j)
    <3>1. pc[j] = "waiting" /\ pc'[j] = "opening" /\ UNCHANGED spaces
      BY <2>1 DEF MarkProcessing
    <3>2. \A s \in Scanners : step'[j][s] = "off"
      BY <2>1 DEF MarkProcessing
    <3> QED BY <1>0, <1>3, <1>4, <1>5, <3>1, <3>2 DEF Volume
  <2>2. CASE LoadProject(j)
    <3>1. pc[j] = "opening" /\ UNCHANGED step
      BY <2>2 DEF LoadProject, ExtractZip, FailAllScanners
    <3>2. \/ pc'[j] = "recording" /\ UNCHANGED spaces
          \/ pc'[j] = "running" /\ spaces' = spaces \cup {<<j, Shared>>}
          \/ pc'[j] = "running" /\ UNCHANGED spaces /\ request[j].source # "upload"
      BY <2>2 DEF LoadProject, ExtractZip, FailAllScanners
    <3> QED BY <1>0, <1>3, <1>5, <3>1, <3>2 DEF Volume
  <2>3. CASE Gather(j)
    <3>1. /\ pc[j] = "running" /\ pc'[j] = "recording" /\ UNCHANGED <<step, spaces>>
          /\ \A s \in request[j].tools : step[j][s] = "ended"
      BY <2>3 DEF Gather
    <3>2. \A s \in Scanners : step[j][s] \notin Working
      BY <1>4, <3>1 DEF Fates
    <3>3. \A s \in Scanners : <<j, s>> \notin spaces
      BY <3>2 DEF Volume
    <3> QED BY <1>0, <3>1, <3>2, <3>3 DEF Volume
  <2>4. CASE RecordOutcome(j)
    <3>1. pc[j] = "recording" /\ pc'[j] = "returning" /\ UNCHANGED <<step, spaces>>
      BY <2>4 DEF RecordOutcome
    <3> QED BY <1>0, <1>5, <3>1 DEF Volume
  <2>5. CASE Return(j)
    <3>1. /\ pc[j] = "returning" /\ pc'[j] = "done" /\ UNCHANGED step
          /\ <<j, Shared>> \notin spaces'
      BY <2>5 DEF Return
    <3> QED BY <1>0, <1>3, <1>5, <3>1 DEF Volume
  <2>6. CASE Retry(j)
    <3>1. pc[j] = "done" /\ pc'[j] = "waiting" /\ UNCHANGED <<step, spaces>>
      BY <2>6 DEF Retry
    <3> QED BY <1>0, <1>5, <3>1 DEF Volume
  <2>7. CASE Crash(j)
    <3>1. pc'[j] = "crashed" /\ UNCHANGED <<step, spaces>>
      BY <2>7 DEF Crash
    <3>2. \A s \in Scanners : Space(j, s)' = Space(j, s) BY <1>0 DEF Space
    <3> QED BY <1>0, <3>1, <3>2 DEF Volume
  <2> QED BY <2>1, <2>2, <2>3, <2>4, <2>5, <2>6, <2>7 DEF JobStep
<1> QED BY <1>2, <1>6

(* The directory a tool is reading is there, and nothing is left of a job  *)
(* that returned (cloneShallow, its cleanup and the deferred RemoveAll).   *)
THEOREM WorkspacesLastAsNeeded == Spec => []WorkspaceWhileNeeded
<1>1. Init => VolumeInv
  <2> SUFFICES ASSUME Init PROVE VolumeInv OBVIOUS
  <2>1. FateInv BY FatesInit
  <2> QED BY <2>1, AnswersDiffer DEF Init, VolumeInv, Volume
<1>2. VolumeInv /\ [Next]_vars => VolumeInv'
  <2> SUFFICES ASSUME VolumeInv, [Next]_vars PROVE VolumeInv' OBVIOUS
  <2>1. FateInv' BY FatesStep DEF VolumeInv
  <2>2. ASSUME UNCHANGED <<request, pc, step, outcome, blamed, spaces, job, recorded>>
        PROVE  \A k \in Scans : Volume(k)'
    BY <2>2, OtherVolume DEF VolumeInv
  <2>3. \A k \in Scans : Volume(k)'
    BY <2>2, StepKinds, ScannerVolume, JobVolume DEF VolumeInv, FateInv
  <2> QED BY <2>1, <2>3 DEF VolumeInv
<1>3. VolumeInv => WorkspaceWhileNeeded
  <2> SUFFICES ASSUME VolumeInv, NEW j \in Scans
               PROVE  /\ \A s \in request[j].tools :
                           step[j][s] \in Reading => Space(j, s) \in spaces
                      /\ pc[j] = "done" => \A space \in spaces : space[1] # j
    BY DEF WorkspaceWhileNeeded
  <2>1. request[j].tools \subseteq Scanners
    BY DEF VolumeInv, FateInv, RunTyped, Request
  <2>2. ASSUME pc[j] = "done", NEW space \in spaces PROVE space[1] # j
    <3>1. PICK k \in Scans, e \in Scanners \cup {Shared} : space = <<k, e>>
      BY DEF VolumeInv, FateInv, RunTyped
    <3> QED BY <2>2, <3>1 DEF VolumeInv, Volume
  <2> QED BY <2>1, <2>2 DEF VolumeInv, Volume, Working
<1> QED BY <1>1, <1>2, <1>3, PTL DEF Spec

(***************************************************************************)
(* The analyses of the project                                             *)
(***************************************************************************)
Before == {ss \in Nat \X Nat : ss[1] < ss[2]}

LEMMA Greatest ==
  ASSUME NEW n \in Nat, NEW T \in SUBSET (0..n), T # {}
  PROVE  \E x \in T : \A y \in T : y <= x
<1> DEFINE U == {k \in Nat : n - k \in T}
<1>1. PICK t \in T : TRUE OBVIOUS
<1>2. n - t \in U BY <1>1
<1>3. IsWellFoundedOn(Before, Nat)
  BY NatLessThanWellFounded DEF OpToRel, Before
<1>4. PICK x \in U : \A y \in U : ~ (<<y, x>> \in Before)
  BY <1>2, <1>3, WFMin
<1>5. n - x \in T /\ x \in Nat OBVIOUS
<1>6. ASSUME NEW y \in T PROVE y <= n - x
  <2>1. y \in 0..n /\ n - y \in Nat OBVIOUS
  <2>2. n - (n - y) = y BY <2>1
  <2>3. n - y \in U BY <2>1, <2>2
  <2>4. ~ (n - y < x) BY <1>4, <1>5, <2>1, <2>3 DEF Before
  <2> HIDE DEF U
  <2> QED BY <1>5, <2>1, <2>4
<1> QED BY <1>5, <1>6

(* What the server shows is no older than any analysis that succeeded.     *)
LEMMA LatestIsLatest ==
  ASSUME verdicts \in Seq(BOOLEAN)
  PROVE  /\ Latest \in Nat
         /\ \A m \in 1..Len(verdicts) : verdicts[m] => m <= Latest
<1> DEFINE T == {n \in 0..Len(verdicts) : n = 0 \/ verdicts[n]}
           Best(n) == /\ n = 0 \/ verdicts[n]
                      /\ \A m \in (n + 1)..Len(verdicts) : ~verdicts[m]
<1>1. Len(verdicts) \in Nat /\ 0 \in T OBVIOUS
<1>2. PICK x \in T : \A y \in T : y <= x BY <1>1, Greatest
<1>3. x \in 0..Len(verdicts) /\ Best(x) BY <1>1, <1>2
<1>4. Latest = CHOOSE n \in 0..Len(verdicts) : Best(n) BY DEF Latest
<1>5. Latest \in 0..Len(verdicts) /\ Best(Latest)
  <2> HIDE DEF Best
  <2> QED BY <1>3, <1>4
<1> QED BY <1>1, <1>5

(* Where a scan may have read issues already.                              *)
Late == {"fetching"} \cup Decided

Shown(j) == own[j] \in 1..Len(verdicts) /\ verdicts[own[j]]

Analysis(j) ==
  /\ own[j] \in 0..Len(tasks)
  /\ step[j]["sonarqube"] = "analysing" => own[j] # 0
  /\ step[j]["sonarqube"] = "fetching" => Shown(j)
  /\ read[j] \in Seq(Nat)
  /\ read[j] # <<>> => step[j]["sonarqube"] \in Late /\ Shown(j)
  /\ \A n \in DOMAIN read[j] : read[j][n] >= own[j]

AnalysisInv ==
  /\ RunTyped
  /\ own \in [Scans -> Nat] /\ DOMAIN read = Scans
  /\ tasks \in Seq(Scans) /\ verdicts \in Seq(BOOLEAN) /\ Len(verdicts) <= Len(tasks)
  /\ \A j \in Scans : Analysis(j)

(* Where a scan's goroutine for SonarQube may go without a look at the     *)
(* server.                                                                 *)
Aside(j) ==
  LET old == step[j]["sonarqube"]
      new == step'[j]["sonarqube"]
  IN  \/ new = old
      \/ new \in Decided
      \/ old \notin Late /\ new \notin {"analysing", "fetching"}

LEMMA AsideKeeps ==
  ASSUME NEW j \in Scans, Analysis(j), Aside(j), own'[j] = own[j], read'[j] = read[j],
         UNCHANGED <<tasks, verdicts>>
  PROVE  Analysis(j)'
<1>1. "analysing" \notin Decided /\ "fetching" \notin Decided BY DEF Decided
<1>2. Shown(j)' = Shown(j) BY DEF Shown
<1> QED BY <1>1, <1>2 DEF Analysis, Aside, Late

LEMMA GoAside ==
  ASSUME RunTyped, NEW j \in Scans, NEW s \in Scanners, NEW x, Go(j, s, x),
         s # "sonarqube" \/ x \in Decided
           \/ (step[j][s] \notin Late /\ x \notin {"analysing", "fetching"})
  PROVE  \A k \in Scans : Aside(k)
BY DEF Go, Aside, RunTyped, Scanners

LEMMA EndAside ==
  ASSUME RunTyped, NEW j \in Scans, NEW s \in Scanners, Succeed(j, s) \/ Fail(j, s)
  PROVE  \A k \in Scans : Aside(k)
BY GoAside DEF Succeed, Fail, Decided

LEMMA ExecuteAside ==
  ASSUME RunTyped, NEW j \in Scans, NEW s \in Scanners, NEW understood,
         Execute(j, s, understood)
  PROVE  UNCHANGED sonarVars /\ \A k \in Scans : Aside(k)
<1>1. CASE CloneShallow(j, s)
  <2>1. CASE Go(j, s, "asked")
    BY <1>1, <2>1, GoAside DEF CloneShallow, At, Late, Decided
  <2> QED BY <1>1, <2>1, EndAside DEF CloneShallow
<1>2. CASE ScanTimesOut(j, s) BY <1>2, EndAside DEF ScanTimesOut
<1>3. CASE ScanRemote(j, s, understood) BY <1>3, EndAside DEF ScanRemote
<1> QED BY <1>1, <1>2, <1>3 DEF Execute

LEMMA StartAside ==
  ASSUME RunTyped, NEW j \in Scans, NEW s \in Scanners, StartScanner(j, s)
  PROVE  UNCHANGED sonarVars /\ \A k \in Scans : Aside(k)
<1>1. UNCHANGED sonarVars /\ step[j][s] = "off" BY DEF StartScanner, At
<1>2. CASE Unusable(j, s) BY <1>1, <1>2, EndAside DEF StartScanner
<1>3. CASE ~Unusable(j, s)
  <2>1. Go(j, s, Begin(j, s)) BY <1>3 DEF StartScanner
  <2>2. Begin(j, s) \in {"asked", "spider", "cloning"} BY DEF Begin
  <2>3. step[j][s] \notin Late /\ Begin(j, s) \notin {"analysing", "fetching"}
    BY <1>1, <2>2 DEF Late, Decided
  <2> QED BY <1>1, <2>1, <2>3, GoAside
<1> QED BY <1>2, <1>3

LEMMA ZapAside ==
  ASSUME RunTyped, NEW j \in Scans, ZapScanner(j)
  PROVE  UNCHANGED sonarVars /\ \A k \in Scans : Aside(k)
<1>1. ASSUME UNCHANGED step PROVE \A k \in Scans : Aside(k)
  BY <1>1 DEF Aside
<1>2. ASSUME NEW x, Go(j, "zap", x) PROVE \A k \in Scans : Aside(k)
  BY <1>2, GoAside DEF Scanners
<1>3. UNCHANGED step \/ \E x \in {"ascan", "alerts", "finishing"} : Go(j, "zap", x)
  <2>1. CASE RunModule(j, "spider", "ascan") BY <2>1 DEF RunModule, Fail
  <2>2. CASE RunModule(j, "ascan", "alerts") BY <2>2 DEF RunModule, Fail
  <2>3. CASE FetchAlerts(j) BY <2>3 DEF FetchAlerts, Succeed, Fail
  <2> QED BY <2>1, <2>2, <2>3 DEF ZapScanner, ExecuteWithProgress
<1>4. UNCHANGED sonarVars
  BY DEF ZapScanner, ExecuteWithProgress, RunModule, FetchAlerts
<1> QED BY <1>1, <1>2, <1>3, <1>4

(* The steps that are about the server, or begin an attempt.               *)
AnalysisStep(j) ==
  SonarSidecar(j) \/ WaitForAnalysis(j) \/ FetchIssues(j) \/ MarkProcessing(j)

LEMMA AnalysisKinds ==
  ASSUME RunTyped, [Next]_vars
  PROVE  \/ UNCHANGED sonarVars /\ \A k \in Scans : Aside(k)
         \/ \E j \in Scans : AnalysisStep(j)
         \/ ProcessTask
<1>0. {"trivy", "gitleaks", "semgrep", "syft", "sonarqube", "zap"} = Scanners
  BY DEF Scanners
<1>1. ASSUME NEW j \in Scans, RunScanner(j), ~AnalysisStep(j)
      PROVE  UNCHANGED sonarVars /\ \A k \in Scans : Aside(k)
  <2>1. ASSUME NEW s \in Scanners, MarkScannerFinished(j, s)
        PROVE  UNCHANGED sonarVars /\ \A k \in Scans : Aside(k)
    BY <2>1, GoAside DEF MarkScannerFinished, Decided
  <2>2. CASE TrivyScanner(j) \/ GitleaksScanner(j) \/ SemgrepScanner(j) \/ SyftScanner(j)
    BY <1>0, <2>2, ExecuteAside DEF TrivyScanner, GitleaksScanner, SemgrepScanner, SyftScanner
  <2>3. CASE SonarScanner(j)
    <3>1. CASE AnalysisTimesOut(j)
      BY <1>0, <3>1, EndAside DEF AnalysisTimesOut
    <3> QED BY <1>0, <1>1, <2>3, <3>1, ExecuteAside DEF SonarScanner, AnalysisStep
  <2> QED BY <1>1, <2>1, <2>2, <2>3, StartAside, ZapAside DEF RunScanner
<1>2. ASSUME NEW j \in Scans, Sidecar(j), ~AnalysisStep(j)
      PROVE  UNCHANGED sonarVars /\ \A k \in Scans : Aside(k)
  <2>1. ASSUME NEW s \in Scanners \ {"sonarqube"}, ToolAnswers(j, s)
        PROVE  UNCHANGED sonarVars /\ \A k \in Scans : Aside(k)
    BY <2>1, GoAside DEF ToolAnswers
  <2>2. {"trivy", "gitleaks", "semgrep", "syft"} \subseteq Scanners \ {"sonarqube"}
    BY DEF Scanners
  <2> QED BY <1>2, <2>1, <2>2 DEF Sidecar, TrivySidecar, GitleaksSidecar, SemgrepSidecar,
                                  SyftSidecar, AnalysisStep
<1>3. ASSUME UNCHANGED step PROVE \A k \in Scans : Aside(k)
  BY <1>3 DEF Aside
<1>4. ASSUME NEW j \in Scans, ProcessScanJob(j) \/ Retry(j) \/ Crash(j), ~AnalysisStep(j)
      PROVE  UNCHANGED <<sonarVars, step>>
  <2>1. CASE LoadProject(j) BY <2>1 DEF LoadProject, ExtractZip, FailAllScanners
  <2>2. CASE Gather(j) \/ RecordOutcome(j) \/ Return(j)
    BY <2>2 DEF Gather, RecordOutcome, Return
  <2>3. CASE Retry(j) \/ Crash(j) BY <2>3 DEF Retry, Crash
  <2> QED BY <1>4, <2>1, <2>2, <2>3 DEF ProcessScanJob, AnalysisStep
<1>5. CASE UNCHANGED vars BY <1>3, <1>5 DEF vars
<1> QED BY <1>1, <1>2, <1>3, <1>4, <1>5 DEF Next

LEMMA OtherAnalysis ==
  ASSUME NEW k \in Scans, Analysis(k), own'[k] = own[k], read'[k] = read[k],
         step'[k] = step[k], UNCHANGED verdicts, Len(tasks) <= Len(tasks'),
         Len(tasks) \in Nat, Len(tasks') \in Nat
  PROVE  Analysis(k)'
<1>1. Shown(k)' = Shown(k) BY DEF Shown
<1> QED BY <1>1 DEF Analysis

LEMMA AnalysisMoves ==
  ASSUME AnalysisInv, NEW j \in Scans, AnalysisStep(j)
  PROVE  /\ own' \in [Scans -> Nat] /\ DOMAIN read' = Scans
         /\ tasks' \in Seq(Scans) /\ UNCHANGED verdicts /\ Len(verdicts) <= Len(tasks')
         /\ \A k \in Scans : Analysis(k)'
<1> USE DEF AnalysisInv, RunTyped
<1>0. "sonarqube" \in Scanners BY DEF Scanners
<1>1. CASE SonarSidecar(j)
  <2>1. /\ step[j]["sonarqube"] = "asked" /\ UNCHANGED <<verdicts, read>>
        /\ tasks' = Append(tasks, j) \/ UNCHANGED tasks
        /\ \/ /\ Go(j, "sonarqube", "analysing") /\ tasks' = Append(tasks, j)
              /\ own' = [own EXCEPT ![j] = Len(tasks')]
           \/ Go(j, "sonarqube", "refused") /\ UNCHANGED own
    BY <1>1 DEF SonarSidecar, At
  <2>2. /\ tasks' \in Seq(Scans) /\ Len(tasks) \in Nat /\ Len(tasks') \in Nat
        /\ Len(tasks) <= Len(tasks')
        /\ tasks' = Append(tasks, j) => Len(tasks') # 0
    <3>1. CASE tasks' = Append(tasks, j)
      <4>1. Append(tasks, j) \in Seq(Scans) /\ Len(Append(tasks, j)) = Len(tasks) + 1
        OBVIOUS
      <4> QED BY <3>1, <4>1
    <3>2. CASE UNCHANGED tasks BY <3>2
    <3> QED BY <2>1, <3>1, <3>2
  <2>3. read[j] = <<>> BY <2>1 DEF Analysis, Late, Decided
  <2>4. /\ own' \in [Scans -> Nat]
        /\ own'[j] \in 0..Len(tasks')
        /\ step'[j]["sonarqube"] \in {"analysing", "refused"}
        /\ step'[j]["sonarqube"] = "analysing" => own'[j] # 0
        /\ \A k \in Scans \ {j} : own'[k] = own[k] /\ step'[k] = step[k]
    <3>1. CASE Go(j, "sonarqube", "analysing") /\ tasks' = Append(tasks, j)
               /\ own' = [own EXCEPT ![j] = Len(tasks')]
      BY <1>0, <2>2, <3>1 DEF Go
    <3>2. CASE Go(j, "sonarqube", "refused") /\ UNCHANGED own
      BY <1>0, <2>2, <3>2 DEF Go, Analysis
    <3> QED BY <2>1, <3>1, <3>2
  <2>5. Analysis(j)' BY <2>1, <2>3, <2>4 DEF Analysis
  <2>6. ASSUME NEW k \in Scans \ {j} PROVE Analysis(k)'
    BY <2>1, <2>2, <2>4, OtherAnalysis
  <2>7. /\ UNCHANGED verdicts /\ DOMAIN read' = Scans
        /\ Len(verdicts) \in Nat /\ Len(verdicts) <= Len(tasks')
    BY <2>1, <2>2
  <2> QED BY <2>2, <2>4, <2>5, <2>6, <2>7
<1>2. CASE WaitForAnalysis(j)
  <2>1. /\ UNCHANGED <<tasks, verdicts, own, read>> /\ Len(tasks) \in Nat
        /\ step[j]["sonarqube"] = "analysing" /\ own[j] <= Len(verdicts)
    BY <1>2 DEF WaitForAnalysis, At, Processed, sonarVars
  <2>2. own[j] \in 1..Len(verdicts)
    BY <2>1 DEF Analysis
  <2>3. CASE verdicts[own[j]]
    <3>1. Go(j, "sonarqube", "fetching") BY <1>2, <2>3 DEF WaitForAnalysis
    <3>2. /\ step'[j]["sonarqube"] = "fetching"
          /\ \A k \in Scans \ {j} : step'[k] = step[k]
      BY <1>0, <3>1 DEF Go
    <3>3. Analysis(j)' BY <2>1, <2>2, <2>3, <3>2 DEF Analysis, Shown, Late
    <3>4. ASSUME NEW k \in Scans \ {j} PROVE Analysis(k)'
      BY <2>1, <3>2, OtherAnalysis
    <3> QED BY <2>1, <3>3, <3>4
  <2>4. CASE ~verdicts[own[j]]
    <3>1. \A k \in Scans : Aside(k)
      BY <1>0, <1>2, <2>4, EndAside DEF WaitForAnalysis
    <3> QED BY <2>1, <3>1, AsideKeeps
  <2> QED BY <2>3, <2>4
<1>3. CASE FetchIssues(j)
  <2>1. /\ UNCHANGED <<tasks, verdicts, own>> /\ Len(tasks) \in Nat
        /\ step[j]["sonarqube"] = "fetching"
    BY <1>3 DEF FetchIssues, At
  <2>2. Shown(j) BY <2>1 DEF Analysis
  <2>3. /\ \A k \in Scans \ {j} : step'[k] = step[k]
        /\ step'[j]["sonarqube"] \in {"fetching", "finishing"}
    BY <1>0, <1>3 DEF FetchIssues, At, Succeed, Fail, Go
  <2>4. UNCHANGED read \/ read' = [read EXCEPT ![j] = Append(@, Latest)]
    BY <1>3 DEF FetchIssues
  <2>5. /\ read'[j] \in Seq(Nat) /\ DOMAIN read' = Scans
        /\ \A k \in Scans \ {j} : read'[k] = read[k]
        /\ \A n \in DOMAIN read'[j] : read'[j][n] >= own[j]
    <3>1. CASE UNCHANGED read BY <3>1 DEF Analysis
    <3>2. CASE read' = [read EXCEPT ![j] = Append(@, Latest)]
      <4>1. read'[j] = Append(read[j], Latest) /\ read[j] \in Seq(Nat)
        BY <3>2 DEF Analysis
      <4>2. Latest \in Nat /\ own[j] <= Latest
        BY <2>2, LatestIsLatest DEF Shown
      <4>3. \A n \in DOMAIN read[j] : read[j][n] >= own[j] BY DEF Analysis
      <4> QED BY <3>2, <4>1, <4>2, <4>3
    <3> QED BY <2>4, <3>1, <3>2
  <2>6. Shown(j)' BY <2>1, <2>2 DEF Shown
  <2>7. Analysis(j)'
    BY <2>1, <2>3, <2>5, <2>6 DEF Analysis, Late, Decided
  <2>8. ASSUME NEW k \in Scans \ {j} PROVE Analysis(k)'
    BY <2>1, <2>3, <2>5, OtherAnalysis
  <2> QED BY <2>1, <2>5, <2>7, <2>8
<1>4. CASE MarkProcessing(j)
  <2>1. /\ UNCHANGED <<tasks, verdicts>> /\ Len(tasks) \in Nat
        /\ own'[j] = 0 /\ read'[j] = <<>> /\ step'[j]["sonarqube"] = "off"
        /\ own' \in [Scans -> Nat] /\ DOMAIN read' = Scans
        /\ \A k \in Scans \ {j} :
             own'[k] = own[k] /\ read'[k] = read[k] /\ step'[k] = step[k]
    BY <1>0, <1>4 DEF MarkProcessing
  <2>2. Analysis(j)' BY <2>1 DEF Analysis
  <2>3. ASSUME NEW k \in Scans \ {j} PROVE Analysis(k)'
    BY <2>1, OtherAnalysis
  <2> QED BY <2>1, <2>2, <2>3
<1> QED BY <1>1, <1>2, <1>3, <1>4 DEF AnalysisStep

LEMMA AnalysisKept ==
  ASSUME AnalysisInv, [Next]_vars
  PROVE  AnalysisInv'
<1> USE DEF AnalysisInv
<1>1. RunTyped' BY TypeStep
<1>2. CASE UNCHANGED sonarVars /\ \A k \in Scans : Aside(k)
  BY <1>1, <1>2, AsideKeeps DEF sonarVars
<1>3. ASSUME NEW j \in Scans, AnalysisStep(j) PROVE AnalysisInv'
  BY <1>1, <1>3, AnalysisMoves
<1>4. CASE ProcessTask
  <2>1. /\ UNCHANGED <<tasks, own, read, step>> /\ Len(verdicts) < Len(tasks)
        /\ \E success \in BOOLEAN : verdicts' = Append(verdicts, success)
    BY <1>4 DEF ProcessTask
  <2>2. /\ verdicts' \in Seq(BOOLEAN) /\ Len(verdicts') <= Len(tasks)
        /\ \A n \in 1..Len(verdicts) : n \in 1..Len(verdicts') /\ verdicts'[n] = verdicts[n]
    BY <2>1
  <2>3. ASSUME NEW k \in Scans PROVE Analysis(k)'
    <3>1. Shown(k) => Shown(k)' BY <2>1, <2>2 DEF Shown
    <3> QED BY <2>1, <3>1 DEF Analysis
  <2> QED BY <1>1, <2>1, <2>2, <2>3
<1> QED BY <1>2, <1>3, <1>4, AnalysisKinds

LEMMA AnalysisInit == Init => AnalysisInv
<1> SUFFICES ASSUME Init PROVE AnalysisInv OBVIOUS
<1>1. RunTyped BY FatesInit DEF FateInv
<1>2. "sonarqube" \in Scanners BY DEF Scanners
<1> QED BY <1>1, <1>2 DEF Init, AnalysisInv, Analysis

(* Whatever other scans of the target submit meanwhile, and whatever order *)
(* the server gets to them in, the issues a scan reads are of its own      *)
(* analysis or a later one (waitForAnalysis before fetchIssues).           *)
THEOREM IssuesAreOwn == Spec => []OwnAnalysis
<1>1. AnalysisInv => OwnAnalysis
  <2> SUFFICES ASSUME AnalysisInv, NEW j \in Scans, NEW n \in DOMAIN read[j]
               PROVE  own[j] # 0 /\ read[j][n] >= own[j]
    BY DEF OwnAnalysis
  <2>1. Analysis(j) BY DEF AnalysisInv
  <2>2. read[j] # <<>> BY <2>1 DEF Analysis
  <2> QED BY <2>1, <2>2 DEF Analysis, Shown
<1> QED BY <1>1, AnalysisInit, AnalysisKept, PTL DEF Spec

(***************************************************************************)
(* Types, the progress rows and the pages of issues among them             *)
(***************************************************************************)
(* A scan that still fetches has a page to go.                             *)
Pages(j) ==
  /\ Len(read[j]) <= IssuePages
  /\ step[j]["sonarqube"] = "fetching" => Len(read[j]) < IssuePages

RowTyped ==
  /\ row \in [Scans -> [Scanners -> {"none", "running", "ok", "error"}]]
  /\ detail \in [Scans -> SUBSET Scanners]
  /\ lost \in [Scans -> SUBSET Scanners]
  /\ faults \in 0..MaxFaults

TypeInv == AnalysisInv /\ RowTyped /\ retries \in 0..MaxRetries /\ \A j \in Scans : Pages(j)

LEMMA PagesKept ==
  ASSUME AnalysisInv, \A j \in Scans : Pages(j), [Next]_vars
  PROVE  \A j \in Scans : Pages(j)'
<1> USE DEF AnalysisInv, RunTyped
<1>1. "sonarqube" \in Scanners BY DEF Scanners
<1>2. ASSUME NEW k \in Scans, UNCHANGED read,
             step'[k]["sonarqube"] = "fetching" => step[k]["sonarqube"] = "fetching"
      PROVE  Pages(k)'
  BY <1>2 DEF Pages
<1>2a. ASSUME NEW k \in Scans, NEW m \in Nat, Len(read'[k]) = m, m <= IssuePages,
             step'[k]["sonarqube"] = "fetching" => m < IssuePages
      PROVE  Pages(k)'
  BY <1>2a DEF Pages
<1>3. CASE UNCHANGED sonarVars /\ \A k \in Scans : Aside(k)
  BY <1>2, <1>3 DEF Aside, Decided, sonarVars
<1>4. CASE ProcessTask
  BY <1>2, <1>4 DEF ProcessTask
<1>5. ASSUME NEW j \in Scans, SonarSidecar(j) PROVE \A k \in Scans : Pages(k)'
  <2>1. \/ Go(j, "sonarqube", "analysing") \/ Go(j, "sonarqube", "refused")
    BY <1>5 DEF SonarSidecar
  <2>2. UNCHANGED read BY <1>5 DEF SonarSidecar
  <2>3. ASSUME NEW k \in Scans, step'[k]["sonarqube"] = "fetching"
        PROVE  step[k]["sonarqube"] = "fetching"
    <3>1. CASE k = j BY <1>1, <2>1, <2>3, <3>1 DEF Go
    <3>2. CASE k # j BY <2>1, <2>3, <3>2 DEF Go
    <3> QED BY <3>1, <3>2
  <2> QED BY <1>2, <2>2, <2>3
<1>6. ASSUME NEW j \in Scans, WaitForAnalysis(j) PROVE \A k \in Scans : Pages(k)'
  <2>1. step[j]["sonarqube"] = "analysing" /\ UNCHANGED read
    BY <1>6 DEF WaitForAnalysis, At, sonarVars
  <2>2. read[j] = <<>>
    BY <2>1 DEF Analysis, Late, Decided
  <2>3. Pages(j)'
    BY <2>1, <2>2, ScanRunAssumption DEF Pages
  <2>4. \A k \in Scans \ {j} : step'[k] = step[k]
    BY <1>6 DEF WaitForAnalysis, Go, Fail
  <2> QED BY <1>2, <2>1, <2>3, <2>4
<1>7. ASSUME NEW j \in Scans, FetchIssues(j) PROVE \A k \in Scans : Pages(k)'
  <2>1. /\ \A k \in Scans \ {j} : step'[k] = step[k] /\ read'[k] = read[k]
        /\ step[j]["sonarqube"] = "fetching"
    BY <1>7 DEF FetchIssues, At, Succeed, Fail, Go
  <2>2. \A k \in Scans \ {j} : Pages(k)'
    BY <2>1 DEF Pages
  <2>3. PICK n \in Nat : n = Len(read[j])
    BY DEF Analysis
  <2>4. IssuePages \in Nat /\ n < IssuePages
    BY <2>1, <2>3, ScanRunAssumption DEF Pages
  <2>5. CASE UNCHANGED read /\ Fail(j, "sonarqube")
    <3>1. step'[j]["sonarqube"] = "finishing"
      BY <1>1, <2>5 DEF Fail, Go
    <3>2. Len(read'[j]) = n BY <2>3, <2>5
    <3>3. n <= IssuePages BY <2>4
    <3>4. Pages(j)' BY <1>2a, <3>1, <3>2, <3>3
    <3> QED BY <2>2, <3>4
  <2>6. CASE read' = [read EXCEPT ![j] = Append(@, Latest)]
    <3>1. read'[j] = Append(read[j], Latest) /\ read[j] \in Seq(Nat) /\ Latest \in Nat
      BY <2>6, LatestIsLatest DEF Analysis
    <3>2. Len(read'[j]) = n + 1
      BY <2>3, <3>1
    <3>3. n + 1 <= IssuePages /\ n + 1 \in Nat
      BY <2>4
    <3>4. ASSUME n + 1 < IssuePages PROVE Pages(j)'
      BY <1>2a, <3>2, <3>3, <3>4
    <3>5. ASSUME ~(n + 1 < IssuePages) PROVE Pages(j)'
      <4>1. ~UNCHANGED read
        <5>1. n + 1 # n OBVIOUS
        <5>2. Len(read'[j]) # Len(read[j]) BY <2>3, <3>2, <5>1
        <5> QED BY <5>2
      <4>2. Succeed(j, "sonarqube")
        BY <1>7, <3>2, <3>5, <4>1 DEF FetchIssues
      <4>3. step'[j]["sonarqube"] = "finishing"
        BY <1>1, <4>2 DEF Succeed, Go
      <4> QED BY <1>2a, <3>2, <3>3, <4>3
    <3>6. Pages(j)' BY <3>4, <3>5
    <3> QED BY <2>2, <3>6
  <2> QED BY <1>7, <2>2, <2>5, <2>6 DEF FetchIssues
<1>8. ASSUME NEW j \in Scans, MarkProcessing(j) PROVE \A k \in Scans : Pages(k)'
  <2>1. /\ \A k \in Scans \ {j} : step'[k] = step[k] /\ read'[k] = read[k]
        /\ read'[j] = <<>> /\ step'[j]["sonarqube"] = "off"
    BY <1>1, <1>8 DEF MarkProcessing
  <2>2. Len(<<>>) = 0 /\ 0 <= IssuePages
    BY ScanRunAssumption
  <2>3. Pages(j)' BY <2>1, <2>2 DEF Pages
  <2>4. \A k \in Scans \ {j} : Pages(k)' BY <2>1 DEF Pages
  <2> QED BY <2>3, <2>4
<1> QED BY <1>3, <1>4, <1>5, <1>6, <1>7, <1>8, AnalysisKinds DEF AnalysisStep

(* Who writes the progress rows.                                           *)
LEMMA RowKinds ==
  ASSUME [Next]_vars
  PROVE  \/ \E j \in Scans, s \in Scanners :
              StartScannerRun(j, s) \/ FinishScannerRun(j, s) \/ UpdateScannerRunProgress(j, s)
         \/ \E j \in Scans : FailAllScanners(j) \/ MarkProcessing(j)
         \/ Fault /\ UNCHANGED <<row, detail, lost>>
         \/ UNCHANGED rowVars
<1>1. ASSUME NEW j \in Scans, RunScanner(j)
      PROVE  \/ \E s \in Scanners : StartScannerRun(j, s) \/ FinishScannerRun(j, s)
                                      \/ UpdateScannerRunProgress(j, s)
             \/ UNCHANGED rowVars
  <2>1. ASSUME NEW s \in Scanners, StartScanner(j, s) PROVE StartScannerRun(j, s)
    BY <2>1 DEF StartScanner
  <2>2. ASSUME NEW s \in Scanners, MarkScannerFinished(j, s) PROVE FinishScannerRun(j, s)
    BY <2>2 DEF MarkScannerFinished
  <2>3. ASSUME NEW s, NEW understood, Execute(j, s, understood) PROVE UNCHANGED rowVars
    BY <2>3 DEF Execute, CloneShallow, ScanTimesOut, ScanRemote
  <2>4. CASE TrivyScanner(j) \/ GitleaksScanner(j) \/ SemgrepScanner(j) \/ SyftScanner(j)
    BY <2>3, <2>4 DEF TrivyScanner, GitleaksScanner, SemgrepScanner, SyftScanner
  <2>5. CASE SonarScanner(j)
    BY <2>3, <2>5 DEF SonarScanner, WaitForAnalysis, AnalysisTimesOut, FetchIssues
  <2>6. CASE ZapScanner(j)
    <3>1. "zap" \in Scanners BY DEF Scanners
    <3> QED BY <2>6, <3>1 DEF ZapScanner, ExecuteWithProgress, RunModule, FetchAlerts
  <2> QED BY <1>1, <2>1, <2>2, <2>4, <2>5, <2>6 DEF RunScanner
<1>2. ASSUME NEW j \in Scans, Sidecar(j) PROVE UNCHANGED rowVars
  BY <1>2 DEF Sidecar, TrivySidecar, GitleaksSidecar, SemgrepSidecar, SyftSidecar,
              ToolAnswers, SonarSidecar
<1>3. ASSUME NEW j \in Scans, ProcessScanJob(j)
      PROVE  FailAllScanners(j) \/ MarkProcessing(j) \/ UNCHANGED rowVars
  BY <1>3 DEF ProcessScanJob, LoadProject, ExtractZip, Gather, RecordOutcome, Return
<1>4. ASSUME NEW j \in Scans, Retry(j) PROVE UNCHANGED rowVars
  BY <1>4 DEF Retry
<1>5. ASSUME NEW j \in Scans, Crash(j) PROVE Fault /\ UNCHANGED <<row, detail, lost>>
  BY <1>5 DEF Crash
<1>6. CASE ProcessTask BY <1>6 DEF ProcessTask
<1>7. CASE UNCHANGED vars BY <1>7 DEF vars
<1> QED BY <1>1, <1>2, <1>3, <1>4, <1>5, <1>6, <1>7 DEF Next

LEMMA ScannersFinite == IsFiniteSet(Scanners)
<1>1. /\ IsFiniteSet({} \cup {"trivy"})
      /\ \A S, x : IsFiniteSet(S) => IsFiniteSet(S \cup {x})
  BY FS_EmptySet, FS_AddElement
<1>2. IsFiniteSet((((({} \cup {"trivy"}) \cup {"gitleaks"}) \cup {"semgrep"}) \cup {"syft"})
                  \cup {"sonarqube"})
  BY <1>1
<1>3. IsFiniteSet(((((({} \cup {"trivy"}) \cup {"gitleaks"}) \cup {"semgrep"}) \cup {"syft"})
                  \cup {"sonarqube"}) \cup {"zap"})
  BY <1>1, <1>2
<1>4. Scanners = ((((({} \cup {"trivy"}) \cup {"gitleaks"}) \cup {"semgrep"}) \cup {"syft"})
                  \cup {"sonarqube"}) \cup {"zap"}
  BY DEF Scanners
<1> QED BY <1>3, <1>4

LEMMA RowsKept ==
  ASSUME RunTyped, RowTyped, [Next]_vars
  PROVE  RowTyped'
<1> USE DEF RowTyped
<1>1. faults \in Nat /\ MaxFaults \in Nat
  BY ScanRunAssumption
<1>2. ASSUME Fault PROVE faults' \in 0..MaxFaults
  BY <1>1, <1>2 DEF Fault
<1>3. ASSUME NEW j \in Scans, NEW s \in Scanners, WriteFails(j, s) PROVE RowTyped'
  <2>1. lost' \in [Scans -> SUBSET Scanners] BY <1>3 DEF WriteFails
  <2> QED BY <1>2, <1>3, <2>1 DEF WriteFails
<1>4. ASSUME NEW j \in Scans, NEW s \in Scanners, StartScannerRun(j, s) PROVE RowTyped'
  <2>1. CASE /\ row' = [row EXCEPT ![j][s] = "running"]
             /\ UNCHANGED <<detail, lost, faults>>
    BY <2>1
  <2> QED BY <1>3, <1>4, <2>1 DEF StartScannerRun
<1>5. ASSUME NEW j \in Scans, NEW s \in Scanners, FinishScannerRun(j, s) PROVE RowTyped'
  <2>1. outcome[j][s] \in {"none", "running", "ok", "error"}
    BY DEF RunTyped
  <2>2. CASE /\ row' = [row EXCEPT ![j][s] =
                       IF row[j][s] = "none" THEN "none" ELSE outcome[j][s]]
             /\ detail' = [detail EXCEPT ![j] = @ \ {s}]
             /\ UNCHANGED <<lost, faults>>
    <3>1. row' \in [Scans -> [Scanners -> {"none", "running", "ok", "error"}]]
      BY <2>1, <2>2
    <3>2. detail' \in [Scans -> SUBSET Scanners] BY <2>2
    <3> QED BY <2>2, <3>1, <3>2
  <2> QED BY <1>3, <1>5, <2>2 DEF FinishScannerRun
<1>6. ASSUME NEW j \in Scans, NEW s \in Scanners, UpdateScannerRunProgress(j, s)
      PROVE  RowTyped'
  BY <1>3, <1>6 DEF UpdateScannerRunProgress
<1>7. ASSUME NEW j \in Scans, FailAllScanners(j) PROVE RowTyped'
  <2>1. request[j].tools \subseteq Scanners BY DEF RunTyped, Request
  <2>2. PICK failing \in SUBSET request[j].tools :
          /\ faults + Cardinality(failing) <= MaxFaults
          /\ faults' = faults + Cardinality(failing)
          /\ lost' = [lost EXCEPT ![j] = failing]
          /\ row' = [row EXCEPT ![j] = [s \in Scanners |->
               IF s \in request[j].tools \ failing THEN "error" ELSE @[s]]]
          /\ detail' = [detail EXCEPT ![j] = @ \cap failing]
    BY <1>7 DEF FailAllScanners
  <2>3. failing \in SUBSET Scanners BY <2>1
  <2>4. Cardinality(failing) \in Nat
    BY <2>3, ScannersFinite, FS_Subset, FS_CardinalityType
  <2>5. faults' \in 0..MaxFaults BY <1>1, <2>2, <2>4
  <2>6. lost' \in [Scans -> SUBSET Scanners] /\ detail' \in [Scans -> SUBSET Scanners]
    BY <2>2, <2>3
  <2>7. row' \in [Scans -> [Scanners -> {"none", "running", "ok", "error"}]]
    BY <2>2
  <2> QED BY <2>5, <2>6, <2>7
<1>8. ASSUME NEW j \in Scans, MarkProcessing(j) PROVE RowTyped'
  BY <1>8 DEF MarkProcessing
<1>9. CASE UNCHANGED rowVars BY <1>9 DEF rowVars
<1>10. CASE Fault /\ UNCHANGED <<row, detail, lost>> BY <1>2, <1>10
<1> QED BY <1>4, <1>5, <1>6, <1>7, <1>8, <1>9, <1>10, RowKinds

LEMMA RetriesKept ==
  ASSUME RunTyped, retries \in 0..MaxRetries, [Next]_vars
  PROVE  retries' \in 0..MaxRetries
<1>1. CASE \E j \in Scans : Retry(j)
  BY <1>1, ScanRunAssumption DEF Retry
<1>2. CASE UNCHANGED retries BY <1>2
<1>3. ASSUME NEW j \in Scans, RunScanner(j) \/ Sidecar(j) PROVE UNCHANGED retries
  BY <1>3, ScannerKinds DEF ScannerStep, jobVars
<1>4. ASSUME NEW j \in Scans, ProcessScanJob(j) \/ Crash(j) PROVE UNCHANGED retries
  BY <1>4 DEF ProcessScanJob, MarkProcessing, LoadProject, Gather, RecordOutcome, Return,
              Crash, jobVars
<1>5. UNCHANGED retries \/ \E j \in Scans : Retry(j)
  BY <1>3, <1>4 DEF Next, ProcessTask, vars, jobVars
<1> QED BY <1>1, <1>2, <1>5

(* Every variable keeps its type: in particular a scan's own analysis is   *)
(* one that was submitted, the server processes no more than it was given, *)
(* and issues are never fetched past the last page.                        *)
THEOREM RunsTyped == Spec => []TypeOK
<1>1. Init => TypeInv
  <2> SUFFICES ASSUME Init PROVE TypeInv OBVIOUS
  <2>1. RowTyped /\ retries \in 0..MaxRetries
    BY ScanRunAssumption DEF Init, RowTyped
  <2>2. \A j \in Scans : Pages(j)
    <3>1. Len(<<>>) = 0 /\ 0 < IssuePages BY ScanRunAssumption
    <3>2. \A j \in Scans : read[j] = <<>> BY DEF Init
    <3>3. 0 <= IssuePages BY ScanRunAssumption
    <3> QED BY <3>1, <3>2, <3>3 DEF Pages
  <2> QED BY <2>1, <2>2, AnalysisInit DEF TypeInv
<1>2. TypeInv /\ [Next]_vars => TypeInv'
  <2> SUFFICES ASSUME TypeInv, [Next]_vars PROVE TypeInv' OBVIOUS
  <2>1. RunTyped BY DEF TypeInv, AnalysisInv
  <2>2. AnalysisInv' BY AnalysisKept DEF TypeInv
  <2>3. RowTyped' BY <2>1, RowsKept DEF TypeInv
  <2>4. retries' \in 0..MaxRetries BY <2>1, RetriesKept DEF TypeInv
  <2>5. \A j \in Scans : Pages(j)' BY PagesKept DEF TypeInv
  <2> QED BY <2>2, <2>3, <2>4, <2>5 DEF TypeInv
<1>3. TypeInv => TypeOK
  <2> SUFFICES ASSUME TypeInv PROVE TypeOK OBVIOUS
  <2>1. own \in [Scans -> 0..Len(tasks)]
    BY DEF TypeInv, AnalysisInv, Analysis
  <2> QED BY <2>1 DEF TypeInv, AnalysisInv, RunTyped, RowTyped, Pages, TypeOK
<1> QED BY <1>1, <1>2, <1>3, PTL DEF Spec
=============================================================================
