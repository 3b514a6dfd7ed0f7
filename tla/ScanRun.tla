------------------------------ MODULE ScanRun ------------------------------
(***************************************************************************)
(* What happens between the two transactions of a scan job: the worker     *)
(* runs every requested scanner in a goroutine of its own, each against a  *)
(* workspace on the volume it shares with the sidecars, writes the         *)
(* progress of each to a row, waits for all of them and records which      *)
(* succeeded.  All scans are of one target, so that they share its project *)
(* on the SonarQube server.  Who may run a job, and what becomes of its    *)
(* findings, is ScanPipeline's matter.                                     *)
(***************************************************************************)
EXTENDS Naturals, Sequences, FiniteSets

CONSTANTS
  Scans,          \* attempts at scan jobs of one target
  Requests,       \* what the scans may be for: requests of them all
  Registered,     \* of each scan: the scanners of the worker that takes it
  IssuePages,     \* pages of the list of SonarQube issues
  MaxRetries,     \* bound: jobs delivered again
  MaxFaults       \* bound: progress writes that fail, workers that die

Sources == {"git", "upload"}
Scanners == {"trivy", "gitleaks", "semgrep", "syft", "sonarqube", "zap"}

(* Implementers of LocalScanner.                                           *)
Local == {"trivy", "gitleaks", "semgrep", "syft"}

(* createScanJob: at least one scanner, and only local ones for an upload. *)
Request ==
  {r \in [source : Sources, tools : SUBSET Scanners] :
     r.tools # {} /\ (r.source = "upload" => r.tools \subseteq Local)}

ASSUME ScanRunAssumption ==
  /\ Requests \subseteq [Scans -> Request]
  /\ Registered \in [Scans -> SUBSET Scanners]
  /\ IssuePages \in Nat \ {0}
  /\ {MaxRetries, MaxFaults} \subseteq Nat

VARIABLES
  request,        \* payload of the job and source of its project
  pc,             \* ProcessScanJob
  step,           \* the goroutine of each scanner
  outcome,        \* scannerOutcome
  blamed,         \* observer: scanners that something went wrong with
  spaces,         \* directories on the shared volume, with their owners
  row, detail,    \* scanning_scanner_runs: status, progress_detail # NULL
  lost,           \* observer: scanners with a progress write that failed
  job, recorded,  \* status of the job, scanners its result calls succeeded
  tasks, verdicts,\* SonarQube: analyses submitted, those processed
  own, read,      \* a scan's own analysis, those its issues came from
  retries, faults

sonarVars == <<tasks, verdicts, own, read>>
rowVars == <<row, detail, lost, faults>>
jobVars == <<job, recorded, retries>>
vars == <<request, pc, step, outcome, blamed, spaces, rowVars, jobVars, sonarVars>>

Answers == {"report", "empty", "garbage", "refused"}
Reading == {"asked"} \cup Answers
Steps == {"off", "cloning", "analysing", "fetching", "spider", "ascan", "alerts",
          "finishing", "ended"} \cup Reading
Phases == {"waiting", "opening", "running", "recording", "returning", "done", "crashed"}

(* The directory of a whole upload; a clone belongs to one scanner.        *)
Shared == "upload"
Space(j, s) == <<j, IF request[j].source = "upload" THEN Shared ELSE s>>

Init ==
  /\ request \in Requests
  /\ pc = [j \in Scans |-> "waiting"]
  /\ step = [j \in Scans |-> [s \in Scanners |-> "off"]]
  /\ outcome = [j \in Scans |-> [s \in Scanners |-> "none"]]
  /\ blamed = [j \in Scans |-> {}]
  /\ spaces = {}
  /\ row = [j \in Scans |-> [s \in Scanners |-> "none"]]
  /\ detail = [j \in Scans |-> {}]
  /\ lost = [j \in Scans |-> {}]
  /\ job = [j \in Scans |-> "queued"]
  /\ recorded = [j \in Scans |-> {}]
  /\ tasks = <<>> /\ verdicts = <<>>
  /\ own = [j \in Scans |-> 0]
  /\ read = [j \in Scans |-> <<>>]
  /\ retries = 0 /\ faults = 0

(***************************************************************************)
(* Progress rows: best effort                                              *)
(***************************************************************************)
Fault == faults < MaxFaults /\ faults' = faults + 1

WriteFails(j, s) ==
  /\ Fault
  /\ lost' = [lost EXCEPT ![j] = @ \cup {s}]
  /\ UNCHANGED <<row, detail>>

(* progress_detail is not reset.                                           *)
StartScannerRun(j, s) ==
  \/ /\ row' = [row EXCEPT ![j][s] = "running"]
     /\ UNCHANGED <<detail, lost, faults>>
  \/ WriteFails(j, s)

(* Mutant: the last progress stands.                                       *)
FinishScannerRunKeepsDetail(j, s) ==
  \/ /\ row' = [row EXCEPT ![j][s] = IF row[j][s] = "none" THEN "none" ELSE outcome[j][s]]
     /\ UNCHANGED <<detail, lost, faults>>
  \/ WriteFails(j, s)

FinishScannerRun(j, s) ==
  \/ /\ row' = [row EXCEPT ![j][s] = IF row[j][s] = "none" THEN "none" ELSE outcome[j][s]]
     /\ detail' = [detail EXCEPT ![j] = @ \ {s}]
     /\ UNCHANGED <<lost, faults>>
  \/ WriteFails(j, s)

UpdateScannerRunProgress(j, s) ==
  \/ /\ detail' = [detail EXCEPT ![j] = IF row[j][s] = "none" THEN @ ELSE @ \cup {s}]
     /\ UNCHANGED <<row, lost, faults>>
  \/ WriteFails(j, s)

(***************************************************************************)
(* A scanner's goroutine                                                   *)
(***************************************************************************)
At(j, s, where) == pc[j] = "running" /\ step[j][s] = where
Go(j, s, where) == step' = [step EXCEPT ![j][s] = where]

(* Mutant: whoever is done with a directory removes it, shared or not.     *)
CleanupEither(j, s) == spaces' = spaces \ {Space(j, s)}

(* A clone is removed by the goroutine that made it.                       *)
Cleanup(j, s) == spaces' = spaces \ {<<j, s>>}

Succeed(j, s) ==
  /\ Go(j, s, "finishing")
  /\ outcome' = [outcome EXCEPT ![j][s] = "ok"]
  /\ UNCHANGED blamed

(* Mutant: the first failure cancels the others, as errgroup would.        *)
FailGroup(j, s) ==
  /\ step' = [step EXCEPT ![j] = [t \in Scanners |->
       IF @[t] \in {"off", "ended"} THEN @[t] ELSE "finishing"]]
  /\ outcome' = [outcome EXCEPT ![j] = [t \in Scanners |->
       IF step[j][t] \in {"off", "ended", "finishing"} THEN @[t] ELSE "error"]]
  /\ blamed' = [blamed EXCEPT ![j] = @ \cup {s}]

Fail(j, s) ==
  /\ Go(j, s, "finishing")
  /\ outcome' = [outcome EXCEPT ![j][s] = "error"]
  /\ blamed' = [blamed EXCEPT ![j] = @ \cup {s}]

(* Not registered any more, or no sidecar to scan the directory with.      *)
Unusable(j, s) ==
  \/ s \notin Registered[j]
  \/ request[j].source = "upload" /\ s \notin Local

Begin(j, s) ==
  IF request[j].source = "upload" THEN "asked"
  ELSE IF s = "zap" THEN "spider" ELSE "cloning"

(* runConcurrently, runConcurrentlyLocal: the head of a goroutine.         *)
StartScanner(j, s) ==
  /\ At(j, s, "off")
  /\ s \in request[j].tools
  /\ StartScannerRun(j, s)
  /\ IF Unusable(j, s)
     THEN Fail(j, s) /\ UNCHANGED spaces
     ELSE /\ Go(j, s, Begin(j, s))
          /\ spaces' = spaces \cup IF Begin(j, s) = "cloning" THEN {<<j, s>>} ELSE {}
          /\ UNCHANGED <<outcome, blamed>>
  /\ UNCHANGED <<request, pc, jobVars, sonarVars>>

(* The clone may be refused or fail or take too long: the directory goes.  *)
CloneShallow(j, s) ==
  /\ At(j, s, "cloning")
  /\ \/ Go(j, s, "asked") /\ UNCHANGED <<outcome, blamed, spaces>>
     \/ Fail(j, s) /\ Cleanup(j, s)
  /\ UNCHANGED <<request, pc, rowVars, jobVars, sonarVars>>

(* The HTTP client gives up; the sidecar kills its tool.                   *)
ScanTimesOut(j, s) ==
  /\ At(j, s, "asked")
  /\ Fail(j, s) /\ Cleanup(j, s)
  /\ UNCHANGED <<request, pc, rowVars, jobVars, sonarVars>>

(* What the adapter takes for a report; snippets are read from the         *)
(* workspace, which goes last.                                             *)
ScanRemote(j, s, understood) ==
  /\ pc[j] = "running" /\ step[j][s] \in Answers
  /\ IF step[j][s] \in understood THEN Succeed(j, s) ELSE Fail(j, s)
  /\ Cleanup(j, s)
  /\ UNCHANGED <<request, pc, rowVars, jobVars, sonarVars>>

Execute(j, s, understood) ==
  CloneShallow(j, s) \/ ScanTimesOut(j, s) \/ ScanRemote(j, s, understood)

(* A clean tree makes gitleaks print nothing; the others always print a    *)
(* document.                                                               *)
ParseTrivyReport == {"report"}
ParseGitleaksReport == {"report", "empty"}
ParseSemgrepReport == {"report"}
ParseSyftReport == {"report"}

TrivyScanner(j) == Execute(j, "trivy", ParseTrivyReport)
GitleaksScanner(j) == Execute(j, "gitleaks", ParseGitleaksReport)
SemgrepScanner(j) == Execute(j, "semgrep", ParseSemgrepReport)
(* Its findings are none; the inventory is the call that can fail.         *)
SyftScanner(j) == Execute(j, "syft", ParseSyftReport)

(***************************************************************************)
(* Sidecars: they run a tool in the workspace while the worker waits       *)
(***************************************************************************)
(* The tool exits with an error, or leaves what it printed.                *)
ToolAnswers(j, s) ==
  /\ At(j, s, "asked")
  /\ \E a \in Answers : Go(j, s, a)
  /\ UNCHANGED <<request, pc, outcome, blamed, spaces, rowVars, jobVars, sonarVars>>

TrivySidecar(j) == ToolAnswers(j, "trivy")
GitleaksSidecar(j) == ToolAnswers(j, "gitleaks")
SemgrepSidecar(j) == ToolAnswers(j, "semgrep")
SyftSidecar(j) == ToolAnswers(j, "syft")

(* The report is uploaded; what task it became may not be found out.       *)
SonarSidecar(j) ==
  /\ At(j, "sonarqube", "asked")
  /\ \/ /\ tasks' = Append(tasks, j)
        /\ \/ /\ Go(j, "sonarqube", "analysing")
              /\ own' = [own EXCEPT ![j] = Len(tasks')]
           \/ Go(j, "sonarqube", "refused") /\ UNCHANGED own
     \/ Go(j, "sonarqube", "refused") /\ UNCHANGED <<tasks, own>>
  /\ UNCHANGED <<request, pc, outcome, blamed, spaces, rowVars, jobVars, verdicts, read>>

(***************************************************************************)
(* SonarQube: the server processes the analyses of a project in order      *)
(***************************************************************************)
ProcessTask ==
  /\ Len(verdicts) < Len(tasks)
  /\ \E success \in BOOLEAN : verdicts' = Append(verdicts, success)
  /\ UNCHANGED <<request, pc, step, outcome, blamed, spaces, rowVars, jobVars>>
  /\ UNCHANGED <<tasks, own, read>>

(* What the server shows of the project: its last successful analysis.     *)
Latest == CHOOSE n \in 0..Len(verdicts) :
            /\ n = 0 \/ verdicts[n]
            /\ \A m \in (n + 1)..Len(verdicts) : ~verdicts[m]

Processed(j) == own[j] <= Len(verdicts)

(* Mutant: a pending analysis is taken for a finished one.                 *)
WaitForAnalysisHasty(j) ==
  /\ At(j, "sonarqube", "analysing")
  /\ IF ~Processed(j) \/ verdicts[own[j]]
     THEN Go(j, "sonarqube", "fetching") /\ UNCHANGED <<outcome, blamed, spaces>>
     ELSE Fail(j, "sonarqube") /\ Cleanup(j, "sonarqube")
  /\ UNCHANGED <<request, pc, rowVars, jobVars, sonarVars>>

(* The polls that find the analysis pending change nothing.                *)
WaitForAnalysis(j) ==
  /\ At(j, "sonarqube", "analysing")
  /\ Processed(j)
  /\ IF verdicts[own[j]]
     THEN Go(j, "sonarqube", "fetching") /\ UNCHANGED <<outcome, blamed, spaces>>
     ELSE Fail(j, "sonarqube") /\ Cleanup(j, "sonarqube")
  /\ UNCHANGED <<request, pc, rowVars, jobVars, sonarVars>>

(* Out of time, or a poll failed.                                          *)
AnalysisTimesOut(j) ==
  /\ At(j, "sonarqube", "analysing")
  /\ Fail(j, "sonarqube") /\ Cleanup(j, "sonarqube")
  /\ UNCHANGED <<request, pc, rowVars, jobVars, sonarVars>>

(* Mutant: the last page is taken for one more.                            *)
FetchIssuesPastEnd(j) ==
  /\ At(j, "sonarqube", "fetching")
  /\ read' = [read EXCEPT ![j] = Append(@, Latest)]
  /\ IF Len(read'[j]) <= IssuePages
     THEN UNCHANGED <<step, outcome, blamed, spaces>>
     ELSE Succeed(j, "sonarqube") /\ Cleanup(j, "sonarqube")
  /\ UNCHANGED <<request, pc, rowVars, jobVars, tasks, verdicts, own>>

(* One page of what the server shows at that moment, or an error.          *)
FetchIssues(j) ==
  /\ At(j, "sonarqube", "fetching")
  /\ \/ /\ read' = [read EXCEPT ![j] = Append(@, Latest)]
        /\ IF Len(read'[j]) < IssuePages
           THEN UNCHANGED <<step, outcome, blamed, spaces>>
           ELSE Succeed(j, "sonarqube") /\ Cleanup(j, "sonarqube")
     \/ Fail(j, "sonarqube") /\ Cleanup(j, "sonarqube") /\ UNCHANGED read
  /\ UNCHANGED <<request, pc, rowVars, jobVars, tasks, verdicts, own>>

(* Whatever the sidecar answers without a task is an error.                *)
SonarScanner(j) ==
  Execute(j, "sonarqube", {}) \/ WaitForAnalysis(j) \/ AnalysisTimesOut(j) \/ FetchIssues(j)

(***************************************************************************)
(* OWASP ZAP: a spider, an active scan, then the alerts                    *)
(***************************************************************************)
(* A poll reports, then ends, goes on or runs out of time; the module may  *)
(* also be refused or a poll fail, without a report.                       *)
RunModule(j, module, next) ==
  /\ At(j, "zap", module)
  /\ \/ /\ UpdateScannerRunProgress(j, "zap")
        /\ Go(j, "zap", next) \/ UNCHANGED step
        /\ UNCHANGED <<outcome, blamed>>
     \/ Fail(j, "zap") /\ UNCHANGED rowVars
  /\ UNCHANGED <<request, pc, spaces, jobVars, sonarVars>>

ExecuteWithProgress(j) ==
  RunModule(j, "spider", "ascan") \/ RunModule(j, "ascan", "alerts")

FetchAlerts(j) ==
  /\ At(j, "zap", "alerts")
  /\ Succeed(j, "zap") \/ Fail(j, "zap")
  /\ UNCHANGED <<request, pc, spaces, rowVars, jobVars, sonarVars>>

ZapScanner(j) == ExecuteWithProgress(j) \/ FetchAlerts(j)

MarkScannerFinished(j, s) ==
  /\ At(j, s, "finishing")
  /\ FinishScannerRun(j, s)
  /\ Go(j, s, "ended")
  /\ UNCHANGED <<request, pc, outcome, blamed, spaces, jobVars, sonarVars>>

(***************************************************************************)
(* The job                                                                 *)
(***************************************************************************)
MarkProcessing(j) ==
  /\ pc[j] = "waiting"
  /\ pc' = [pc EXCEPT ![j] = "opening"]
  /\ job' = [job EXCEPT ![j] = "processing"]
  /\ step' = [step EXCEPT ![j] = [s \in Scanners |-> "off"]]
  /\ outcome' = [outcome EXCEPT ![j] = [s \in Scanners |-> "none"]]
  /\ blamed' = [blamed EXCEPT ![j] = {}]
  /\ lost' = [lost EXCEPT ![j] = {}]
  /\ own' = [own EXCEPT ![j] = 0]
  /\ read' = [read EXCEPT ![j] = <<>>]
  /\ UNCHANGED <<request, spaces, row, detail, faults, recorded, retries, tasks, verdicts>>

(* The project is gone or its archive is bad: no scanner can start.        *)
FailAllScanners(j) ==
  /\ pc' = [pc EXCEPT ![j] = "recording"]
  /\ outcome' = [outcome EXCEPT ![j] = [s \in Scanners |->
       IF s \in request[j].tools THEN "error" ELSE "none"]]
  /\ blamed' = [blamed EXCEPT ![j] = request[j].tools]
  /\ \E failing \in SUBSET request[j].tools :
       /\ faults + Cardinality(failing) <= MaxFaults
       /\ faults' = faults + Cardinality(failing)
       /\ lost' = [lost EXCEPT ![j] = failing]
       /\ row' = [row EXCEPT ![j] = [s \in Scanners |->
            IF s \in request[j].tools \ failing THEN "error" ELSE @[s]]]
       /\ detail' = [detail EXCEPT ![j] = @ \cap failing]
  /\ UNCHANGED <<step, spaces>>

(* ExtractZip: an archive that fails leaves no directory behind.           *)
ExtractZip(j) ==
  \/ /\ spaces' = spaces \cup {<<j, Shared>>}
     /\ pc' = [pc EXCEPT ![j] = "running"]
     /\ UNCHANGED <<step, outcome, blamed, rowVars>>
  \/ FailAllScanners(j)

LoadProject(j) ==
  /\ pc[j] = "opening"
  /\ \/ request[j].source = "upload" /\ ExtractZip(j)
     \/ /\ request[j].source = "git"
        /\ pc' = [pc EXCEPT ![j] = "running"]
        /\ UNCHANGED <<step, outcome, blamed, spaces, rowVars>>
     \/ FailAllScanners(j)
  /\ UNCHANGED <<request, jobVars, sonarVars>>

(* wg.Wait.                                                                *)
Gather(j) ==
  /\ pc[j] = "running"
  /\ \A s \in request[j].tools : step[j][s] = "ended"
  /\ pc' = [pc EXCEPT ![j] = "recording"]
  /\ UNCHANGED <<request, step, outcome, blamed, spaces, rowVars, jobVars, sonarVars>>

Succeeded(j) == {s \in request[j].tools : outcome[j][s] = "ok"}

(* The transaction may fail: the job stays processing, which no retry can  *)
(* take it out of.                                                         *)
RecordOutcome(j) ==
  /\ pc[j] = "recording"
  /\ pc' = [pc EXCEPT ![j] = "returning"]
  /\ \/ /\ job' = [job EXCEPT ![j] = IF Succeeded(j) = {} THEN "failed" ELSE "completed"]
        /\ recorded' = [recorded EXCEPT ![j] = Succeeded(j)]
     \/ UNCHANGED <<job, recorded>>
  /\ UNCHANGED <<request, step, outcome, blamed, spaces, rowVars, retries, sonarVars>>

(* The deferred cleanup of an upload.                                      *)
Return(j) ==
  /\ pc[j] = "returning"
  /\ pc' = [pc EXCEPT ![j] = "done"]
  /\ spaces' = spaces \ {<<j, Shared>>}
  /\ UNCHANGED <<request, step, outcome, blamed, rowVars, jobVars, sonarVars>>

Retry(j) ==
  /\ pc[j] = "done" /\ job[j] = "failed"
  /\ retries < MaxRetries /\ retries' = retries + 1
  /\ pc' = [pc EXCEPT ![j] = "waiting"]
  /\ UNCHANGED <<request, step, outcome, blamed, spaces, rowVars, job, recorded, sonarVars>>

(* The worker dies: nobody removes what it left on the volume.             *)
Crash(j) ==
  /\ pc[j] \notin {"waiting", "done", "crashed"}
  /\ Fault
  /\ pc' = [pc EXCEPT ![j] = "crashed"]
  /\ UNCHANGED <<request, step, outcome, blamed, spaces, row, detail, lost, jobVars, sonarVars>>

RunScanner(j) ==
  \/ \E s \in Scanners : StartScanner(j, s) \/ MarkScannerFinished(j, s)
  \/ TrivyScanner(j) \/ GitleaksScanner(j) \/ SemgrepScanner(j) \/ SyftScanner(j)
  \/ SonarScanner(j) \/ ZapScanner(j)

Sidecar(j) ==
  TrivySidecar(j) \/ GitleaksSidecar(j) \/ SemgrepSidecar(j) \/ SyftSidecar(j) \/ SonarSidecar(j)

ProcessScanJob(j) ==
  MarkProcessing(j) \/ LoadProject(j) \/ Gather(j) \/ RecordOutcome(j) \/ Return(j)

Next ==
  \/ \E j \in Scans : RunScanner(j) \/ Sidecar(j) \/ ProcessScanJob(j) \/ Retry(j) \/ Crash(j)
  \/ ProcessTask

Spec == Init /\ [][Next]_vars

(* Every wait of a scanner ends by a timeout, so that a job's goroutines   *)
(* go on whatever the sidecars and servers do: of these nothing is asked.  *)
FairSpec == Spec /\ \A j \in Scans : WF_vars(RunScanner(j) \/ ProcessScanJob(j))

(***************************************************************************)
(* Properties                                                              *)
(***************************************************************************)
(* Types; a list of issues is no longer than its pages.                    *)
TypeOK ==
  /\ request \in [Scans -> Request]
  /\ pc \in [Scans -> Phases]
  /\ step \in [Scans -> [Scanners -> Steps]]
  /\ outcome \in [Scans -> [Scanners -> {"none", "ok", "error"}]]
  /\ spaces \subseteq Scans \X (Scanners \cup {Shared})
  /\ row \in [Scans -> [Scanners -> {"none", "running", "ok", "error"}]]
  /\ {blamed, detail, lost, recorded} \subseteq [Scans -> SUBSET Scanners]
  /\ job \in [Scans -> {"queued", "processing", "completed", "failed"}]
  /\ tasks \in Seq(Scans) /\ verdicts \in Seq(BOOLEAN)
  /\ Len(verdicts) <= Len(tasks)
  /\ own \in [Scans -> 0..Len(tasks)]
  /\ \A j \in Scans : Len(read[j]) <= IssuePages
  /\ retries \in 0..MaxRetries /\ faults \in 0..MaxFaults

(* A scanner fails by a fault of its own, never by that of another one of  *)
(* the same job (scan_orchestration.go, "os demais continuam"), and a job  *)
(* fails only if every scanner it asked for did: completed, its result     *)
(* calls exactly those succeeded that nothing went wrong with.             *)
NoCollateral ==
  \A j \in Scans :
    /\ \A s \in Scanners : outcome[j][s] = "error" => s \in blamed[j]
    /\ job[j] = "failed" /\ pc[j] = "done" => request[j].tools = blamed[j]
    /\ job[j] = "completed" => recorded[j] = request[j].tools \ blamed[j]

(* The directory a tool works in, or its report is about, is on the volume *)
(* as long as the scanner waits for it; once a job is over there is        *)
(* nothing of it left there, unless its worker died (cloneShallow, "nunca  *)
(* deixa codigo de terceiros no disco do worker alem do necessario").      *)
WorkspaceWhileNeeded ==
  \A j \in Scans :
    /\ \A s \in request[j].tools :
         step[j][s] \in Reading => Space(j, s) \in spaces
    /\ pc[j] = "done" => \A space \in spaces : space[1] # j

(* Every issue a scan reads from the server, which all scans of the target *)
(* share, is of its own analysis or of a later one, never of an analysis   *)
(* before it (sonar_scanner.go, Execute).                                  *)
OwnAnalysis ==
  \A j \in Scans : \A n \in DOMAIN read[j] : own[j] # 0 /\ read[j][n] >= own[j]

(* When a job's goroutines run, they end, and the progress rows then tell  *)
(* what became of every scanner, with no progress left standing; a write   *)
(* that failed is the only excuse (markScannerFinished).                   *)
Told(j) ==
  \A s \in request[j].tools \ lost[j] : row[j][s] = outcome[j][s] /\ s \notin detail[j]
EveryScannerIsTold ==
  \A j \in Scans :
    pc[j] = "running" ~> (pc[j] = "crashed" \/ (pc[j] = "done" /\ Told(j)))
=============================================================================
