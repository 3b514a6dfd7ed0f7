----------------------------- MODULE Findings -----------------------------
(***************************************************************************)
(* What a scan's findings turn into: the history of a project, in which a  *)
(* finding is one fingerprint over all scans of the project, the decisions *)
(* people take about them (triage), and the daily count of what is open    *)
(* (security posture), which a worker computes project by project with     *)
(* four reads for each while scans end and people decide.  Replicas only   *)
(* overwrite each other's row of a day; one computation is modelled.       *)
(***************************************************************************)
EXTENDS Naturals, Sequences, FiniteSets, FiniteSetsExt

CONSTANTS
  Projects,
  Scanners,            \* those registered
  Fingerprints,        \* of findings
  ScannerOf, LabelOf,  \* of a finding: who reports it, how grave he calls it
  Noise,               \* findings in files that match a noise pattern
  maxRecentScans, maxPostureProjects,
  MaxScans,            \* bound: scan jobs
  MaxEvents,           \* bound: scan jobs, decisions, changes of the flag of
                       \* the noise filter, reads and writes that fail
  LastDay              \* bound: days

ASSUME FindingsAssumption ==
  /\ Scanners \subseteq {"trivy", "gitleaks", "semgrep", "sonarqube", "zap"}
  /\ ScannerOf \in [Fingerprints -> Scanners]
  /\ LabelOf \in [Fingerprints -> STRING]
  /\ Noise \subseteq Fingerprints
  /\ {maxRecentScans, maxPostureProjects, LastDay} \subseteq Nat \ {0}
  /\ {MaxScans, MaxEvents} \subseteq Nat

(***************************************************************************)
(* Severities: each scanner's own scale is translated to four levels.      *)
(***************************************************************************)
Severity == {"CRITICAL", "HIGH", "MEDIUM", "LOW"}

(* Mutant: a label that trivy could not classify stays as it is.           *)
NormalizeTrivySeverityRaw(label) == label

NormalizeTrivySeverity(label) ==
  IF label \in {"CRITICAL", "HIGH", "MEDIUM"} THEN label ELSE "LOW"

NormalizeSemgrepSeverity(label) ==
  CASE label = "ERROR" -> "HIGH" [] label = "WARNING" -> "MEDIUM" [] OTHER -> "LOW"

NormalizeSonarSeverity(label) ==
  CASE label \in {"BLOCKER", "CRITICAL"} -> "CRITICAL"
    [] label = "MAJOR" -> "HIGH"
    [] label = "MINOR" -> "MEDIUM"
    [] OTHER -> "LOW"

NormalizeZapRisk(label) == IF label \in {"HIGH", "MEDIUM"} THEN label ELSE "LOW"

SeverityOf(f) ==
  CASE ScannerOf[f] = "trivy" -> NormalizeTrivySeverity(LabelOf[f])
    [] ScannerOf[f] = "semgrep" -> NormalizeSemgrepSeverity(LabelOf[f])
    [] ScannerOf[f] = "sonarqube" -> NormalizeSonarSeverity(LabelOf[f])
    [] ScannerOf[f] = "zap" -> NormalizeZapRisk(LabelOf[f])
    [] OTHER -> "CRITICAL"

VARIABLES
  projects,   \* scanning_projects, oldest first
  scans,      \* scan jobs by created_at, with what their scanners found
  triage,     \* scanning_finding_triage: day on which a decision expires
  noise,      \* flag scanning_noise_filter_enabled
  today,
  at, left,   \* SnapshotSecurityPosture: its next read, projects to go
  listed, still,           \* scans of the project, findings in its newest
  open, triaged,           \* counted so far
  snapshot,   \* scanning_posture_snapshots: the row of today
  skipped,    \* observer: projects whose reads failed
  standing, newest, undecided,  \* observers: see Watch
  events

dataVars == <<projects, scans, triage, noise, today>>
loopVars == <<at, left, listed, still, open, triaged, snapshot, skipped>>
vars == <<dataVars, loopVars, standing, newest, undecided, events>>

Never == 0
Forever == LastDay + 1
Pairs == Projects \X Fingerprints
Empty == [s \in Severity |-> {}]

Init ==
  /\ projects = <<>>
  /\ scans = <<>>
  /\ triage = [p \in Projects |-> [f \in Fingerprints |-> Never]]
  /\ noise = FALSE
  /\ today = 1
  /\ at = "idle" /\ left = <<>> /\ listed = {} /\ still = {}
  /\ open = Empty /\ triaged = {} /\ skipped = {}
  /\ snapshot = Empty
  /\ standing = {} /\ newest = {} /\ undecided = {}
  /\ events = 0

(***************************************************************************)
(* Queries                                                                 *)
(***************************************************************************)
ListRecentScans == {i \in DOMAIN scans : i + maxRecentScans > Len(scans)}
ListProjectScans(p) == {i \in ListRecentScans : scans[i].project = p}

FilterNoise(fs) == IF noise THEN fs \ Noise ELSE fs

ListByScanIDs(ids) == UNION {scans[i].found : i \in {k \in ids : scans[k].saved}}

(* Of the scans that were listed, the newest, whatever its status.         *)
InNewest(ids) == IF ids = {} THEN {} ELSE ListByScanIDs({Max(ids)})
StillPresent(p) == FilterNoise(InNewest(ListProjectScans(p)))

Expired(until) == until < today

Triaged(p, f) == triage[p][f] # Never /\ ~Expired(triage[p][f])

Open(p) == {f \in StillPresent(p) : ~Triaged(p, f)}

(***************************************************************************)
(* Requests of users                                                       *)
(***************************************************************************)
CreateProject(p) ==
  /\ \A i \in DOMAIN projects : projects[i] # p
  /\ projects' = Append(projects, p)
  /\ UNCHANGED <<scans, triage, noise, today, loopVars, events>>

Exists(p) == \E i \in DOMAIN projects : projects[i] = p

Event == events < MaxEvents /\ events' = events + 1

(* A scan outside of any project takes a place among the recent ones, as   *)
(* one of another project does.                                            *)
CreateProjectScanJob(p, tools) ==
  /\ Exists(p)
  /\ Len(scans) < MaxScans /\ Event
  /\ scans' = Append(scans, [project |-> p, tools |-> tools, status |-> "queued",
                             found |-> {}, saved |-> FALSE])
  /\ UNCHANGED <<projects, triage, noise, today, loopVars>>

Decide(row) ==
  /\ Event
  /\ triage' = row
  /\ UNCHANGED <<projects, scans, noise, today, loopVars>>

(* Mutant: the decision is recorded for the fingerprint alone.             *)
UpsertTriageAnywhere(p, f, until) ==
  [q \in Projects |-> [triage[q] EXCEPT ![f] = until]]

UpsertTriage(p, f, until) == [triage EXCEPT ![p][f] = until]

TriageFinding(p, f, until) ==
  /\ Exists(p)
  /\ until > today
  /\ Decide(UpsertTriage(p, f, until))

UntriageFinding(p, f) == Decide([triage EXCEPT ![p][f] = Never])

ToggleNoiseFilter ==
  /\ Event
  /\ noise' = ~noise
  /\ UNCHANGED <<projects, scans, triage, today, loopVars>>

(* The rows of past days are not written again.                            *)
NextDay ==
  /\ today < LastDay
  /\ today' = today + 1
  /\ snapshot' = Empty
  /\ UNCHANGED <<projects, scans, triage, noise, at, left, listed, still, open, triaged>>
  /\ UNCHANGED <<skipped, events>>

(***************************************************************************)
(* The worker: scans                                                       *)
(***************************************************************************)
(* Some of the scanners succeed; their findings are saved by a transaction *)
(* of its own.  No query tells a job that failed from one in the queue.    *)
CompleteScan(i) ==
  /\ scans[i].status = "queued"
  /\ \E ok \in SUBSET scans[i].tools \ {{}} :
     \E found \in SUBSET {f \in Fingerprints : ScannerOf[f] \in ok} :
       scans' = [scans EXCEPT ![i].status = "completed", ![i].tools = ok, ![i].found = found]
  /\ UNCHANGED <<projects, triage, noise, today, loopVars, events>>

(* Mutant: the findings of a scan are saved before its outcome.            *)
PersistBeforeOutcome(i) ==
  /\ ~scans[i].saved
  /\ scans' = [scans EXCEPT ![i].saved = TRUE]
  /\ UNCHANGED <<projects, triage, noise, today, loopVars, events>>

PersistCompletion(i) ==
  /\ scans[i].status = "completed" /\ ~scans[i].saved
  /\ scans' = [scans EXCEPT ![i].saved = TRUE]
  /\ UNCHANGED <<projects, triage, noise, today, loopVars, events>>

(***************************************************************************)
(* The worker: a snapshot of the posture                                   *)
(***************************************************************************)
ListPostureProjects ==
  LET n == Len(projects)
      most == IF n < maxPostureProjects THEN n ELSE maxPostureProjects
  IN  [k \in 1..most |-> projects[n + 1 - k]]

SnapshotSecurityPosture ==
  /\ at = "idle"
  /\ at' = "scans"
  /\ left' = ListPostureProjects
  /\ open' = Empty /\ triaged' = {} /\ skipped' = {}
  /\ UNCHANGED <<dataVars, listed, still, snapshot, events>>

NextProject ==
  /\ at' = "scans"
  /\ left' = Tail(left)
  /\ still' = {}

(* A project without scans has no history.                                 *)
ReadScans ==
  /\ at = "scans" /\ left # <<>>
  /\ listed' = ListProjectScans(Head(left))
  /\ IF listed' = {} THEN NextProject ELSE at' = "findings" /\ UNCHANGED <<left, still>>
  /\ UNCHANGED <<dataVars, open, triaged, snapshot, skipped, events>>

ReadFindings ==
  /\ at = "findings"
  /\ still' = InNewest(listed)
  /\ listed' = {}
  /\ at' = "flag"
  /\ UNCHANGED <<dataVars, left, open, triaged, snapshot, skipped, events>>

(* A flag that cannot be read counts as off.                               *)
ReadNoiseFlag ==
  /\ at = "flag"
  /\ \/ still' = FilterNoise(still) /\ UNCHANGED events
     \/ Event /\ UNCHANGED still
  /\ at' = "triage"
  /\ UNCHANGED <<dataVars, left, listed, open, triaged, snapshot, skipped>>

ReadTriage ==
  LET p == Head(left)
      undone == {f \in still : ~Triaged(p, f)} IN
  /\ at = "triage"
  /\ open' = [s \in Severity |-> open[s] \cup {<<p, f>> : f \in {g \in undone : SeverityOf(g) = s}}]
  /\ triaged' = triaged \cup {<<p, f>> : f \in still \ undone}
  /\ NextProject
  /\ UNCHANGED <<dataVars, listed, snapshot, skipped, events>>

SkipProject ==
  /\ at \in {"scans", "findings", "triage"} /\ left # <<>>
  /\ Event
  /\ skipped' = skipped \cup {Head(left)}
  /\ NextProject
  /\ listed' = {}
  /\ UNCHANGED <<dataVars, open, triaged, snapshot>>

(* The row holds how many there are; the day is that of the write.         *)
SaveSnapshot ==
  /\ at = "scans" /\ left = <<>>
  /\ at' = "idle"
  /\ \/ snapshot' = open /\ UNCHANGED events
     \/ Event /\ UNCHANGED snapshot
  /\ open' = Empty /\ triaged' = {} /\ skipped' = {}
  /\ UNCHANGED <<dataVars, left, listed, still>>

(***************************************************************************)
(* While a snapshot is computed: the findings of its projects that were    *)
(* open all along, the scans that were the newest of their project at some *)
(* time, the findings that were undecided at some time.                    *)
(***************************************************************************)
InScope == {left[k] : k \in DOMAIN left}
OpenIn(ps) == {pf \in ps \X Fingerprints : pf[2] \in Open(pf[1])}
NewestScans == {Max(ListProjectScans(p)) : p \in {q \in Projects : ListProjectScans(q) # {}}}
Undecided == {pf \in Pairs : ~Triaged(pf[1], pf[2])}

Watch ==
  IF at' = "idle"
  THEN standing' = {} /\ newest' = {} /\ undecided' = {}
  ELSE /\ standing' = IF at = "idle" THEN OpenIn(InScope)' ELSE standing \cap OpenIn(Projects)'
       /\ newest' = newest \cup NewestScans'
       /\ undecided' = undecided \cup Undecided'

Request ==
  \/ \E p \in Projects : CreateProject(p)
  \/ \E p \in Projects, tools \in SUBSET Scanners \ {{}} : CreateProjectScanJob(p, tools)
  \/ \E p \in Projects, f \in Fingerprints, until \in 1..Forever : TriageFinding(p, f, until)
  \/ \E p \in Projects, f \in Fingerprints : UntriageFinding(p, f)
  \/ ToggleNoiseFilter

Scan == \E i \in DOMAIN scans : CompleteScan(i) \/ PersistCompletion(i)

Posture ==
  \/ SnapshotSecurityPosture \/ ReadScans \/ ReadFindings \/ ReadNoiseFlag \/ ReadTriage
  \/ SkipProject \/ SaveSnapshot

Next == (Request \/ NextDay \/ Scan \/ Posture) /\ Watch

Spec == Init /\ [][Next]_vars

(***************************************************************************)
(* Properties                                                              *)
(***************************************************************************)
(* Types; every finding counted is in one of the four levels.              *)
TypeOK ==
  /\ \A i \in DOMAIN projects : projects[i] \in Projects
  /\ \A i \in DOMAIN scans :
       /\ scans[i].project \in Projects
       /\ scans[i].status \in {"queued", "completed"}
       /\ scans[i].found \subseteq Fingerprints
       /\ scans[i].saved => scans[i].status = "completed"
  /\ triage \in [Projects -> [Fingerprints -> Never..Forever]]
  /\ noise \in BOOLEAN /\ today \in 1..LastDay
  /\ at \in {"idle", "scans", "findings", "flag", "triage"}
  /\ open \in [Severity -> SUBSET Pairs] /\ triaged \subseteq Pairs
  /\ snapshot \in [Severity -> SUBSET Pairs]
  /\ at \in {"findings", "flag", "triage"} => left # <<>>
  /\ at = "findings" => listed # {}

(* An open finding ceases to be open only by a decision about this very    *)
(* finding of this project, by a new scan of the project, because the scan *)
(* that found it is no longer among the recent ones, or by the noise       *)
(* filter; time alone only reopens (domain.Triage: the scope is project    *)
(* and fingerprint; an expired decision counts as open again).             *)
OpenUntilDecided ==
  [][\A p \in Projects : \A f \in Open(p) \ Open(p)' :
       \/ triage' # triage /\ triage' = [triage EXCEPT ![p][f] = triage'[p][f]]
       \/ f \in Noise /\ noise' # noise
       \/ Len(scans') > Len(scans)
            /\ (scans'[Len(scans')].project = p \/ ListProjectScans(p)' = {})]_vars

(* The row of a day misses no finding that was open while it was computed, *)
(* except of projects that could not be read, and counts none that was     *)
(* decided all the while or is of no scan that was the newest (posture.go: *)
(* the count is of what is open now).                                      *)
Counted(row) == UNION {row[s] : s \in Severity}
SnapshotHonest ==
  [][at # "idle" /\ at' = "idle" /\ UNCHANGED events =>
       /\ \A pf \in standing : pf[1] \notin skipped => pf \in Counted(snapshot')
       /\ \A pf \in Counted(snapshot') :
            /\ pf \in undecided
            /\ \E i \in newest : scans[i].project = pf[1] /\ pf[2] \in scans[i].found]_vars
=============================================================================
