--------------------------- MODULE FindingsProofs ---------------------------
(***************************************************************************)
(* What happens to findings, for any projects, scanners and fingerprints,  *)
(* any window of recent scans and any number of scans, decisions and days. *)
(***************************************************************************)
EXTENDS Findings, FiniteSetTheorems, WellFoundedInduction, TLAPS

(***************************************************************************)
(* Types                                                                   *)
(***************************************************************************)
ScanRows ==
  [project : Projects, tools : SUBSET Scanners, status : {"queued", "completed"},
   found : SUBSET Fingerprints, saved : BOOLEAN]

(* The rows: only what a completed scan found is saved.                    *)
DataTyped ==
  /\ projects \in Seq(Projects)
  /\ scans \in Seq(ScanRows)
  /\ \A i \in DOMAIN scans : scans[i].saved => scans[i].status = "completed"
  /\ triage \in [Projects -> [Fingerprints -> Never..Forever]]
  /\ noise \in BOOLEAN /\ today \in 1..LastDay

LoopTyped ==
  /\ at \in {"idle", "scans", "findings", "flag", "triage"}
  /\ left \in Seq(Projects)
  /\ still \subseteq Fingerprints
  /\ open \in [Severity -> SUBSET Pairs] /\ triaged \subseteq Pairs
  /\ snapshot \in [Severity -> SUBSET Pairs]
  /\ at \in {"findings", "flag", "triage"} => left # <<>>
  /\ at = "findings" => listed # {} /\ listed \subseteq DOMAIN scans

FindingsTyped == DataTyped /\ LoopTyped

LEMMA TypedAtFirst == Init => FindingsTyped
<1>1. 1 \in 1..LastDay /\ Never \in Never..Forever
  BY FindingsAssumption DEF Never, Forever
<1>2. <<>> \in Seq(Projects) /\ <<>> \in Seq(ScanRows) /\ DOMAIN <<>> = {}
  OBVIOUS
<1>3. Init => DataTyped
  <2> SUFFICES ASSUME Init PROVE DataTyped
    OBVIOUS
  <2>1. projects \in Seq(Projects) /\ scans \in Seq(ScanRows) /\ DOMAIN scans = {}
    BY <1>2 DEF Init
  <2>2. triage \in [Projects -> [Fingerprints -> Never..Forever]]
    BY <1>1 DEF Init
  <2> QED BY <1>1, <2>1, <2>2 DEF Init, DataTyped
<1>4. Empty \in [Severity -> SUBSET Pairs]
  BY DEF Empty
<1>5. Init => LoopTyped
  BY <1>2, <1>4 DEF Init, LoopTyped
<1> QED BY <1>3, <1>5 DEF FindingsTyped

(* A query returns fingerprints.                                           *)
LEMMA QueryTyped ==
  ASSUME scans \in Seq(ScanRows), NEW ids
  PROVE  ids \subseteq DOMAIN scans =>
           ListByScanIDs(ids) \subseteq Fingerprints
<1> SUFFICES ASSUME ids \subseteq DOMAIN scans, NEW f \in ListByScanIDs(ids)
             PROVE  f \in Fingerprints
  OBVIOUS
<1>1. PICK i \in ids : f \in scans[i].found
  BY DEF ListByScanIDs
<1>2. scans[i] \in ScanRows
  BY <1>1
<1> QED BY <1>1, <1>2 DEF ScanRows

(***************************************************************************)
(* What a step does to the rows                                            *)
(***************************************************************************)
LEMMA CreateScanTyped ==
  ASSUME DataTyped, NEW p \in Projects, NEW tools \in SUBSET Scanners,
         CreateProjectScanJob(p, tools)
  PROVE  DataTyped'
<1> DEFINE row == [project |-> p, tools |-> tools, status |-> "queued",
                   found |-> {}, saved |-> FALSE]
<1>1. row \in ScanRows
  BY DEF ScanRows
<1>2. scans' = Append(scans, row) /\ scans' \in Seq(ScanRows)
  BY <1>1 DEF CreateProjectScanJob, DataTyped
<1>3. ASSUME NEW i \in DOMAIN scans', scans'[i].saved
      PROVE  scans'[i].status = "completed"
  <2>1. i \in 1..Len(scans) + 1
    BY <1>2, <1>3 DEF DataTyped
  <2>2. i # Len(scans) + 1
    BY <1>2, <1>3 DEF DataTyped
  <2>3. i \in DOMAIN scans /\ scans'[i] = scans[i]
    BY <1>2, <2>1, <2>2 DEF DataTyped
  <2> QED BY <1>3, <2>3 DEF DataTyped
<1> QED BY <1>2, <1>3 DEF CreateProjectScanJob, DataTyped

LEMMA DecideTyped ==
  ASSUME DataTyped, NEW p \in Projects, NEW f \in Fingerprints,
         \/ UntriageFinding(p, f)
         \/ \E until \in 1..Forever : TriageFinding(p, f, until)
  PROVE  DataTyped' /\ \E until \in Never..Forever : triage' = [triage EXCEPT ![p][f] = until]
<1>1. Never \in Never..Forever /\ 1..Forever \subseteq Never..Forever
  BY FindingsAssumption DEF Never, Forever
<1>2. PICK until \in Never..Forever : triage' = [triage EXCEPT ![p][f] = until]
  BY <1>1 DEF UntriageFinding, TriageFinding, Decide, UpsertTriage
<1>3. triage' \in [Projects -> [Fingerprints -> Never..Forever]]
  BY <1>2 DEF DataTyped
<1>4. UNCHANGED <<projects, scans, noise, today>>
  BY DEF UntriageFinding, TriageFinding, Decide
<1> QED BY <1>2, <1>3, <1>4 DEF DataTyped

(* The worker changes one scan: it is completed, or its findings saved.    *)
ScanStep(i) ==
  /\ scans[i].status = "queued" \/ ~scans[i].saved
  /\ scans' \in Seq(ScanRows) /\ DOMAIN scans' = DOMAIN scans
  /\ \A k \in DOMAIN scans : k # i => scans'[k] = scans[k]
  /\ scans'[i].project = scans[i].project
  /\ scans'[i].status = "completed"

LEMMA CompleteScanStep ==
  ASSUME DataTyped, NEW i \in DOMAIN scans, CompleteScan(i)
  PROVE  ScanStep(i) /\ scans'[i].saved = scans[i].saved
<1>0. PICK ok \in SUBSET scans[i].tools \ {{}} :
        \E found \in SUBSET {f \in Fingerprints : ScannerOf[f] \in ok} :
          scans' = [scans EXCEPT ![i].status = "completed", ![i].tools = ok, ![i].found = found]
  BY DEF CompleteScan
<1>1. PICK found \in SUBSET {f \in Fingerprints : ScannerOf[f] \in ok} :
        scans' = [scans EXCEPT ![i].status = "completed", ![i].tools = ok, ![i].found = found]
  BY <1>0
<1>2. scans[i] \in ScanRows
  BY DEF DataTyped
<1> DEFINE row == [scans[i] EXCEPT !.status = "completed", !.tools = ok, !.found = found]
<1>3. scans' = [scans EXCEPT ![i] = row]
  BY <1>1, <1>2 DEF ScanRows, DataTyped
<1>4. row \in ScanRows /\ row.project = scans[i].project /\ row.status = "completed"
      /\ row.saved = scans[i].saved
  BY <1>2 DEF ScanRows
<1> HIDE DEF row
<1>5. scans' \in Seq(ScanRows) /\ DOMAIN scans' = DOMAIN scans /\ scans'[i] = row
  BY <1>3, <1>4 DEF DataTyped
<1>6. \A k \in DOMAIN scans : k # i => scans'[k] = scans[k]
  BY <1>3 DEF DataTyped
<1> QED BY <1>4, <1>5, <1>6 DEF ScanStep, CompleteScan

LEMMA PersistStep ==
  ASSUME DataTyped, NEW i \in DOMAIN scans, PersistCompletion(i)
  PROVE  ScanStep(i) /\ scans'[i].saved /\ scans'[i].found = scans[i].found
<1>1. scans[i] \in ScanRows
  BY DEF DataTyped
<1> DEFINE row == [scans[i] EXCEPT !.saved = TRUE]
<1>2. scans' = [scans EXCEPT ![i] = row]
  BY <1>1 DEF PersistCompletion, ScanRows, DataTyped
<1>3. row \in ScanRows /\ row.project = scans[i].project /\ row.status = "completed"
      /\ row.saved /\ row.found = scans[i].found
  BY <1>1 DEF ScanRows, PersistCompletion
<1> HIDE DEF row
<1>4. scans' \in Seq(ScanRows) /\ DOMAIN scans' = DOMAIN scans /\ scans'[i] = row
  BY <1>2, <1>3 DEF DataTyped
<1>5. \A k \in DOMAIN scans : k # i => scans'[k] = scans[k]
  BY <1>2 DEF DataTyped
<1> QED BY <1>3, <1>4, <1>5 DEF ScanStep, PersistCompletion

LEMMA RowsTyped ==
  ASSUME DataTyped, Next
  PROVE  DataTyped'
<1>1. ASSUME NEW p \in Projects, CreateProject(p)
      PROVE  DataTyped'
  BY <1>1 DEF CreateProject, DataTyped
<1>2. ASSUME NEW p \in Projects, NEW tools \in SUBSET Scanners \ {{}},
             CreateProjectScanJob(p, tools)
      PROVE  DataTyped'
  BY <1>2, CreateScanTyped
<1>3. ASSUME NEW p \in Projects, NEW f \in Fingerprints,
             \/ UntriageFinding(p, f)
             \/ \E until \in 1..Forever : TriageFinding(p, f, until)
      PROVE  DataTyped'
  BY <1>3, DecideTyped
<1>4. CASE ToggleNoiseFilter
  <2>1. noise' \in BOOLEAN
    BY <1>4 DEF ToggleNoiseFilter
  <2> QED BY <1>4, <2>1 DEF ToggleNoiseFilter, DataTyped
<1>5. CASE NextDay
  <2>1. today' \in 1..LastDay
    BY <1>5, FindingsAssumption DEF NextDay, DataTyped
  <2> QED BY <1>5, <2>1 DEF NextDay, DataTyped
<1>6. ASSUME NEW i \in DOMAIN scans, CompleteScan(i) \/ PersistCompletion(i)
      PROVE  DataTyped'
  <2>1. ScanStep(i)
    BY <1>6, CompleteScanStep, PersistStep
  <2>2. \A k \in DOMAIN scans' : scans'[k].saved => scans'[k].status = "completed"
    BY <2>1 DEF ScanStep, DataTyped
  <2>3. UNCHANGED <<projects, triage, noise, today>>
    BY <1>6 DEF CompleteScan, PersistCompletion
  <2> QED BY <2>1, <2>2, <2>3 DEF ScanStep, DataTyped
<1>7. CASE Posture
  <2>1. UNCHANGED dataVars
    BY <1>7 DEF Posture, SnapshotSecurityPosture, ReadScans, ReadFindings, ReadNoiseFlag,
       ReadTriage, SkipProject, SaveSnapshot
  <2> QED BY <2>1 DEF dataVars, DataTyped
<1> QED
  BY <1>1, <1>2, <1>3, <1>4, <1>5, <1>6, <1>7 DEF Next, Request, Scan

(* Scans are only added, stay in their project, and what is saved stays as *)
(* it is.                                                                  *)
ScanKept(i) ==
  /\ i \in DOMAIN scans'
  /\ scans'[i].project = scans[i].project
  /\ scans[i].saved => scans'[i].saved /\ scans'[i].found = scans[i].found

LEMMA ScansKept ==
  ASSUME DataTyped, Next, NEW i \in DOMAIN scans
  PROVE  ScanKept(i)
<1>1. ASSUME NEW p \in Projects, NEW tools \in SUBSET Scanners \ {{}},
             CreateProjectScanJob(p, tools)
      PROVE  ScanKept(i)
  <2>1. i \in DOMAIN scans' /\ scans'[i] = scans[i]
    BY <1>1 DEF CreateProjectScanJob, DataTyped
  <2> QED BY <2>1 DEF ScanKept
<1>2. ASSUME NEW k \in DOMAIN scans, CompleteScan(k)
      PROVE  ScanKept(i)
  BY <1>2, CompleteScanStep DEF CompleteScan, ScanStep, ScanKept, DataTyped
<1>3. ASSUME NEW k \in DOMAIN scans, PersistCompletion(k)
      PROVE  ScanKept(i)
  BY <1>3, PersistStep DEF ScanStep, ScanKept
<1>4. CASE UNCHANGED scans
  BY <1>4 DEF ScanKept
<1>5. UNCHANGED scans \/ ~UNCHANGED scans
  OBVIOUS
<1> QED
  BY <1>1, <1>2, <1>3, <1>4 DEF Next, Request, Scan, Posture, CreateProject, TriageFinding,
     UntriageFinding, Decide, ToggleNoiseFilter, NextDay, SnapshotSecurityPosture, ReadScans,
     ReadFindings, ReadNoiseFlag, ReadTriage, SkipProject, SaveSnapshot, dataVars

(***************************************************************************)
(* The newest of some scans                                                *)
(***************************************************************************)
LEMMA LeastNumber ==
  ASSUME NEW S \in SUBSET Nat, S # {}
  PROVE  \E m \in S : \A k \in S : m <= k
<1>1. PICK m \in S : \A k \in S : ~(<<k, m>> \in OpToRel(<, Nat))
  BY NatLessThanWellFounded, WFMin
<1>2. \A k \in S : ~(k < m)
  BY <1>1 DEF OpToRel
<1> QED BY <1>2

LEMMA MaxIsGreatest ==
  ASSUME NEW n \in Nat, NEW S \in SUBSET (1..n), S # {}
  PROVE  Max(S) \in S /\ \A y \in S : y <= Max(S)
<1> DEFINE T == {k \in Nat : n - k \in S}
<1>0. \A y \in S : n - y \in Nat /\ n - (n - y) = y
  OBVIOUS
<1>1. T \in SUBSET Nat /\ T # {}
  BY <1>0
<1>2. PICK m \in T : \A k \in T : m <= k
  <2> HIDE DEF T
  <2> QED BY <1>1, LeastNumber
<1>3. PICK x \in S : x = n - m
  OBVIOUS
<1>4. ASSUME NEW y \in S PROVE x >= y
  <2>1. m <= n - y
    BY <1>0, <1>2
  <2> QED BY <1>3, <2>1
<1> DEFINE Greatest(z) == \A y \in S : z >= y
<1>5. Greatest(x) /\ Max(S) = CHOOSE z \in S : Greatest(z)
  BY <1>4 DEF Max
<1>6. Max(S) \in S /\ Greatest(Max(S))
  <2> HIDE DEF Greatest
  <2> QED BY <1>3, <1>5
<1> QED BY <1>6

LEMMA ListedScans ==
  ASSUME DataTyped, NEW p
  PROVE  /\ ListProjectScans(p) \subseteq DOMAIN scans
         /\ \A i \in ListProjectScans(p) : scans[i].project = p
BY DEF ListProjectScans, ListRecentScans

LEMMA NewestListed ==
  ASSUME DataTyped, NEW ids \in SUBSET DOMAIN scans, ids # {}
  PROVE  Max(ids) \in ids /\ \A i \in ids : i <= Max(ids)
<1>1. DOMAIN scans = 1..Len(scans) /\ Len(scans) \in Nat
  BY DEF DataTyped
<1> QED BY <1>1, MaxIsGreatest

LEMMA InNewestTyped ==
  ASSUME DataTyped, NEW ids \in SUBSET DOMAIN scans
  PROVE  /\ InNewest(ids) \subseteq Fingerprints
         /\ \A f \in InNewest(ids) : /\ ids # {}
                                     /\ scans[Max(ids)].saved
                                     /\ f \in scans[Max(ids)].found
<1>1. CASE ids = {}
  BY <1>1 DEF InNewest
<1>2. CASE ids # {}
  <2>1. Max(ids) \in ids
    BY <1>2, NewestListed
  <2>2. InNewest(ids) = ListByScanIDs({Max(ids)})
    BY <1>2 DEF InNewest
  <2>3. InNewest(ids) \subseteq Fingerprints
    BY <2>1, <2>2, QueryTyped DEF DataTyped
  <2> QED BY <1>2, <2>1, <2>2, <2>3 DEF ListByScanIDs
<1> QED BY <1>1, <1>2

(***************************************************************************)
(* What a step does to the computation of a snapshot                       *)
(***************************************************************************)
LEMMA ListTyped ==
  ASSUME projects \in Seq(Projects)
  PROVE  ListPostureProjects \in Seq(Projects)
<1> DEFINE most == IF Len(projects) < maxPostureProjects THEN Len(projects)
                   ELSE maxPostureProjects
<1>1. most \in Nat /\ most <= Len(projects)
  BY FindingsAssumption
<1>2. \A k \in 1..most : Len(projects) + 1 - k \in DOMAIN projects
  BY <1>1
<1>3. ListPostureProjects = [k \in 1..most |-> projects[Len(projects) + 1 - k]]
  BY DEF ListPostureProjects
<1> HIDE DEF most
<1> QED BY <1>1, <1>2, <1>3

LEMMA RestTyped ==
  ASSUME left \in Seq(Projects), left # <<>>
  PROVE  /\ Tail(left) \in Seq(Projects)
         /\ Head(left) \in Projects
         /\ InScope = {Head(left)} \cup {Tail(left)[k] : k \in DOMAIN Tail(left)}
<1>1. Tail(left) \in Seq(Projects) /\ Head(left) \in Projects /\ Head(left) = left[1]
  OBVIOUS
<1>2. /\ Len(left) \in Nat \ {0} /\ DOMAIN left = 1..Len(left)
      /\ DOMAIN Tail(left) = 1..(Len(left) - 1)
      /\ \A k \in 1..(Len(left) - 1) : Tail(left)[k] = left[k + 1]
  OBVIOUS
<1>3. ASSUME NEW k \in DOMAIN left
      PROVE  left[k] \in {Head(left)} \cup {Tail(left)[i] : i \in DOMAIN Tail(left)}
  <2>1. CASE k = 1
    BY <1>1, <2>1
  <2>2. CASE k # 1
    <3>1. k - 1 \in DOMAIN Tail(left) /\ Tail(left)[k - 1] = left[k]
      BY <1>2, <2>2
    <3> QED BY <3>1
  <2> QED BY <2>1, <2>2
<1>4. \A k \in DOMAIN Tail(left) : k + 1 \in DOMAIN left /\ Tail(left)[k] = left[k + 1]
  BY <1>2
<1>5. 1 \in DOMAIN left
  BY <1>2
<1> QED BY <1>1, <1>3, <1>4, <1>5 DEF InScope

LEMMA SnapshotsTyped ==
  ASSUME FindingsTyped, Next, Posture
  PROVE  LoopTyped'
<1> USE DEF FindingsTyped, LoopTyped
<1>1. UNCHANGED dataVars
  BY DEF Posture, SnapshotSecurityPosture, ReadScans, ReadFindings, ReadNoiseFlag,
     ReadTriage, SkipProject, SaveSnapshot
<1>2. Empty \in [Severity -> SUBSET Pairs]
  BY DEF Empty
<1>3. CASE SnapshotSecurityPosture
  BY <1>1, <1>2, <1>3, ListTyped DEF SnapshotSecurityPosture, DataTyped
<1>4. CASE ReadScans
  <2>1. listed' \subseteq DOMAIN scans
    BY <1>4, ListedScans DEF ReadScans
  <2> QED BY <1>1, <1>4, <2>1, RestTyped DEF ReadScans, NextProject, dataVars
<1>5. CASE ReadFindings
  <2>1. still' \subseteq Fingerprints
    BY <1>5, InNewestTyped DEF ReadFindings
  <2> QED BY <1>1, <1>5, <2>1 DEF ReadFindings, dataVars
<1>6. CASE ReadNoiseFlag
  BY <1>6 DEF ReadNoiseFlag, FilterNoise
<1>7. CASE ReadTriage
  <2> DEFINE undone == {f \in still : ~Triaged(Head(left), f)}
             new(s) == {<<Head(left), f>> : f \in {g \in undone : SeverityOf(g) = s}}
  <2>1. Head(left) \in Projects /\ Tail(left) \in Seq(Projects)
    BY <1>7, RestTyped DEF ReadTriage
  <2>2. \A s \in Severity : open[s] \cup new(s) \subseteq Pairs
    BY <2>1 DEF Pairs
  <2>3. open' = [s \in Severity |-> open[s] \cup new(s)]
    BY <1>7 DEF ReadTriage
  <2>4. open' \in [Severity -> SUBSET Pairs]
    <3> HIDE DEF new
    <3> QED BY <2>2, <2>3
  <2>5. triaged' \subseteq Pairs
    BY <1>7, <2>1 DEF ReadTriage, Pairs
  <2>6. at' = "scans" /\ left' = Tail(left) /\ still' = {} /\ UNCHANGED snapshot
    BY <1>7 DEF ReadTriage, NextProject
  <2> HIDE DEF undone, new
  <2> QED BY <2>1, <2>4, <2>5, <2>6
<1>8. CASE SkipProject
  BY <1>1, <1>8, RestTyped DEF SkipProject, NextProject
<1>9. CASE SaveSnapshot
  BY <1>1, <1>2, <1>9 DEF SaveSnapshot
<1> QED
  BY <1>3, <1>4, <1>5, <1>7, <1>8, <1>9, <1>6 DEF Posture

LEMMA TypedStep ==
  ASSUME FindingsTyped, [Next]_vars
  PROVE  FindingsTyped'
<1>1. CASE Next
  <2>1. DataTyped'
    BY <1>1, RowsTyped DEF FindingsTyped
  <2>2. DOMAIN scans \subseteq DOMAIN scans'
    BY <1>1, ScansKept DEF FindingsTyped, ScanKept
  <2>3. ASSUME UNCHANGED loopVars PROVE LoopTyped'
    BY <2>2, <2>3 DEF loopVars, FindingsTyped, LoopTyped
  <2>4. ASSUME NextDay PROVE LoopTyped'
    <3>1. Empty \in [Severity -> SUBSET Pairs]
      BY DEF Empty
    <3> QED BY <2>4, <3>1 DEF NextDay, FindingsTyped, LoopTyped
  <2>5. ASSUME Posture PROVE LoopTyped'
    BY <1>1, <2>5, SnapshotsTyped
  <2>6. UNCHANGED loopVars \/ NextDay \/ Posture
    BY <1>1 DEF Next, Request, Scan, CreateProject, CreateProjectScanJob, TriageFinding,
       UntriageFinding, Decide, ToggleNoiseFilter, CompleteScan, PersistCompletion
  <2>7. LoopTyped'
    BY <2>3, <2>4, <2>5, <2>6 DEF FindingsTyped
  <2> QED BY <2>1, <2>7 DEF FindingsTyped
<1>2. CASE UNCHANGED vars
  BY <1>2 DEF vars, dataVars, loopVars, FindingsTyped, DataTyped, LoopTyped
<1> QED BY <1>1, <1>2

LEMMA AlwaysTyped == Spec => []FindingsTyped
BY TypedAtFirst, TypedStep, PTL DEF Spec

(* Every reachable state is well typed: only completed scans are saved,    *)
(* decisions expire within the bound, and a project is read only while it  *)
(* is the next of the computation (handlers of modules/scanning).          *)
THEOREM TypeCorrect == Spec => []TypeOK
<1>1. FindingsTyped => TypeOK
  <2> SUFFICES ASSUME FindingsTyped PROVE TypeOK
    OBVIOUS
  <2>1. \A i \in DOMAIN projects : projects[i] \in Projects
    BY DEF FindingsTyped, DataTyped
  <2>2. \A i \in DOMAIN scans : /\ scans[i] \in ScanRows
                                /\ scans[i].saved => scans[i].status = "completed"
    BY DEF FindingsTyped, DataTyped
  <2>3. \A i \in DOMAIN scans :
          /\ scans[i].project \in Projects
          /\ scans[i].status \in {"queued", "completed"}
          /\ scans[i].found \subseteq Fingerprints
    BY <2>2 DEF ScanRows
  <2>4. /\ triage \in [Projects -> [Fingerprints -> Never..Forever]]
        /\ noise \in BOOLEAN /\ today \in 1..LastDay
    BY DEF FindingsTyped, DataTyped
  <2> QED BY <2>1, <2>2, <2>3, <2>4 DEF TypeOK, FindingsTyped, LoopTyped
<1> QED BY <1>1, AlwaysTyped, PTL

(***************************************************************************)
(* What is open                                                            *)
(***************************************************************************)
(* The newest scan that is listed for the project has saved the finding.   *)
Present(p, f) ==
  /\ ListProjectScans(p) # {}
  /\ scans[Max(ListProjectScans(p))].saved
  /\ f \in scans[Max(ListProjectScans(p))].found

Hidden(f) == noise /\ f \in Noise

LEMMA OpenMeans ==
  ASSUME NEW p, NEW f
  PROVE  /\ f \in Open(p) <=> Present(p, f) /\ ~Hidden(f) /\ ~Triaged(p, f)
         /\ f \in Open(p)' <=> Present(p, f)' /\ ~Hidden(f)' /\ ~Triaged(p, f)'
<1>1. f \in StillPresent(p) <=> Present(p, f) /\ ~Hidden(f)
  BY DEF StillPresent, InNewest, ListByScanIDs, FilterNoise, Present, Hidden
<1>2. f \in StillPresent(p)' <=> Present(p, f)' /\ ~Hidden(f)'
  BY DEF StillPresent, InNewest, ListByScanIDs, FilterNoise, Present, Hidden
<1> QED BY <1>1, <1>2 DEF Open

(* The same scans are listed, and what the newest had saved it still has.  *)
LEMMA StaysPresent ==
  ASSUME DataTyped, Next, DOMAIN scans' = DOMAIN scans, NEW p, NEW f, Present(p, f)
  PROVE  Present(p, f)'
<1>1. scans \in Seq(ScanRows) /\ scans' \in Seq(ScanRows)
  BY RowsTyped DEF DataTyped
<1>2. Len(scans') = Len(scans)
  BY <1>1
<1>3. \A i \in DOMAIN scans : ScanKept(i)
  BY ScansKept
<1>4. ListProjectScans(p)' = ListProjectScans(p)
  BY <1>2, <1>3 DEF ListProjectScans, ListRecentScans, ScanKept
<1>5. Max(ListProjectScans(p)) \in DOMAIN scans
  BY ListedScans, NewestListed DEF Present
<1> QED BY <1>3, <1>4, <1>5 DEF Present, ScanKept

(* A new scan of another project pushes the scans of this one out of the   *)
(* window from the oldest on: as long as one is left, the newest is.       *)
LEMMA OtherProjectsScan ==
  ASSUME DataTyped, NEW p, NEW q \in Projects, q # p, NEW tools \in SUBSET Scanners,
         CreateProjectScanJob(q, tools), NEW f, Present(p, f), ListProjectScans(p)' # {}
  PROVE  Present(p, f)'
<1> DEFINE n == Len(scans)
           now1 == ListProjectScans(p)
           then == ListProjectScans(p)'
<1>1. /\ n \in Nat /\ DOMAIN scans = 1..n /\ DOMAIN scans' = 1..(n + 1)
      /\ Len(scans') = n + 1 /\ scans'[n + 1].project = q
      /\ \A i \in 1..n : scans'[i] = scans[i]
  BY DEF CreateProjectScanJob, DataTyped
<1>2. maxRecentScans \in Nat
  BY FindingsAssumption
<1>3. now1 = {i \in 1..n : i + maxRecentScans > n /\ scans[i].project = p}
  BY <1>1 DEF ListProjectScans, ListRecentScans
<1>4. then = {i \in 1..n : i + maxRecentScans > n + 1 /\ scans[i].project = p}
  BY <1>1 DEF ListProjectScans, ListRecentScans
<1> HIDE DEF n, now1, then
<1>5. then \subseteq now1 /\ now1 # {}
  BY <1>1, <1>2, <1>3, <1>4 DEF Present, now1
<1>6. Max(now1) \in now1 /\ \A i \in now1 : i <= Max(now1)
  BY <1>1, <1>3, <1>5, MaxIsGreatest
<1>7. Max(then) \in then /\ \A i \in then : i <= Max(then)
  BY <1>1, <1>4, MaxIsGreatest DEF then
<1>8. Max(now1) \in then
  BY <1>1, <1>2, <1>3, <1>4, <1>5, <1>6, <1>7
<1>9. Max(then) = Max(now1)
  BY <1>1, <1>3, <1>4, <1>5, <1>6, <1>7, <1>8
<1>10. Max(now1) \in 1..n
  BY <1>3, <1>6
<1> QED BY <1>1, <1>8, <1>9, <1>10 DEF Present, now1, then

Accounted(p, f) ==
  \/ triage' # triage /\ triage' = [triage EXCEPT ![p][f] = triage'[p][f]]
  \/ f \in Noise /\ noise' # noise
  \/ Len(scans') > Len(scans)
       /\ (scans'[Len(scans')].project = p \/ ListProjectScans(p)' = {})

LEMMA ScanClosesOwn ==
  ASSUME DataTyped, NEW q \in Projects, NEW tools \in SUBSET Scanners,
         CreateProjectScanJob(q, tools),
         NEW p \in Projects, NEW f \in Open(p), f \notin Open(p)'
  PROVE  Accounted(p, f)
<1>1. Present(p, f) /\ ~Hidden(f) /\ ~Triaged(p, f)
  BY OpenMeans
<1>2. UNCHANGED <<triage, noise, today>>
  BY DEF CreateProjectScanJob
<1>3. ~Hidden(f)' /\ ~Triaged(p, f)'
  BY <1>1, <1>2 DEF Hidden, Triaged, Expired
<1>4. ~Present(p, f)'
  BY <1>3, OpenMeans
<1>5. Len(scans') = Len(scans) + 1 /\ scans'[Len(scans')].project = q /\ Len(scans) \in Nat
  BY DEF CreateProjectScanJob, DataTyped
<1>6. q = p \/ ListProjectScans(p)' = {}
  BY <1>1, <1>4, OtherProjectsScan
<1> QED BY <1>5, <1>6 DEF Accounted

LEMMA DecisionClosesOwn ==
  ASSUME DataTyped, NEW q \in Projects, NEW g \in Fingerprints,
         \/ UntriageFinding(q, g)
         \/ \E until \in 1..Forever : TriageFinding(q, g, until),
         NEW p \in Projects, NEW f \in Open(p), f \notin Open(p)'
  PROVE  Accounted(p, f)
<1>1. Present(p, f) /\ ~Hidden(f) /\ ~Triaged(p, f)
  BY OpenMeans
<1>2. UNCHANGED <<scans, noise, today>>
  BY DEF UntriageFinding, TriageFinding, Decide
<1>3. Present(p, f)' /\ ~Hidden(f)'
  BY <1>1, <1>2 DEF Present, Hidden, ListProjectScans, ListRecentScans
<1>4. Triaged(p, f)'
  BY <1>3, OpenMeans
<1>5. triage'[p][f] # triage[p][f]
  BY <1>1, <1>2, <1>4 DEF Triaged, Expired
<1>6. PICK until \in Never..Forever : triage' = [triage EXCEPT ![q][g] = until]
  BY DecideTyped
<1>7. q = p /\ g = f
  BY <1>5, <1>6 DEF DataTyped
<1>8. triage'[p][f] = until
  BY <1>6, <1>7 DEF DataTyped
<1>9. triage' = [triage EXCEPT ![p][f] = triage'[p][f]]
  BY <1>6, <1>7, <1>8
<1> QED BY <1>5, <1>9 DEF Accounted

(* Time only reopens what was decided.                                     *)
LEMMA DayKeepsOpen ==
  ASSUME DataTyped, NextDay, NEW p \in Projects, NEW f \in Fingerprints, ~Triaged(p, f)
  PROVE  ~Triaged(p, f)'
<1>1. UNCHANGED triage /\ today' = today + 1 /\ today \in Nat
  BY DEF NextDay, DataTyped
<1>2. triage[p][f] \in Int
  BY DEF DataTyped
<1> QED BY <1>1, <1>2 DEF Triaged, Expired

LEMMA OpenStep ==
  ASSUME FindingsTyped, Next, NEW p \in Projects, NEW f \in Open(p), f \notin Open(p)'
  PROVE  Accounted(p, f)
<1> USE DEF FindingsTyped
<1>1. Present(p, f) /\ ~Hidden(f) /\ ~Triaged(p, f)
  BY OpenMeans
<1>2. ~(Present(p, f)' /\ ~Hidden(f)' /\ ~Triaged(p, f)')
  BY OpenMeans
<1>3. f \in Fingerprints
  BY ListedScans, InNewestTyped DEF Open, StillPresent, FilterNoise
<1>4. ASSUME NEW q \in Projects, NEW tools \in SUBSET Scanners \ {{}},
             CreateProjectScanJob(q, tools)
      PROVE  Accounted(p, f)
  BY <1>4, ScanClosesOwn
<1>5. ASSUME NEW q \in Projects, NEW g \in Fingerprints,
             \/ UntriageFinding(q, g)
             \/ \E until \in 1..Forever : TriageFinding(q, g, until)
      PROVE  Accounted(p, f)
  BY <1>5, DecisionClosesOwn
<1>6. CASE ToggleNoiseFilter
  <2>1. UNCHANGED <<scans, triage, today>>
    BY <1>6 DEF ToggleNoiseFilter
  <2>2. Present(p, f)' /\ ~Triaged(p, f)'
    BY <1>1, <2>1 DEF Present, ListProjectScans, ListRecentScans, Triaged, Expired
  <2>3. Hidden(f)'
    BY <1>2, <2>2
  <2> QED BY <1>1, <2>3 DEF Hidden, Accounted
<1>7. CASE NextDay
  <2>1. UNCHANGED <<scans, noise>>
    BY <1>7 DEF NextDay
  <2>2. Present(p, f)' /\ ~Hidden(f)'
    BY <1>1, <2>1 DEF Present, ListProjectScans, ListRecentScans, Hidden
  <2> QED BY <1>1, <1>2, <1>3, <1>7, <2>2, DayKeepsOpen
<1>8. ASSUME NEW i \in DOMAIN scans, CompleteScan(i) \/ PersistCompletion(i)
      PROVE  FALSE
  <2>1. DOMAIN scans' = DOMAIN scans
    BY <1>8, CompleteScanStep, PersistStep DEF ScanStep
  <2>2. Present(p, f)'
    BY <1>1, <2>1, StaysPresent
  <2>3. UNCHANGED <<triage, noise, today>>
    BY <1>8 DEF CompleteScan, PersistCompletion
  <2> QED BY <1>1, <1>2, <2>2, <2>3 DEF Hidden, Triaged, Expired
<1>9. ASSUME UNCHANGED <<scans, triage, noise, today>> PROVE FALSE
  BY <1>1, <1>2, <1>9 DEF Present, ListProjectScans, ListRecentScans, Hidden, Triaged, Expired
<1>10. ASSUME Posture \/ \E q \in Projects : CreateProject(q)
       PROVE  UNCHANGED <<scans, triage, noise, today>>
  BY <1>10 DEF CreateProject, Posture, SnapshotSecurityPosture, ReadScans, ReadFindings,
     ReadNoiseFlag, ReadTriage, SkipProject, SaveSnapshot, dataVars
<1> QED
  BY <1>4, <1>5, <1>6, <1>7, <1>8, <1>9, <1>10 DEF Next, Request, Scan

(* In any history, of any number of projects and scans, an open finding    *)
(* ceases to be open only by a decision about it, the noise filter, a new  *)
(* scan of its project or the window of recent scans (triage.go).          *)
THEOREM FindingsStayOpen == Spec => OpenUntilDecided
<1>1. FindingsTyped /\ [Next]_vars =>
        [\A p \in Projects : \A f \in Open(p) \ Open(p)' : Accounted(p, f)]_vars
  BY OpenStep
<1>2. FindingsTyped /\ [Next]_vars =>
        [\A p \in Projects : \A f \in Open(p) \ Open(p)' :
           \/ triage' # triage /\ triage' = [triage EXCEPT ![p][f] = triage'[p][f]]
           \/ f \in Noise /\ noise' # noise
           \/ Len(scans') > Len(scans)
                /\ (scans'[Len(scans')].project = p \/ ListProjectScans(p)' = {})]_vars
  BY <1>1 DEF Accounted
<1> QED BY <1>2, AlwaysTyped, PTL DEF Spec, OpenUntilDecided

(***************************************************************************)
(* What a snapshot counts                                                  *)
(***************************************************************************)
SavedIn(i, f) == i \in DOMAIN scans /\ scans[i].saved /\ f \in scans[i].found

(* A scan that was the newest of the project has saved the finding.        *)
Shown(p, f) == \E i \in newest : SavedIn(i, f) /\ scans[i].project = p

(* What has been read of the next project is of its own scans.             *)
ListedInv ==
  at = "findings" =>
    /\ \A i \in listed : scans[i].project = Head(left)
    /\ Max(listed) \in newest

StillInv == at \in {"flag", "triage"} => \A f \in still : Shown(Head(left), f)

CountedInv == \A pf \in Counted(open) : pf \in undecided /\ Shown(pf[1], pf[2])

(* What was open all the while is counted, or skipped, or its project is   *)
(* still to come; what has been read of that project so far shows it.      *)
Ahead(p, f) ==
  /\ p \in InScope
  /\ p = Head(left) /\ at = "findings" => SavedIn(Max(listed), f)
  /\ p = Head(left) /\ at \in {"flag", "triage"} => f \in still

StandingInv ==
  \A pf \in standing :
    pf[1] \in skipped \/ pf \in Counted(open) \/ Ahead(pf[1], pf[2])

(* The observers have seen the present.                                    *)
WatchInv ==
  /\ at = "idle" => open = Empty /\ standing = {}
  /\ at # "idle" => standing \subseteq OpenIn(Projects) /\ Undecided \subseteq undecided
  /\ events \in Nat

SnapshotInv == ListedInv /\ StillInv /\ CountedInv /\ StandingInv /\ WatchInv

(* A step that is none of the computation leaves what it has read.         *)
Elsewhere == UNCHANGED <<at, left, listed, still, open, skipped>>

LEMMA SnapshotSteps ==
  ASSUME Next
  PROVE  /\ Watch
         /\ Elsewhere \/ (Posture /\ UNCHANGED dataVars)
         /\ UNCHANGED events \/ Event
BY DEF Next, Request, Scan, Posture, CreateProject, CreateProjectScanJob, TriageFinding,
   UntriageFinding, Decide, ToggleNoiseFilter, NextDay, CompleteScan, PersistCompletion,
   SnapshotSecurityPosture, ReadScans, ReadFindings, ReadNoiseFlag, ReadTriage, SkipProject,
   SaveSnapshot, loopVars, Elsewhere

LEMMA NothingCounted == Counted(Empty) = {}
BY DEF Counted, Empty

(* Every finding is of one of the four levels.                             *)
LEMMA SeverityTotal ==
  ASSUME NEW f \in Fingerprints
  PROVE  SeverityOf(f) \in Severity
BY FindingsAssumption DEF SeverityOf, Severity, NormalizeTrivySeverity,
   NormalizeSemgrepSeverity, NormalizeSonarSeverity, NormalizeZapRisk

LEMMA SnapshotAtFirst == Init => SnapshotInv
<1> SUFFICES ASSUME Init PROVE SnapshotInv
  OBVIOUS
<1>1. at = "idle" /\ open = Empty /\ standing = {} /\ events = 0
  BY DEF Init
<1> QED
  BY <1>1, NothingCounted DEF SnapshotInv, ListedInv, StillInv, CountedInv, StandingInv, WatchInv

(* The observers only learn while a snapshot is computed.                  *)
LEMMA WatchStep ==
  ASSUME FindingsTyped, SnapshotInv, Next, at' # "idle"
  PROVE  /\ newest \subseteq newest' /\ NewestScans' \subseteq newest'
         /\ undecided \subseteq undecided' /\ Undecided' \subseteq undecided'
         /\ standing' \subseteq OpenIn(Projects)'
         /\ at # "idle" => standing' \subseteq standing
         /\ at = "idle" => standing' \subseteq OpenIn(InScope)'
<1>1. Watch /\ left' \in Seq(Projects)
  BY SnapshotSteps, TypedStep DEF FindingsTyped, LoopTyped
<1>2. InScope' \subseteq Projects
  BY <1>1 DEF InScope
<1>3. OpenIn(InScope)' \subseteq OpenIn(Projects)'
  BY <1>2 DEF OpenIn
<1> QED BY <1>1, <1>3 DEF Watch

LEMMA ShownStays ==
  ASSUME FindingsTyped, SnapshotInv, Next, at' # "idle", NEW p, NEW f, Shown(p, f)
  PROVE  Shown(p, f)'
<1>1. PICK i \in newest : SavedIn(i, f) /\ scans[i].project = p
  BY DEF Shown
<1>2. ScanKept(i)
  BY <1>1, ScansKept DEF SavedIn, FindingsTyped
<1>3. i \in newest'
  BY <1>1, WatchStep
<1>4. SavedIn(i, f)' /\ scans'[i].project = p
  BY <1>1, <1>2 DEF SavedIn, ScanKept
<1> QED BY <1>3, <1>4 DEF Shown

LEMMA SavedStays ==
  ASSUME DataTyped, Next, NEW i, NEW f, SavedIn(i, f)
  PROVE  SavedIn(i, f)'
BY ScansKept DEF SavedIn, ScanKept

LEMMA ListedStep ==
  ASSUME FindingsTyped, SnapshotInv, Next, at' # "idle"
  PROVE  ListedInv'
<1> USE DEF FindingsTyped, LoopTyped
<1> SUFFICES ASSUME at' = "findings"
             PROVE  /\ \A i \in listed' : scans'[i].project = Head(left')
                    /\ Max(listed') \in newest'
  BY DEF ListedInv
<1>1. CASE UNCHANGED <<at, left, listed>>
  <2>1. \A i \in listed : scans[i].project = Head(left) /\ i \in DOMAIN scans
    BY <1>1 DEF SnapshotInv, ListedInv
  <2>2. \A i \in listed : scans'[i].project = Head(left)
    BY <2>1, ScansKept DEF ScanKept
  <2>3. Max(listed) \in newest'
    BY <1>1, WatchStep DEF SnapshotInv, ListedInv
  <2> QED BY <1>1, <2>2, <2>3
<1>2. CASE ReadScans
  <2>1. listed' = ListProjectScans(Head(left)) /\ listed' # {} /\ UNCHANGED <<left, scans>>
    BY <1>2 DEF ReadScans, NextProject, dataVars
  <2>2. Head(left) \in Projects
    BY <1>2, RestTyped DEF ReadScans
  <2>3. ListProjectScans(Head(left))' = listed'
    BY <2>1 DEF ListProjectScans, ListRecentScans
  <2>4. Max(listed') \in NewestScans'
    BY <2>1, <2>2, <2>3 DEF NewestScans
  <2>5. \A i \in listed' : scans'[i].project = Head(left')
    BY <2>1, ListedScans
  <2> QED BY <2>4, <2>5, WatchStep
<1>3. CASE Posture /\ ~ReadScans
  BY <1>3 DEF Posture, SnapshotSecurityPosture, ReadFindings, ReadNoiseFlag, ReadTriage,
     SkipProject, SaveSnapshot, NextProject
<1> QED BY <1>1, <1>2, <1>3, SnapshotSteps DEF Elsewhere

LEMMA StillStep ==
  ASSUME FindingsTyped, SnapshotInv, Next, at' # "idle"
  PROVE  StillInv'
<1> USE DEF FindingsTyped, LoopTyped
<1> SUFFICES ASSUME at' \in {"flag", "triage"}, NEW f \in still'
             PROVE  Shown(Head(left), f)'
  BY DEF StillInv
<1>0. PICK p : p = Head(left)
  OBVIOUS
<1>1. CASE Elsewhere
  <2>1. Shown(p, f) /\ UNCHANGED left
    BY <1>0, <1>1 DEF Elsewhere, SnapshotInv, StillInv
  <2>2. Shown(p, f)'
    BY <2>1, ShownStays
  <2> QED BY <1>0, <2>1, <2>2 DEF Shown
<1>2. CASE ReadFindings
  <2>1. /\ at = "findings" /\ still' = InNewest(listed)
        /\ UNCHANGED <<left, scans>>
    BY <1>2 DEF ReadFindings, dataVars
  <2>2. listed # {} /\ listed \subseteq DOMAIN scans
    BY <2>1
  <2>3. scans[Max(listed)].saved /\ f \in scans[Max(listed)].found
    BY <2>1, <2>2, InNewestTyped
  <2>4. Max(listed) \in listed
    BY <2>2, NewestListed
  <2>5. Max(listed) \in newest /\ scans[Max(listed)].project = Head(left)
    BY <2>1, <2>4 DEF SnapshotInv, ListedInv
  <2>6. Shown(p, f)
    BY <1>0, <2>2, <2>3, <2>4, <2>5 DEF Shown, SavedIn
  <2>7. Shown(p, f)'
    BY <2>6, ShownStays
  <2> QED BY <1>0, <2>1, <2>7 DEF Shown
<1>3. CASE ReadNoiseFlag
  <2>1. at = "flag" /\ f \in still /\ UNCHANGED left
    BY <1>3 DEF ReadNoiseFlag, FilterNoise
  <2>2. Shown(p, f)
    BY <1>0, <2>1 DEF SnapshotInv, StillInv
  <2>3. Shown(p, f)'
    BY <2>2, ShownStays
  <2> QED BY <1>0, <2>1, <2>3 DEF Shown
<1>4. CASE SnapshotSecurityPosture \/ ReadScans \/ ReadTriage \/ SkipProject \/ SaveSnapshot
  BY <1>4 DEF SnapshotSecurityPosture, ReadScans, ReadTriage, SkipProject, SaveSnapshot,
     NextProject
<1> QED BY <1>1, <1>2, <1>3, <1>4, SnapshotSteps DEF Posture

(* What reading the decisions adds to the count.                           *)
LEMMA TriageCounts ==
  ASSUME FindingsTyped, ReadTriage
  PROVE  Counted(open') =
           Counted(open) \cup {<<Head(left), f>> : f \in {g \in still : ~Triaged(Head(left), g)}}
<1> DEFINE undone == {g \in still : ~Triaged(Head(left), g)}
           new(s) == {<<Head(left), f>> : f \in {g \in undone : SeverityOf(g) = s}}
<1>1. open' = [s \in Severity |-> open[s] \cup new(s)]
  BY DEF ReadTriage
<1>2. Counted(open') = UNION {open[s] \cup new(s) : s \in Severity}
  <2> HIDE DEF new
  <2> QED BY <1>1 DEF Counted
<1>3. UNION {new(s) : s \in Severity} = {<<Head(left), f>> : f \in undone}
  BY SeverityTotal DEF FindingsTyped, LoopTyped
<1> HIDE DEF undone, new
<1>4. Counted(open') = Counted(open) \cup UNION {new(s) : s \in Severity}
  BY <1>2 DEF Counted
<1> QED BY <1>3, <1>4 DEF undone

LEMMA CountedStep ==
  ASSUME FindingsTyped, SnapshotInv, Next, at' # "idle"
  PROVE  CountedInv'
<1> SUFFICES ASSUME NEW pf \in Counted(open')
             PROVE  pf \in undecided' /\ Shown(pf[1], pf[2])'
  BY DEF CountedInv, Counted
<1>1. CASE pf \in Counted(open)
  <2>1. pf \in undecided /\ Shown(pf[1], pf[2])
    BY <1>1 DEF SnapshotInv, CountedInv
  <2> QED BY <2>1, WatchStep, ShownStays
<1>2. CASE ReadTriage /\ pf \notin Counted(open)
  <2>1. PICK f \in still : pf = <<Head(left), f>> /\ ~Triaged(Head(left), f)
    BY <1>2, TriageCounts
  <2>2. Head(left) \in Projects /\ f \in Fingerprints /\ at = "triage"
    BY <1>2, RestTyped DEF ReadTriage, FindingsTyped, LoopTyped
  <2>3. pf \in Undecided
    BY <2>1, <2>2 DEF Undecided, Pairs
  <2>4. pf \in undecided /\ Shown(Head(left), f)
    BY <2>2, <2>3 DEF SnapshotInv, WatchInv, StillInv
  <2>5. Shown(pf[1], pf[2])
    BY <2>1, <2>4
  <2> QED BY <2>4, <2>5, WatchStep, ShownStays
<1>3. CASE SnapshotSecurityPosture \/ SaveSnapshot
  BY <1>3, NothingCounted DEF SnapshotSecurityPosture, SaveSnapshot
<1>4. CASE Elsewhere \/ ReadScans \/ ReadFindings \/ ReadNoiseFlag \/ SkipProject
  BY <1>1, <1>4 DEF Elsewhere, ReadScans, ReadFindings, ReadNoiseFlag, SkipProject
<1> QED BY <1>1, <1>2, <1>3, <1>4, SnapshotSteps DEF Posture

(* A step past the next project settles that one and leaves the others.    *)
LEMMA PastTheNext ==
  ASSUME FindingsTyped, left # <<>>, NextProject, NEW p, NEW f, p \in InScope, p # Head(left)
  PROVE  Ahead(p, f)'
<1>1. InScope' = {Tail(left)[k] : k \in DOMAIN Tail(left)}
  BY DEF NextProject, InScope
<1>2. p \in InScope'
  BY <1>1, RestTyped DEF FindingsTyped, LoopTyped
<1> QED BY <1>2 DEF Ahead, NextProject

LEMMA AheadElsewhere ==
  ASSUME DataTyped, Next, Elsewhere, NEW p, NEW f, Ahead(p, f)
  PROVE  Ahead(p, f)'
<1>1. p \in InScope'
  BY DEF Ahead, Elsewhere, InScope
<1>2. p = Head(left) /\ at = "findings" => SavedIn(Max(listed), f)'
  <2>1. SUFFICES ASSUME p = Head(left), at = "findings" PROVE SavedIn(Max(listed), f)'
    OBVIOUS
  <2>2. PICK i : i = Max(listed)
    OBVIOUS
  <2>3. SavedIn(i, f)
    BY <2>1, <2>2 DEF Ahead
  <2>4. SavedIn(i, f)'
    BY <2>3, SavedStays
  <2> QED BY <2>2, <2>4 DEF Elsewhere, SavedIn
<1> QED BY <1>1, <1>2 DEF Ahead, Elsewhere

LEMMA AheadStep ==
  ASSUME FindingsTyped, SnapshotInv, Next, Posture, UNCHANGED dataVars,
         at # "idle", at' # "idle", NEW p, NEW f, Present(p, f), ~Hidden(f), ~Triaged(p, f),
         f \in Fingerprints, Ahead(p, f)
  PROVE  p \in skipped' \/ <<p, f>> \in Counted(open') \/ Ahead(p, f)'
<1> USE DEF FindingsTyped, LoopTyped
<1>0. UNCHANGED <<scans, noise>>
  BY DEF dataVars
<1>1. CASE ReadScans
  <2>1. listed' = ListProjectScans(Head(left)) /\ left # <<>>
    BY <1>1 DEF ReadScans
  <2>2. CASE p # Head(left) /\ listed' = {}
    BY <1>1, <2>1, <2>2, PastTheNext DEF ReadScans, Ahead
  <2>3. CASE listed' # {}
    <3>1. at' = "findings" /\ UNCHANGED left
      BY <1>1, <2>3 DEF ReadScans
    <3>2. p = Head(left) => SavedIn(Max(listed'), f)
      <4>1. SUFFICES ASSUME p = Head(left) PROVE SavedIn(Max(listed'), f)
        OBVIOUS
      <4>2. Max(listed') \in DOMAIN scans
        BY <2>1, <2>3, ListedScans, NewestListed
      <4> QED BY <2>1, <4>1, <4>2 DEF Present, SavedIn
    <3> QED BY <1>0, <3>1, <3>2 DEF Ahead, InScope, SavedIn
  <2>4. p = Head(left) => listed' # {}
    BY <2>1 DEF Present
  <2> QED BY <2>2, <2>3, <2>4
<1>2. CASE ReadFindings
  <2>1. at = "findings" /\ left # <<>> /\ listed # {} /\ listed \subseteq DOMAIN scans
    BY <1>2 DEF ReadFindings
  <2>2. p = Head(left) => f \in InNewest(listed)
    BY <2>1 DEF Ahead, SavedIn, ListByScanIDs, InNewest
  <2>3. at' = "flag" /\ still' = InNewest(listed) /\ UNCHANGED left
    BY <1>2 DEF ReadFindings
  <2> QED BY <2>2, <2>3 DEF Ahead, InScope
<1>3. CASE ReadNoiseFlag
  <2>1. at = "flag" /\ at' = "triage" /\ UNCHANGED left
    BY <1>3 DEF ReadNoiseFlag
  <2>2. p = Head(left) => f \in still'
    BY <1>3, <2>1 DEF ReadNoiseFlag, FilterNoise, Hidden, Ahead
  <2> QED BY <2>1, <2>2 DEF Ahead, InScope
<1>4. CASE ReadTriage
  <2>1. at = "triage" /\ left # <<>> /\ NextProject
    BY <1>4 DEF ReadTriage
  <2>2. CASE p = Head(left)
    <3>1. f \in still
      BY <2>1, <2>2 DEF Ahead
    <3> QED BY <1>4, <2>2, <3>1, TriageCounts
  <2>3. CASE p # Head(left)
    BY <2>1, <2>3, PastTheNext DEF Ahead
  <2> QED BY <2>2, <2>3
<1>5. CASE SkipProject
  <2>1. left # <<>> /\ NextProject /\ Head(left) \in skipped'
    BY <1>5 DEF SkipProject
  <2> QED BY <2>1, PastTheNext DEF Ahead
<1>6. CASE SnapshotSecurityPosture \/ SaveSnapshot
  BY <1>6 DEF SnapshotSecurityPosture, SaveSnapshot
<1> QED BY <1>1, <1>2, <1>4, <1>5, <1>6, <1>3 DEF Posture

LEMMA StandingStep ==
  ASSUME FindingsTyped, SnapshotInv, Next, at' # "idle"
  PROVE  StandingInv'
<1> SUFFICES ASSUME NEW pf \in standing'
             PROVE  pf[1] \in skipped' \/ pf \in Counted(open') \/ Ahead(pf[1], pf[2])'
  BY DEF StandingInv, Counted
<1>1. CASE at = "idle"
  <2>1. SnapshotSecurityPosture
    BY <1>1, SnapshotSteps DEF Elsewhere, Posture, ReadScans, ReadFindings, ReadNoiseFlag,
       ReadTriage, SkipProject, SaveSnapshot
  <2>2. pf[1] \in InScope' /\ at' = "scans"
    BY <1>1, <2>1, WatchStep DEF OpenIn, SnapshotSecurityPosture
  <2> QED BY <2>2 DEF Ahead
<1>2. CASE at # "idle"
  <2>1. pf \in standing /\ pf \in OpenIn(Projects)'
    BY <1>2, WatchStep
  <2>2. PICK p \in Projects, f \in Fingerprints : pf = <<p, f>> /\ f \in Open(p)'
    BY <2>1 DEF OpenIn
  <2>3. skipped \subseteq skipped' /\ Counted(open) \subseteq Counted(open')
    BY <1>2, SnapshotSteps, TriageCounts DEF Elsewhere, Posture, SnapshotSecurityPosture,
       ReadScans, ReadFindings, ReadNoiseFlag, ReadTriage, SkipProject, SaveSnapshot
  <2>4. ASSUME Ahead(p, f)
        PROVE  p \in skipped' \/ pf \in Counted(open') \/ Ahead(p, f)'
    <3>1. CASE Elsewhere
      BY <2>4, <3>1, AheadElsewhere DEF FindingsTyped
    <3>2. CASE Posture /\ UNCHANGED dataVars
      <4>1. UNCHANGED <<scans, triage, noise, today>>
        BY <3>2 DEF dataVars
      <4>2. Present(p, f)' /\ ~Hidden(f)' /\ ~Triaged(p, f)'
        BY <2>2, OpenMeans
      <4>3. Present(p, f) /\ ~Hidden(f) /\ ~Triaged(p, f)
        BY <4>1, <4>2 DEF Present, ListProjectScans, ListRecentScans, Hidden, Triaged, Expired
      <4> QED BY <1>2, <2>2, <2>4, <3>2, <4>3, AheadStep
    <3> QED BY <3>1, <3>2, SnapshotSteps
  <2> QED BY <2>1, <2>2, <2>3, <2>4 DEF SnapshotInv, StandingInv
<1> QED BY <1>1, <1>2

LEMMA IdleStep ==
  ASSUME SnapshotInv, Next, at' = "idle"
  PROVE  ListedInv' /\ StillInv' /\ CountedInv' /\ StandingInv' /\ open' = Empty /\ standing' = {}
<1>1. standing' = {}
  BY SnapshotSteps DEF Watch
<1>2. open' = Empty
  BY SnapshotSteps DEF Elsewhere, Posture, SnapshotSecurityPosture, ReadScans, ReadFindings,
     ReadNoiseFlag, ReadTriage, SkipProject, SaveSnapshot, NextProject, SnapshotInv, WatchInv
<1>3. Counted(open)' = {}
  BY <1>2, NothingCounted DEF Counted
<1> QED BY <1>1, <1>2, <1>3 DEF ListedInv, StillInv, CountedInv, StandingInv

LEMMA SnapshotStep ==
  ASSUME FindingsTyped, SnapshotInv, [Next]_vars
  PROVE  SnapshotInv'
<1>1. CASE Next
  <2>1. events' \in Nat
    BY <1>1, SnapshotSteps DEF Event, SnapshotInv, WatchInv
  <2>2. CASE at' = "idle"
    BY <1>1, <2>1, <2>2, IdleStep DEF SnapshotInv, WatchInv
  <2>3. CASE at' # "idle"
    <3>1. WatchInv'
      BY <1>1, <2>1, <2>3, WatchStep DEF WatchInv
    <3> QED
      BY <1>1, <2>3, <3>1, ListedStep, StillStep, CountedStep, StandingStep DEF SnapshotInv
  <2> QED BY <2>2, <2>3
<1>2. CASE UNCHANGED vars
  <2> USE DEF vars, dataVars, loopVars
  <2>1. ListedInv' /\ StillInv'
    BY <1>2 DEF SnapshotInv, ListedInv, StillInv, Shown, SavedIn
  <2>2. CountedInv' /\ StandingInv'
    BY <1>2 DEF SnapshotInv, CountedInv, StandingInv, Counted, Shown, SavedIn, Ahead, InScope
  <2>3. OpenIn(Projects)' = OpenIn(Projects) /\ Undecided' = Undecided
    BY <1>2 DEF OpenIn, Open, StillPresent, InNewest, ListByScanIDs, FilterNoise,
       ListProjectScans, ListRecentScans, Undecided, Triaged, Expired
  <2>4. WatchInv'
    BY <1>2, <2>3 DEF SnapshotInv, WatchInv
  <2> QED BY <2>1, <2>2, <2>4 DEF SnapshotInv
<1> QED BY <1>1, <1>2

LEMMA AlwaysSound == Spec => [](FindingsTyped /\ SnapshotInv)
BY TypedAtFirst, SnapshotAtFirst, TypedStep, SnapshotStep, PTL DEF Spec

(* The write of a snapshot that succeeds.                                  *)
LEMMA SaveIsHonest ==
  ASSUME FindingsTyped, SnapshotInv, Next, at # "idle", at' = "idle", UNCHANGED events
  PROVE  /\ \A pf \in standing : pf[1] \notin skipped => pf \in Counted(snapshot')
         /\ \A pf \in Counted(snapshot') :
              /\ pf \in undecided
              /\ \E i \in newest : scans[i].project = pf[1] /\ pf[2] \in scans[i].found
<1>1. SaveSnapshot
  BY SnapshotSteps DEF Elsewhere, Posture, SnapshotSecurityPosture, ReadScans, ReadFindings,
     ReadNoiseFlag, ReadTriage, SkipProject, NextProject
<1>2. ~Event
  BY DEF Event, SnapshotInv, WatchInv
<1>3. snapshot' = open /\ at = "scans" /\ left = <<>>
  BY <1>1, <1>2 DEF SaveSnapshot
<1>4. InScope = {}
  BY <1>3 DEF InScope
<1>5. ASSUME NEW pf \in standing, pf[1] \notin skipped PROVE pf \in Counted(snapshot')
  BY <1>3, <1>4, <1>5 DEF SnapshotInv, StandingInv, Ahead
<1>6. ASSUME NEW pf \in Counted(snapshot')
      PROVE  /\ pf \in undecided
             /\ \E i \in newest : scans[i].project = pf[1] /\ pf[2] \in scans[i].found
  BY <1>3, <1>6 DEF SnapshotInv, CountedInv, Shown, SavedIn
<1> QED BY <1>5, <1>6

(* However scans, decisions, the filter and days come between its reads, a *)
(* snapshot that is written misses nothing that was open all along, but of *)
(* projects it had to skip, and counts nothing that was decided all the    *)
(* while or that no newest scan had (SnapshotSecurityPosture).             *)
THEOREM PostureIsHonest == Spec => SnapshotHonest
<1>1. FindingsTyped /\ SnapshotInv /\ [Next]_vars =>
        [at # "idle" /\ at' = "idle" /\ UNCHANGED events =>
           /\ \A pf \in standing : pf[1] \notin skipped => pf \in Counted(snapshot')
           /\ \A pf \in Counted(snapshot') :
                /\ pf \in undecided
                /\ \E i \in newest : scans[i].project = pf[1] /\ pf[2] \in scans[i].found]_vars
  BY SaveIsHonest
<1> QED BY <1>1, AlwaysSound, PTL DEF Spec, SnapshotHonest
=============================================================================
