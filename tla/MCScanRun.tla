----------------------------- MODULE MCScanRun -----------------------------
(* An instance of ScanRun for TLC: two scans of one target, or one of a    *)
(* target and one of an archive.                                           *)
EXTENDS ScanRun, TLC

CONSTANTS j1, j2

Req(source, tools) == [source |-> source, tools |-> tools]

TheRequests ==
  {j1 :> Req("git", {"sonarqube"}) @@ j2 :> Req("git", {"sonarqube"}),
   j1 :> Req("git", {"zap", "gitleaks"}) @@ j2 :> Req("git", {"semgrep"}),
   j1 :> Req("upload", {"syft", "trivy"}) @@ j2 :> Req("git", {"semgrep"}),
   j1 :> Req("git", {"semgrep"}) @@ j2 :> Req("upload", {"gitleaks"})}

(* The second worker was deployed without Semgrep.                         *)
TheRegistered == j1 :> Scanners @@ j2 :> Scanners \ {"semgrep"}
=============================================================================
