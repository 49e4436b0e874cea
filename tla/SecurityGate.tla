----------------------------- MODULE SecurityGate -----------------------------
(***************************************************************************)
(* security-gate.mjs: the verdict on a repository from the reports of its  *)
(* scanners, as operators.  A report is the set of what it lists (a        *)
(* sequence where the code keeps the first of two alike), NoReport one     *)
(* that cannot be read, and Absent one whose file does not exist.  A rule  *)
(* of the policy, such as sast.high_new, is its section with the pair of   *)
(* its severity and suffix; a CVSS score is in tenths.                     *)
(* A definition marked "Variant" is a faulty version of the one after it.  *)
(***************************************************************************)
EXTENDS ImageGate

CONSTANT Absent

Plain(names) == names \X {""}

SourceRules ==
  ({"secrets"} \X Plain({"verified", "unverified", "demo_dummy"}))
  \cup ({"dependencies"} \X (Plain({"medium", "low", "malicious_package"})
                             \cup (Serious \X {"with_fix", "no_fix"})))
  \cup ({"sast"} \X (Plain({"medium", "low"}) \cup (Serious \X {"new", "existing"})))

VALID_ACTIONS == {"BLOCK", "BLOCK_DEPLOY", "EXCEPTION", "LOG"}

BreakGlassPolicy ==
  [ sast_new |-> "ELIGIBLE", dependency_with_fix |-> "ELIGIBLE", verified_secrets |-> "NEVER",
    malicious_package |-> "NEVER", report_integrity |-> "NEVER" ]

NormalizeSeverity(raw) ==
  CASE raw = "moderate" -> "medium" [] raw = "info" -> "low" [] OTHER -> raw

ValidatePolicy(policy) ==
  /\ \A rule \in SourceRules : policy.actions[rule] \in VALID_ACTIONS
  /\ policy.thresholds.critical > policy.thresholds.high
  /\ policy.thresholds.high > policy.thresholds.medium
  /\ \A raw \in {"ERROR", "WARNING", "INFO"} : NormalizeSeverity(policy.semgrep[raw]) \in Severities
  /\ policy.breakGlass = BreakGlassPolicy

\* addFinding
Added(policy, source, id, rule) ==
  [source |-> source, id |-> id, rule |-> rule, action |-> policy.actions[rule]]

Graded(section, severity, suffix) ==
  <<section, <<severity, IF severity \in Serious THEN suffix ELSE "">> >>

FixSuffix(fix) == IF fix THEN "with_fix" ELSE "no_fix"

Malicious == <<"dependencies", <<"malicious_package", "">> >>

-----------------------------------------------------------------------------
(* One evaluator for each report: what it insists on, and what it finds *)

EvaluateSecrets(policy, gitleaks, trufflehog) ==
  LET Secret(kind) == <<"secrets", <<kind, "">> >>
  IN { Added(policy, "gitleaks", f.id, Secret(IF f.demo THEN "demo_dummy" ELSE "unverified")) :
         f \in gitleaks }
     \cup
     { Added(policy, "trufflehog", f.id, Secret(IF f.verified THEN "verified" ELSE "unverified")) :
         f \in trufflehog }

NpmIsSound(report) ==
  /\ report.total = Cardinality(report.vulnerabilities)
  /\ \A v \in report.vulnerabilities : NormalizeSeverity(v.severity) \in Severities

EvaluateNpmAudit(policy, report) ==
  { Added(policy, "npm-audit", v.package,
          Graded("dependencies", NormalizeSeverity(v.severity), FixSuffix(v.fix))) :
      v \in report.vulnerabilities }

\* pip-audit tells no severity: every advisory counts as high.
EvaluatePipAudit(policy, report) ==
  { Added(policy, "pip-audit", v.id,
          IF v.malicious THEN Malicious ELSE Graded("dependencies", "high", FixSuffix(v.fix))) :
      v \in FirstListed(report) }

OsvIsSound(report) == \A v \in report : v.malicious \/ v.affected

\* The highest CVSS v3 score; an advisory without one counts as high.
OsvSeverity(policy, scores) ==
  LET Reaches(level) == \E s \in scores : s >= policy.thresholds[level]
  IN CASE scores = {} -> "high"
       [] scores # {} /\ Reaches("critical") -> "critical"
       [] scores # {} /\ ~Reaches("critical") /\ Reaches("high") -> "high"
       [] scores # {} /\ ~Reaches("high") /\ Reaches("medium") -> "medium"
       [] OTHER -> "low"

EvaluateOsv(policy, report) ==
  { Added(policy, "osv-scanner", v.id,
          IF v.malicious THEN Malicious
          ELSE Graded("dependencies", OsvSeverity(policy, v.scores), FixSuffix(v.fix))) :
      v \in report }

\* Variant: the path is not part of a fingerprint.
FingerprintOfText(f) == <<f.check, f.text>>
SemgrepFingerprint(f) == <<f.check, f.path, f.text>>

SemgrepSeverity(policy, raw) ==
  IF raw \in Severities THEN raw ELSE NormalizeSeverity(policy.semgrep[raw])

SemgrepIsSound(policy, report, baseline) ==
  /\ ~report.errors
  /\ baseline.schemaVersion = 1
  /\ \A f \in report.results : f.severity \in Severities \cup DOMAIN policy.semgrep

EvaluateSemgrep(policy, report, baseline) ==
  { Added(policy, "semgrep", f.check,
          Graded("sast", SemgrepSeverity(policy, f.severity),
                 IF SemgrepFingerprint(f) \in baseline.fingerprints THEN "existing" ELSE "new")) :
      f \in report.results }

-----------------------------------------------------------------------------
(* The result *)

Blocked(findings) == {f \in findings : f.action = "BLOCK"}

SourceVerdict(findings) ==
  CASE Blocked(findings) # {} -> "BLOCK"
    [] Blocked(findings) = {} /\ (\E f \in findings : f.action = "EXCEPTION") ->
         "PASS-WITH-EXCEPTIONS"
    [] OTHER -> "PASS"

\* markBreakGlassEligibility
IsEligible(rule) ==
  \/ rule[1] = "sast" /\ rule[2][2] = "new"
  \/ rule[1] = "dependencies" /\ rule[2][2] = "with_fix"

SourceResult(findings, trusted) ==
  [ verdict  |-> SourceVerdict(findings),
    trusted  |-> trusted,
    eligible |-> Blocked(findings) # {} /\ \A f \in Blocked(findings) : IsEligible(f.rule),
    findings |-> findings ]

UntrustedSource ==
  SourceResult({[source |-> "security-gate", id |-> "report-integrity",
                 rule |-> <<"gate", <<"report_integrity", "">> >>, action |-> "BLOCK"]}, FALSE)

\* A report whose audit target exists is required; else its file may be missing.
RequiredReports(manifests) ==
  {"gitleaks", "trufflehog", "osv", "semgrep", "baseline"} \cup manifests

Readable(reports, manifests) ==
  \A s \in DOMAIN reports :
    /\ reports[s] # NoReport
    /\ s \in RequiredReports(manifests) => reports[s] # Absent

RunSecurityGate(policy, manifests, reports) ==
  IF /\ ValidatePolicy(policy)
     /\ Readable(reports, manifests)
     /\ reports.npm # Absent => NpmIsSound(reports.npm)
     /\ OsvIsSound(reports.osv)
     /\ SemgrepIsSound(policy, reports.semgrep, reports.baseline)
  THEN SourceResult(
         EvaluateSecrets(policy, reports.gitleaks, reports.trufflehog)
         \cup (IF reports.npm = Absent THEN {} ELSE EvaluateNpmAudit(policy, reports.npm))
         \cup (IF reports.pip = Absent THEN {} ELSE EvaluatePipAudit(policy, reports.pip))
         \cup EvaluateOsv(policy, reports.osv)
         \cup EvaluateSemgrep(policy, reports.semgrep, reports.baseline), TRUE)
  ELSE UntrustedSource
=============================================================================
