------------------------------ MODULE ImageGate ------------------------------
(***************************************************************************)
(* image-gate.mjs: the verdict on an image, from the registry's normalized *)
(* report or from Trivy's, as operators.  A report is a record of what the *)
(* gate tells apart; NoReport stands for a file that is missing, empty or  *)
(* not JSON.  A rule of the policy, such as image.high_no_fix, is the pair *)
(* of its severity and its suffix.  Any failed assertion of the code gives *)
(* the same result, so the order of the assertions is left out.            *)
(***************************************************************************)
EXTENDS Integers, Sequences, FiniteSets

CONSTANT NoReport

Severities == {"critical", "high", "medium", "low"}
Serious    == {"critical", "high"}
Verdicts   == {"DEPLOY", "DEPLOY-WITH-EXCEPTIONS", "BLOCK_DEPLOY"}

ImageRules == (Severities \X {""}) \cup (Serious \X {"with_fix", "no_fix"})

\* The only policy the gate accepts.
ExpectedPolicy ==
  [ rule \in ImageRules |->
      CASE rule[1] \notin Serious -> "LOG"
        [] rule[2] = "no_fix"     -> "EXCEPTION"
        [] OTHER                  -> "BLOCK_DEPLOY" ]

PolicyIsValid(policy) == \A rule \in ImageRules : policy[rule] = ExpectedPolicy[rule]

\* Critical and High are split on fix availability when the source reports it.
RuleOf(fixAware, severity, fix) ==
  <<severity, IF fixAware /\ severity \in Serious
              THEN IF fix = "yes" THEN "with_fix" ELSE "no_fix"
              ELSE "">>

Decided(id, rule, policy) == [id |-> id, rule |-> rule, action |-> policy[rule]]

VerdictOn(findings) ==
  LET Some(action) == \E f \in findings : f.action = action
  IN CASE Some("BLOCK_DEPLOY") -> "BLOCK_DEPLOY"
       [] ~Some("BLOCK_DEPLOY") /\ Some("EXCEPTION") -> "DEPLOY-WITH-EXCEPTIONS"
       [] OTHER -> "DEPLOY"

Judged(findings) == [verdict |-> VerdictOn(findings), trusted |-> TRUE, findings |-> findings]

\* What is written when an assertion fails.
Untrusted ==
  [ verdict  |-> "BLOCK_DEPLOY",
    trusted  |-> FALSE,
    findings |-> {[id |-> "report-integrity", rule |-> "report_integrity",
                   action |-> "BLOCK_DEPLOY"]} ]

-----------------------------------------------------------------------------
(* The registry's report *)

RegistrySources == {"aws-ecr-basic", "aws-ecr-enhanced"}

CountOf(findings, severity) == Cardinality({f \in findings : f.severity = severity})

RegistryReportIsSound(report) ==
  /\ report # NoReport
  /\ report.schemaVersion = 1
  /\ report.source \in RegistrySources
  /\ report.scanStatus = "COMPLETE"
  /\ \A f \in report.findings :
       /\ f.severity \in Severities
       /\ report.source = "aws-ecr-enhanced" => f.fix \in {"yes", "no"}
  /\ \A s \in Severities : report.severityCounts[s] = CountOf(report.findings, s)

EvaluateRegistry(policy, report) ==
  LET fixAware == report.source = "aws-ecr-enhanced"
  IN Judged({Decided(f.id, RuleOf(fixAware, f.severity, f.fix), policy) : f \in report.findings})

-----------------------------------------------------------------------------
(* Trivy's report *)

\* A severity Trivy does not know counts as high.
TrivySeverity(raw) == IF raw = "unknown" THEN "high" ELSE raw

\* A scan that could not read the image's packages is not a clean one.
TrivyReportIsSound(report) ==
  /\ report # NoReport
  /\ report.schemaVersion = 2
  /\ report.imageId # "none"
  /\ report.os /\ report.osPackages /\ ~report.endOfLife
  /\ \A i \in 1..Len(report.vulnerabilities) :
       TrivySeverity(report.vulnerabilities[i].severity) \in Severities

\* The first entry of a vulnerability and package stands for all the others.
FirstListed(vulnerabilities) ==
  { vulnerabilities[i] : i \in
      { j \in 1..Len(vulnerabilities) :
          \A k \in 1..(j - 1) : \/ vulnerabilities[k].id # vulnerabilities[j].id
                                \/ vulnerabilities[k].package # vulnerabilities[j].package } }

EvaluateTrivy(policy, report) ==
  Judged(
    { Decided(v.id, RuleOf(TRUE, TrivySeverity(v.severity), v.fix), policy) :
        v \in FirstListed(report.vulnerabilities) }
    \cup
    { [id |-> s, rule |-> "secret", action |-> "BLOCK_DEPLOY"] : s \in report.secrets })

-----------------------------------------------------------------------------

RunImageGate(source, policy, report) ==
  CASE ~PolicyIsValid(policy) -> Untrusted
    [] PolicyIsValid(policy) /\ source = "trivy" /\ TrivyReportIsSound(report) ->
         EvaluateTrivy(policy, report)
    [] PolicyIsValid(policy) /\ source # "trivy" /\ RegistryReportIsSound(report) ->
         EvaluateRegistry(policy, report)
    [] OTHER -> Untrusted
=============================================================================
