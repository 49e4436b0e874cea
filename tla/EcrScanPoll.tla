----------------------------- MODULE EcrScanPoll -----------------------------
(***************************************************************************)
(* poll-ecr-scan.mjs against the two services it asks: ECR, which reports  *)
(* a scan's status before its findings, and, in the enhanced mode, Amazon  *)
(* Inspector, which scans, covers and publishes on its own.  ECR gives an  *)
(* enhanced scan that found nothing the same body as one whose findings    *)
(* have not arrived; the poller must tell them apart.  What it reports is  *)
(* judged by image-gate.mjs (ImageGate).  An environment assumption is     *)
(* marked "Environment"; "Variant" marks a faulty version of what follows. *)
(***************************************************************************)
EXTENDS ImageGate

CONSTANTS
  Digest, Other,    \* the pushed manifest, and another one
  Truths,           \* what scanners may find in the pushed image
  News,             \* findings that advisories published later may add
  Policies,         \* the policies the image gate may read
  MaxAttempts,      \* maxAttempts
  Delay,            \* delaySeconds
  Settle,           \* CLEAN_SETTLE_SECONDS
  Lag,              \* Environment: findings follow completion within this time
  Faults,           \* what may go wrong: a subset of FaultKinds
  MaxTime           \* bound: the last tick that nobody waits for

\* An AWS call fails for a while, or for want of a permission, or prints no JSON;
\* a body lists less than it counts, or fills both arrays; the tag is moved; a
\* rescan finds more; Inspector does not support the image; the scan fails.
FaultKinds == {"transient", "denied", "json", "garbled", "moved", "drift", "unsupported", "scan"}

SEVERITY_MAP ==
  [ CRITICAL |-> "critical", HIGH |-> "high", MEDIUM |-> "medium", LOW |-> "low",
    INFORMATIONAL |-> "low", UNDEFINED |-> "low", UNTRIAGED |-> "high" ]

RawSeverities == DOMAIN SEVERITY_MAP \cup {"unmapped"}

\* usable: an active package vulnerability with an id, of the polled manifest.
RawFinding ==
  [id : Nat, severity : RawSeverities, fixAvailable : {"YES", "PARTIAL", "NO", "other"},
   usable : BOOLEAN]

ASSUME TruthsAssumption ==
  /\ Truths \subseteq SUBSET RawFinding /\ News \subseteq RawFinding
  /\ \A t \in Truths : IsFiniteSet(t)
ASSUME FaultsAssumption == Faults \subseteq FaultKinds /\ Digest # Other
ASSUME TimesAssumption  ==
  /\ MaxAttempts \in Nat \ {0} /\ Delay \in Nat
  /\ Lag \in Nat /\ Settle \in Nat /\ Lag < Settle
  /\ MaxTime \in Nat

VARIABLES
  now,
  enhanced, byDigest,  \* the registry's scanning mode; --image-digest was given
  policy,
  truth,               \* what a scan of the image finds now
  scan,                \* ECR: [status, completedAt, attached]
  inspector,           \* Inspector: [coverage, scannedAt, published]
  poller,              \* [pc, attempt, wake, body]
  report               \* the file the poller writes

vars == <<now, enhanced, byDigest, policy, truth, scan, inspector, poller, report>>

\* What the poller writes: the normalized report of the registry.
Report ==
  [ schemaVersion  : {1},
    source         : RegistrySources,
    scanStatus     : {"COMPLETE"},
    imageDigest    : {Digest, Other},
    severityCounts : [Severities -> Nat],
    findings       : SUBSET [id : Nat, severity : Severities, fix : {"yes", "no", "absent"}] ]

ASSUME NoReportAssumption == NoReport \notin Report

environment == <<enhanced, byDigest, policy>>

NoBody == [status |-> "none"]

Init ==
  /\ now = 1
  /\ enhanced \in BOOLEAN /\ byDigest \in BOOLEAN
  /\ policy \in Policies
  /\ truth \in Truths
  /\ scan = [status |-> "missing", completedAt |-> 0, attached |-> FALSE]
  /\ inspector = [coverage |-> "none", scannedAt |-> 0, published |-> FALSE]
  /\ poller = [pc |-> "describe", attempt |-> 1, wake |-> 0, body |-> NoBody]
  /\ report = NoReport

-----------------------------------------------------------------------------
(* The services and the clock *)

Polling == poller.pc \in {"describe", "coverage", "findings", "waiting"}

\* Environment: what Inspector found since ECR's completion is listed no later
\* than Lag after it, or with the scan if that is later still.
Overdue ==
  /\ scan.status = "COMPLETE" /\ inspector.scannedAt >= scan.completedAt
  /\ ~inspector.published
  /\ now >= scan.completedAt + Lag

Tick ==
  /\ Polling /\ ~Overdue
  /\ now < MaxTime \/ (poller.pc = "waiting" /\ now < poller.wake)
  /\ now' = now + 1
  /\ UNCHANGED <<environment, truth, scan, inspector, poller, report>>

\* A basic scan completes with its findings, an enhanced one without.
EcrScans ==
  /\ Polling
  /\ \/ scan.status = "missing" /\ scan' = [scan EXCEPT !.status = "PENDING"]
     \/ scan.status = "PENDING" /\ scan' = [scan EXCEPT !.status = "IN_PROGRESS"]
     \/ /\ scan.status = "IN_PROGRESS"
        /\ scan' = [status |-> "COMPLETE", completedAt |-> now, attached |-> ~enhanced]
     \/ /\ scan.status = "IN_PROGRESS" /\ "scan" \in Faults
        /\ scan' = [scan EXCEPT !.status = "FAILED"]
  /\ UNCHANGED <<now, environment, truth, inspector, poller, report>>

EcrAttaches ==
  /\ Polling
  /\ enhanced /\ inspector.published /\ truth # {}
  /\ scan.status = "COMPLETE" /\ ~scan.attached
  /\ scan' = [scan EXCEPT !.attached = TRUE]
  /\ UNCHANGED <<now, environment, truth, inspector, poller, report>>

\* A scan that ends before ECR's own completion says nothing about the image yet.
InspectorScans ==
  /\ Polling /\ enhanced /\ inspector.coverage # "unsupported" /\ inspector.scannedAt # now
  /\ \/ /\ inspector' = [coverage |-> "scanned", scannedAt |-> now, published |->
             \/ inspector.published
             \/ scan.status = "COMPLETE" /\ now >= scan.completedAt + Lag]
     \/ /\ "unsupported" \in Faults /\ inspector.coverage = "none"
        /\ inspector' = [inspector EXCEPT !.coverage = "unsupported"]
  /\ UNCHANGED <<now, environment, truth, scan, poller, report>>

InspectorPublishes ==
  /\ Polling
  /\ scan.status = "COMPLETE" /\ inspector.scannedAt >= scan.completedAt
  /\ ~inspector.published
  /\ inspector' = [inspector EXCEPT !.published = TRUE]
  /\ UNCHANGED <<now, environment, truth, scan, poller, report>>

\* A rescan finds what an advisory published meanwhile tells it to look for.
Drift ==
  /\ Polling /\ "drift" \in Faults /\ inspector.published
  /\ \E f \in News : truth' = truth \cup {f} /\ truth' # truth
  /\ UNCHANGED <<now, environment, scan, inspector, poller, report>>

Held == IF inspector.published THEN truth ELSE {}

-----------------------------------------------------------------------------
(* The bodies that describe-image-scan-findings gives *)

RawCounts(findings) == [s \in RawSeverities |-> CountOf(findings, s)]

\* An enhanced body carries an empty basic array as well.
Body(digest, counted, listed, basic) ==
  [ status           |-> scan.status,
    imageDigest      |-> digest,
    completedAt      |-> scan.completedAt,
    hasCounts        |-> scan.attached,
    counts           |-> RawCounts(counted),
    hasEnhanced      |-> scan.attached /\ enhanced,
    enhancedFindings |-> IF scan.attached /\ enhanced THEN listed ELSE {},
    findings         |-> basic \cup (IF scan.attached /\ ~enhanced THEN listed ELSE {}) ]

Bodies ==
  {Body(Digest, truth, truth, {})}
  \cup (IF "garbled" \in Faults /\ scan.attached
        THEN {Body(Digest, truth, truth \ {f}, {}) : f \in truth}
             \cup {Body(Digest, truth, truth, truth)}
        ELSE {})
  \cup (IF "moved" \in Faults /\ ~byDigest THEN {Body(Other, {}, {}, {})} ELSE {})

FindingsAttached(body) == body.hasCounts

-----------------------------------------------------------------------------
(* normalizeEcrResponse *)

FIX_AVAILABLE == [YES |-> "yes", PARTIAL |-> "yes", NO |-> "no"]

Normalize(f) ==
  [ id       |-> f.id,
    severity |-> SEVERITY_MAP[f.severity],
    fix      |-> IF enhanced THEN FIX_AVAILABLE[f.fixAvailable] ELSE "absent" ]

Parsed(body) == IF body.hasEnhanced THEN body.enhancedFindings ELSE body.findings

Normalizable(body) ==
  \A f \in Parsed(body) :
    /\ f.severity \in DOMAIN SEVERITY_MAP
    /\ body.hasEnhanced => f.usable /\ f.fixAvailable \in DOMAIN FIX_AVAILABLE

\* ECR's own count of a severity, over the raw severities that map to it.
Reported(body, severity) ==
  LET Part(raw) == IF SEVERITY_MAP[raw] = severity THEN body.counts[raw] ELSE 0
  IN Part("CRITICAL") + Part("HIGH") + Part("MEDIUM") + Part("LOW")
     + Part("INFORMATIONAL") + Part("UNDEFINED") + Part("UNTRIAGED")

\* Variant: only the first guard, the mode by the array that is there.
ReconciledLoosely(body) == Normalizable(body) /\ body.counts["unmapped"] = 0

\* "Any finding the parser did not see is a count mismatch."
Reconciled(body) ==
  /\ Normalizable(body)
  /\ body.counts["unmapped"] = 0
  /\ \A s \in Severities :
       Reported(body, s) = Cardinality({f \in Parsed(body) : SEVERITY_MAP[f.severity] = s})

NormalizeAccepts(body) ==
  /\ FindingsAttached(body)
  /\ byDigest => body.imageDigest = Digest
  /\ ~(body.hasEnhanced /\ body.enhancedFindings # {} /\ body.findings # {})
  /\ Reconciled(body)

ReportOf(body, findings) ==
  [ schemaVersion  |-> 1,
    source         |-> IF enhanced THEN "aws-ecr-enhanced" ELSE "aws-ecr-basic",
    scanStatus     |-> "COMPLETE",
    imageDigest    |-> body.imageDigest,
    severityCounts |-> [s \in Severities |-> CountOf(findings, s)],
    findings       |-> findings ]

NormalizeEcrResponse(body) == ReportOf(body, {Normalize(f) : f \in Parsed(body)})

CleanEnhancedReport(body) == ReportOf(body, {})

-----------------------------------------------------------------------------
(* pollEcrScan and confirmCleanEnhancedScan *)

Fail == /\ poller' = [poller EXCEPT !.pc = "failed", !.body = NoBody]
        /\ UNCHANGED report

\* Variant: the attempts are not limited.
NotReadyUnlimited ==
  /\ poller' = [poller EXCEPT !.pc = "waiting", !.wake = now + Delay, !.body = NoBody]
  /\ UNCHANGED report

\* Nothing to report yet: the next attempt, or the polling limit.
NotReady ==
  \/ /\ poller.attempt < MaxAttempts
     /\ poller' = [poller EXCEPT !.pc = "waiting", !.wake = now + Delay, !.body = NoBody]
     /\ UNCHANGED report
  \/ poller.attempt = MaxAttempts /\ Fail

Return(r) == /\ report' = r
             /\ poller' = [poller EXCEPT !.pc = "reported", !.body = NoBody]

\* A call that fails for a while is asked again, one that lacks a permission not.
CallFails ==
  \/ "transient" \in Faults /\ NotReady
  \/ "denied" \in Faults /\ Fail

Settled(body) == now - body.completedAt >= Settle

\* The conditions of confirmCleanEnhancedScan on the body itself.
MayBeClean(body) ==
  /\ byDigest /\ body.imageDigest = Digest
  /\ ~body.hasCounts /\ ~body.hasEnhanced /\ body.findings = {}
  /\ Settled(body)

DescribeAnswers(body) ==
  CASE body.status = "COMPLETE" /\ FindingsAttached(body) ->
         IF NormalizeAccepts(body) THEN Return(NormalizeEcrResponse(body)) ELSE Fail
    [] body.status = "COMPLETE" /\ ~FindingsAttached(body) ->
         IF MayBeClean(body)
         THEN poller' = [poller EXCEPT !.pc = "coverage", !.body = body] /\ UNCHANGED report
         ELSE NotReady
    [] body.status \in {"IN_PROGRESS", "PENDING"} -> NotReady
    [] OTHER -> Fail

Describe ==
  /\ poller.pc = "describe"
  /\ \/ scan.status = "missing" /\ NotReady
     \/ scan.status # "missing" /\ \E body \in Bodies : DescribeAnswers(body)
     \/ CallFails
     \/ "json" \in Faults /\ Fail
  /\ UNCHANGED <<now, environment, truth, scan, inspector>>

\* Variant: the age of Inspector's scan is not compared.
CoverageIsPresent(body) == inspector.coverage = "scanned"

CoverageConfirms(body) ==
  inspector.coverage = "scanned" /\ inspector.scannedAt >= body.completedAt

\* Variant: what Inspector does not confirm is asked again, not counted as an attempt.
ListCoverageUncounted ==
  /\ poller.pc = "coverage"
  /\ \/ /\ CoverageConfirms(poller.body)
        /\ poller' = [poller EXCEPT !.pc = "findings"]
     \/ /\ ~CoverageConfirms(poller.body)
        /\ poller' = [poller EXCEPT !.pc = "describe", !.body = NoBody]
  /\ UNCHANGED <<now, environment, truth, scan, inspector, report>>

ListCoverage ==
  /\ poller.pc = "coverage"
  /\ \/ /\ CoverageConfirms(poller.body)
        /\ poller' = [poller EXCEPT !.pc = "findings"]
        /\ UNCHANGED report
     \/ ~CoverageConfirms(poller.body) /\ NotReady
     \/ CallFails
  /\ UNCHANGED <<now, environment, truth, scan, inspector>>

ListFindings ==
  /\ poller.pc = "findings"
  /\ \/ Held = {} /\ Return(CleanEnhancedReport(poller.body))
     \/ Held # {} /\ NotReady
     \/ CallFails
  /\ UNCHANGED <<now, environment, truth, scan, inspector>>

Wake ==
  /\ poller.pc = "waiting" /\ now >= poller.wake
  /\ poller' = [poller EXCEPT !.pc = "describe", !.attempt = @ + 1]
  /\ UNCHANGED <<now, environment, truth, scan, inspector, report>>

Poll == Describe \/ ListCoverage \/ ListFindings \/ Wake

Next ==
  \/ Tick
  \/ EcrScans \/ EcrAttaches \/ InspectorScans \/ InspectorPublishes \/ Drift
  \/ Poll

Spec == Init /\ [][Next]_vars

\* The poller's process runs, its calls end, and time passes; an overdue
\* publication must happen for time to pass.  Nothing else is owed by AWS.
FairSpec == Spec /\ WF_vars(Poll) /\ WF_vars(Tick) /\ WF_vars(InspectorPublishes)

-----------------------------------------------------------------------------
(* Properties *)

TypeOK ==
  /\ now \in Nat
  /\ enhanced \in BOOLEAN /\ byDigest \in BOOLEAN /\ policy \in Policies
  /\ truth \in SUBSET RawFinding
  /\ scan \in [status : {"missing", "PENDING", "IN_PROGRESS", "COMPLETE", "FAILED"},
               completedAt : Nat, attached : BOOLEAN]
  /\ inspector \in [coverage : {"none", "scanned", "unsupported"}, scannedAt : Nat,
                    published : BOOLEAN]
  /\ poller.pc \in {"describe", "coverage", "findings", "waiting", "reported", "failed"}
  /\ poller.attempt \in 1..MaxAttempts
  /\ poller.wake \in Nat
  /\ poller.body # NoBody <=> poller.pc \in {"coverage", "findings"}
  /\ report \in Report \cup {NoReport}
  /\ report # NoReport <=> poller.pc = "reported"

\* The verdict that the policy intends for what the scanner found.
Intended(findings) ==
  LET serious == {f \in findings : f.severity \in {"CRITICAL", "HIGH", "UNTRIAGED"}}
  IN CASE \E f \in serious : ~enhanced \/ f.fixAvailable \in {"YES", "PARTIAL"} -> "BLOCK_DEPLOY"
       [] serious # {} /\ (\A f \in serious : enhanced /\ f.fixAvailable = "NO") ->
            "DEPLOY-WITH-EXCEPTIONS"
       [] OTHER -> "DEPLOY"

NewReport == report' # report /\ report'.imageDigest = Digest

\* "A normalizer that only read findings ... normalized to zero, and the image
\* deployed": whatever mode, shape, fault or rescan the poller meets, the gate's
\* verdict on its report is the one that the findings of the moment deserve.
VerdictIsEarned ==
  [][NewReport =>
       RunImageGate("ecr", policy, report').verdict =
         IF PolicyIsValid(policy) THEN Intended(truth) ELSE "BLOCK_DEPLOY"]_vars

\* A clean report of an image is never "not attached yet": Inspector had
\* scanned the image after ECR's completion, and it holds nothing.
CleanIsTrue ==
  [][NewReport /\ report'.findings = {} =>
       truth = {} /\ (enhanced => inspector.scannedAt >= scan.completedAt)]_vars

\* The poll ends, whatever AWS does or never does.
PollEnds == <>(poller.pc \in {"reported", "failed"})
=============================================================================
