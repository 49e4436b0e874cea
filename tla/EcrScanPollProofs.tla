--------------------------- MODULE EcrScanPollProofs ---------------------------
(***************************************************************************)
(* Proofs about the registry scan poller, for any findings, policies,      *)
(* limits and faults: its types, that a report's verdict is the one the    *)
(* findings of the moment deserve, and that a clean report is true.  Two   *)
(* arguments carry them: the registry's counts leave no body with a        *)
(* finding missing (WholeBody), and a body without counts that has settled *)
(* is one whose findings would have been published (PollerInv, OnTime).    *)
(***************************************************************************)
EXTENDS EcrScanPoll, FiniteSetTheorems, TLAPS

-----------------------------------------------------------------------------
(* The inductive invariant *)

\* What ECR attaches, and when.
ScanInv ==
  /\ scan.attached => scan.status = "COMPLETE"
  /\ scan.status = "COMPLETE" /\ ~enhanced => scan.attached
  /\ scan.attached /\ enhanced => truth # {}
  /\ scan.completedAt =< now

\* Inspector lists what it found by Lag after the completion that it follows.
OnTime ==
  scan.status = "COMPLETE" /\ inspector.scannedAt >= scan.completedAt /\ ~inspector.published
    => now =< scan.completedAt + Lag

\* The poller's record, what it knows while it confirms a clean scan, and that it
\* waits only below the limit of attempts.
PollerInv ==
  /\ poller = [pc |-> poller.pc, attempt |-> poller.attempt, wake |-> poller.wake,
               body |-> poller.body]
  /\ poller.pc \in {"coverage", "findings"} =>
       /\ enhanced /\ scan.status = "COMPLETE"
       /\ poller.body.imageDigest = Digest
       /\ poller.body.completedAt = scan.completedAt
       /\ now - scan.completedAt >= Settle
  /\ poller.pc = "findings" => inspector.scannedAt >= scan.completedAt
  /\ poller.pc = "waiting" => poller.attempt < MaxAttempts

IInv ==
  /\ TypeOK /\ IsFiniteSet(truth)
  /\ ScanInv /\ OnTime /\ PollerInv

-----------------------------------------------------------------------------
(* What a body says *)

\* The number of findings in T whose raw severity is in A.
Among(T, A) == Cardinality({f \in T : f.severity \in A})

\* It is a number.
LEMMA AmongType ==
  ASSUME NEW T, IsFiniteSet(T), NEW A
  PROVE  Among(T, A) \in Nat
<1>1. IsFiniteSet({f \in T : f.severity \in A})
  BY FS_Subset, {f \in T : f.severity \in A} \subseteq T
<1> QED BY <1>1, FS_CardinalityType DEF Among

\* Counting two disjoint sets of severities counts both.
LEMMA CountsAdd ==
  ASSUME NEW T, IsFiniteSet(T), NEW A, NEW B, A \cap B = {}
  PROVE  Among(T, A \cup B) = Among(T, A) + Among(T, B)
<1> DEFINE P == {f \in T : f.severity \in A}
           Q == {f \in T : f.severity \in B}
           R == {f \in T : f.severity \in A \cup B}
<1>1. IsFiniteSet(P) /\ IsFiniteSet(Q)
  BY FS_Subset, P \subseteq T, Q \subseteq T
<1>2. P \cap Q = {} /\ P \cup Q = R
  OBVIOUS
<1>3. Among(T, A) = Cardinality(P) /\ Among(T, B) = Cardinality(Q)
      /\ Among(T, A \cup B) = Cardinality(R)
  BY DEF Among
<1> HIDE DEF P, Q, R
<1>4. /\ Cardinality(P \cup Q) = Cardinality(P) + Cardinality(Q) - Cardinality(P \cap Q)
      /\ Cardinality(P) \in Nat /\ Cardinality(Q) \in Nat
  BY <1>1, FS_Union, FS_CardinalityType
<1>5. Cardinality(P \cap Q) = 0 /\ Cardinality(P \cup Q) = Cardinality(R)
  BY <1>2, FS_EmptySet, Zenon
<1>6. Cardinality(R) = Cardinality(P) + Cardinality(Q)
  BY <1>4, <1>5
<1> QED BY <1>3, <1>6

\* A finding whose severity ECR's counts do not hold as unmapped is mapped.
LEMMA CountedIsMapped ==
  ASSUME NEW T \in SUBSET RawFinding, IsFiniteSet(T), Among(T, {"unmapped"}) = 0
  PROVE  \A f \in T : f.severity \in DOMAIN SEVERITY_MAP
<1> DEFINE U == {f \in T : f.severity \in {"unmapped"}}
<1>1. IsFiniteSet(U)
  BY FS_Subset, U \subseteq T
<1>2. Cardinality(U) = 0
  BY DEF Among
<1>3. U = {}
  <2> HIDE DEF U
  <2> QED BY <1>1, <1>2, FS_EmptySet
<1>4. \A f \in T : f.severity # "unmapped"
  BY <1>3
<1>5. \A f \in T : f.severity \in RawSeverities
  BY DEF RawFinding
<1> QED BY <1>4, <1>5 DEF RawSeverities

\* The raw severities that are mapped, and what they are mapped to.
LEMMA MapValues ==
  /\ DOMAIN SEVERITY_MAP = {"CRITICAL", "HIGH", "MEDIUM", "LOW", "INFORMATIONAL", "UNDEFINED",
                            "UNTRIAGED"}
  /\ SEVERITY_MAP["CRITICAL"] = "critical" /\ SEVERITY_MAP["HIGH"] = "high"
  /\ SEVERITY_MAP["MEDIUM"] = "medium" /\ SEVERITY_MAP["LOW"] = "low"
  /\ SEVERITY_MAP["INFORMATIONAL"] = "low" /\ SEVERITY_MAP["UNDEFINED"] = "low"
  /\ SEVERITY_MAP["UNTRIAGED"] = "high"
BY DEF SEVERITY_MAP

\* A severity is what the findings of one, two or three raw severities have.
LEMMA MapInverse ==
  ASSUME NEW T, \A f \in T : f.severity \in DOMAIN SEVERITY_MAP
  PROVE  /\ Cardinality({f \in T : SEVERITY_MAP[f.severity] = "critical"}) = Among(T, {"CRITICAL"})
         /\ Cardinality({f \in T : SEVERITY_MAP[f.severity] = "high"}) =
              Among(T, {"HIGH"} \cup {"UNTRIAGED"})
         /\ Cardinality({f \in T : SEVERITY_MAP[f.severity] = "medium"}) = Among(T, {"MEDIUM"})
         /\ Cardinality({f \in T : SEVERITY_MAP[f.severity] = "low"}) =
              Among(T, {"LOW"} \cup {"INFORMATIONAL"} \cup {"UNDEFINED"})
<1>1. {f \in T : SEVERITY_MAP[f.severity] = "critical"} = {f \in T : f.severity \in {"CRITICAL"}}
  BY MapValues
<1>2. {f \in T : SEVERITY_MAP[f.severity] = "high"} =
        {f \in T : f.severity \in {"HIGH"} \cup {"UNTRIAGED"}}
  BY MapValues
<1>3. {f \in T : SEVERITY_MAP[f.severity] = "medium"} = {f \in T : f.severity \in {"MEDIUM"}}
  BY MapValues
<1>4. {f \in T : SEVERITY_MAP[f.severity] = "low"} =
        {f \in T : f.severity \in {"LOW"} \cup {"INFORMATIONAL"} \cup {"UNDEFINED"}}
  BY MapValues
<1> QED BY <1>1, <1>2, <1>3, <1>4 DEF Among

\* The registry's counts of findings T, summed by the severity they map to, are the
\* numbers of those findings.
LEMMA ReportedCounts ==
  ASSUME NEW T \in SUBSET RawFinding, IsFiniteSet(T), NEW body, body.counts = RawCounts(T),
         body.counts["unmapped"] = 0
  PROVE  /\ \A f \in T : f.severity \in DOMAIN SEVERITY_MAP
         /\ \A s \in Severities :
              Reported(body, s) = Cardinality({f \in T : SEVERITY_MAP[f.severity] = s})
<1> DEFINE M(s) == Cardinality({f \in T : SEVERITY_MAP[f.severity] = s})
<1>1. \A raw \in RawSeverities : body.counts[raw] = Among(T, {raw})
  <2> SUFFICES ASSUME NEW raw \in RawSeverities
               PROVE  CountOf(T, raw) = Among(T, {raw})
    BY DEF RawCounts
  <2>1. {f \in T : f.severity = raw} = {f \in T : f.severity \in {raw}}
    OBVIOUS
  <2> QED BY <2>1 DEF CountOf, Among
<1>2. /\ body.counts["CRITICAL"] = Among(T, {"CRITICAL"})
      /\ body.counts["HIGH"] = Among(T, {"HIGH"})
      /\ body.counts["MEDIUM"] = Among(T, {"MEDIUM"})
      /\ body.counts["LOW"] = Among(T, {"LOW"})
      /\ body.counts["INFORMATIONAL"] = Among(T, {"INFORMATIONAL"})
      /\ body.counts["UNDEFINED"] = Among(T, {"UNDEFINED"})
      /\ body.counts["UNTRIAGED"] = Among(T, {"UNTRIAGED"})
      /\ body.counts["unmapped"] = Among(T, {"unmapped"})
  BY <1>1, MapValues DEF RawSeverities
<1>3. /\ Among(T, {"CRITICAL"}) \in Nat /\ Among(T, {"HIGH"}) \in Nat
      /\ Among(T, {"MEDIUM"}) \in Nat /\ Among(T, {"LOW"}) \in Nat
      /\ Among(T, {"INFORMATIONAL"}) \in Nat /\ Among(T, {"UNDEFINED"}) \in Nat
      /\ Among(T, {"UNTRIAGED"}) \in Nat
  BY AmongType
<1>4. \A f \in T : f.severity \in DOMAIN SEVERITY_MAP
  BY <1>2, CountedIsMapped
<1>5. Among(T, {"HIGH"} \cup {"UNTRIAGED"}) = Among(T, {"HIGH"}) + Among(T, {"UNTRIAGED"})
  <2>1. {"HIGH"} \cap {"UNTRIAGED"} = {}
    OBVIOUS
  <2> QED BY <2>1, CountsAdd
<1>6. Among(T, {"LOW"} \cup {"INFORMATIONAL"} \cup {"UNDEFINED"})
        = Among(T, {"LOW"}) + Among(T, {"INFORMATIONAL"}) + Among(T, {"UNDEFINED"})
  <2>1. {"LOW"} \cap {"INFORMATIONAL"} = {}
        /\ ({"LOW"} \cup {"INFORMATIONAL"}) \cap {"UNDEFINED"} = {}
    OBVIOUS
  <2>2. Among(T, {"LOW"} \cup {"INFORMATIONAL"})
          = Among(T, {"LOW"}) + Among(T, {"INFORMATIONAL"})
    BY <2>1, CountsAdd
  <2>3. Among(T, ({"LOW"} \cup {"INFORMATIONAL"}) \cup {"UNDEFINED"})
          = Among(T, {"LOW"} \cup {"INFORMATIONAL"}) + Among(T, {"UNDEFINED"})
    BY <2>1, CountsAdd
  <2> QED BY <2>2, <2>3
<1>7. /\ Reported(body, "critical") = Among(T, {"CRITICAL"})
      /\ Reported(body, "high") = Among(T, {"HIGH"}) + Among(T, {"UNTRIAGED"})
      /\ Reported(body, "medium") = Among(T, {"MEDIUM"})
      /\ Reported(body, "low")
           = Among(T, {"LOW"}) + Among(T, {"INFORMATIONAL"}) + Among(T, {"UNDEFINED"})
  BY <1>2, <1>3, MapValues DEF Reported
<1>8. Severities = {"critical", "high", "medium", "low"}
  BY DEF Severities
<1>9. /\ Reported(body, "critical") = M("critical") /\ Reported(body, "high") = M("high")
      /\ Reported(body, "medium") = M("medium") /\ Reported(body, "low") = M("low")
  BY <1>4, <1>5, <1>6, <1>7, MapInverse
<1>10. \A s \in Severities : Reported(body, s) = M(s)
  <2> HIDE DEF M
  <2> QED BY <1>8, <1>9
<1> QED BY <1>4, <1>10

\* The fields of a body that the services can give.
LEMMA BodyFields ==
  ASSUME NEW digest, NEW counted, NEW listed, NEW basic, NEW body,
         body = Body(digest, counted, listed, basic)
  PROVE  /\ body.status = scan.status /\ body.imageDigest = digest
         /\ body.completedAt = scan.completedAt
         /\ (body.hasCounts <=> scan.attached) /\ body.counts = RawCounts(counted)
         /\ (body.hasEnhanced <=> scan.attached /\ enhanced)
         /\ body.enhancedFindings = (IF scan.attached /\ enhanced THEN listed ELSE {})
         /\ body.findings = basic \cup (IF scan.attached /\ ~enhanced THEN listed ELSE {})
         /\ Parsed(body) = IF scan.attached /\ enhanced THEN listed ELSE body.findings
BY DEF Body, Parsed

\* A body is whole, lists less than it counts, fills both arrays, or is another
\* image's.
LEMMA BodyKinds ==
  ASSUME NEW body \in Bodies
  PROVE  \/ body = Body(Digest, truth, truth, {})
         \/ scan.attached /\ \E f \in truth : body = Body(Digest, truth, truth \ {f}, {})
         \/ scan.attached /\ body = Body(Digest, truth, truth, truth)
         \/ body = Body(Other, {}, {}, {})
BY DEF Bodies

\* The whole body lists what the scan found, when the findings are attached.
LEMMA WholeListed ==
  ASSUME scan.attached, NEW body, body = Body(Digest, truth, truth, {})
  PROVE  Parsed(body) = truth
<1> DEFINE basic == {} \cup (IF scan.attached /\ ~enhanced THEN truth ELSE {})
<1>1. /\ body.findings = basic
      /\ Parsed(body) = IF scan.attached /\ enhanced THEN truth ELSE body.findings
  <2>1. body.findings = basic
    BY DEF Body
  <2>2. (body.hasEnhanced <=> scan.attached /\ enhanced)
        /\ body.enhancedFindings = (IF scan.attached /\ enhanced THEN truth ELSE {})
    BY DEF Body
  <2> HIDE DEF basic
  <2> QED BY <2>1, <2>2 DEF Parsed
<1>2. ~enhanced => basic = truth
  OBVIOUS
<1> HIDE DEF basic
<1> QED BY <1>1, <1>2

\* Whatever a body lists is true.
LEMMA ParsedIsTrue ==
  ASSUME NEW body \in Bodies
  PROVE  /\ Parsed(body) \subseteq truth
         /\ body.status = scan.status /\ body.completedAt = scan.completedAt
         /\ (body.hasCounts <=> scan.attached)
         /\ (body.hasEnhanced <=> scan.attached /\ enhanced)
         /\ body.imageDigest \in {Digest, Other}
<1> DEFINE Goal == /\ Parsed(body) \subseteq truth
                   /\ body.status = scan.status /\ body.completedAt = scan.completedAt
                   /\ (body.hasCounts <=> scan.attached)
                   /\ (body.hasEnhanced <=> scan.attached /\ enhanced)
                   /\ body.imageDigest \in {Digest, Other}
<1>1. CASE body = Body(Digest, truth, truth, {})
  BY <1>1, BodyFields
<1>2. ASSUME NEW f \in truth, body = Body(Digest, truth, truth \ {f}, {})
      PROVE  Goal
  BY <1>2, BodyFields
<1>3. CASE scan.attached /\ body = Body(Digest, truth, truth, truth)
  BY <1>3, BodyFields
<1>4. CASE body = Body(Other, {}, {}, {})
  BY <1>4, BodyFields
<1> QED BY <1>1, <1>2, <1>3, <1>4, BodyKinds

\* A body that lists one finding less than it counts is not reconciled.
LEMMA MissedIsRejected ==
  ASSUME IInv, NEW f \in truth, NEW body, Parsed(body) = truth \ {f},
         body.counts = RawCounts(truth)
  PROVE  ~Reconciled(body)
<1> SUFFICES ASSUME Reconciled(body) PROVE FALSE
  OBVIOUS
<1>1. truth \in SUBSET RawFinding /\ IsFiniteSet(truth) /\ body.counts["unmapped"] = 0
  BY DEF IInv, TypeOK, Reconciled
<1>2. /\ \A g \in truth : g.severity \in DOMAIN SEVERITY_MAP
      /\ \A s \in Severities :
           Reported(body, s) = Cardinality({g \in truth : SEVERITY_MAP[g.severity] = s})
  BY <1>1, ReportedCounts
<1> DEFINE s == SEVERITY_MAP[f.severity]
           X == {g \in truth : SEVERITY_MAP[g.severity] = s}
           Y == {g \in Parsed(body) : SEVERITY_MAP[g.severity] = s}
<1>3. s \in Severities
  BY <1>2, MapValues DEF Severities
<1>4. Reported(body, s) = Cardinality(X) /\ Reported(body, s) = Cardinality(Y)
  BY <1>2, <1>3 DEF Reconciled
<1>5. f \in X /\ Y = X \ {f}
  OBVIOUS
<1>6. IsFiniteSet(X)
  BY <1>1, FS_Subset, X \subseteq truth
<1> HIDE DEF X, Y, s
<1>7. Cardinality(X) \in Nat /\ Cardinality(X \ {f}) = Cardinality(X) - 1
  BY <1>5, <1>6, FS_CardinalityType, FS_RemoveElement
<1>8. Cardinality(Y) = Cardinality(X \ {f})
  BY <1>5, Zenon
<1>9. Cardinality(X) = Cardinality(X) - 1
  BY <1>4, <1>7, <1>8
<1> QED BY <1>7, <1>9

\* A body of the pushed image that the normalizer accepts lists everything that the
\* scan of the image found, and nothing that it cannot read.
LEMMA WholeBody ==
  ASSUME IInv, NEW body \in Bodies, NormalizeAccepts(body), body.imageDigest = Digest
  PROVE  /\ Parsed(body) = truth
         /\ \A f \in truth : /\ f.severity \in DOMAIN SEVERITY_MAP
                             /\ enhanced => f.fixAvailable \in DOMAIN FIX_AVAILABLE
         /\ scan.attached
<1>1. scan.attached /\ Reconciled(body) /\ Normalizable(body)
      /\ ~(body.hasEnhanced /\ body.enhancedFindings # {} /\ body.findings # {})
  BY ParsedIsTrue DEF NormalizeAccepts, FindingsAttached, Reconciled
<1>2. (body.hasEnhanced <=> enhanced) /\ enhanced \in BOOLEAN
  BY <1>1, ParsedIsTrue DEF IInv, TypeOK
<1>3. Parsed(body) = truth
  <2>1. CASE body = Body(Digest, truth, truth, {})
    BY <1>1, <2>1, WholeListed
  <2>2. ASSUME NEW f \in truth, body = Body(Digest, truth, truth \ {f}, {}) PROVE FALSE
    <3>1. Parsed(body) = truth \ {f} /\ body.counts = RawCounts(truth)
      BY <1>1, <1>2, <2>2, BodyFields
    <3> QED BY <1>1, <3>1, MissedIsRejected
  <2>3. CASE body = Body(Digest, truth, truth, truth)
    <3>1. body.findings = truth \cup (IF scan.attached /\ ~enhanced THEN truth ELSE {})
          /\ body.enhancedFindings = (IF scan.attached /\ enhanced THEN truth ELSE {})
      BY <2>3, BodyFields
    <3>2. enhanced => truth # {}
      BY <1>1 DEF IInv, ScanInv
    <3>3. ~enhanced
      BY <1>1, <1>2, <3>1, <3>2
    <3> QED BY <1>2, <3>1, <3>3 DEF Parsed
  <2>4. CASE body = Body(Other, {}, {}, {})
    BY <2>4, BodyFields, FaultsAssumption
  <2> QED BY <2>1, <2>2, <2>3, <2>4, BodyKinds
<1> QED BY <1>1, <1>2, <1>3 DEF Normalizable

-----------------------------------------------------------------------------
(* What the poller reports *)

\* The finding records of a report.
Finding == [id : Nat, severity : Severities, fix : {"yes", "no", "absent"}]

\* A finding that the parser can read.
Readable(f) ==
  /\ f.severity \in DOMAIN SEVERITY_MAP
  /\ enhanced => f.fixAvailable \in DOMAIN FIX_AVAILABLE

\* Normalizing finitely many readable findings gives finitely many finding records.
LEMMA NormalizedFindings ==
  ASSUME NEW T \in SUBSET RawFinding, IsFiniteSet(T), \A f \in T : Readable(f)
  PROVE  /\ {Normalize(f) : f \in T} \in SUBSET Finding
         /\ IsFiniteSet({Normalize(f) : f \in T})
         /\ enhanced => \A g \in {Normalize(f) : f \in T} : g.fix \in {"yes", "no"}
<1> DEFINE F == {Normalize(f) : f \in T}
           h == [f \in T |-> Normalize(f)]
<1>1. ASSUME NEW f \in T
      PROVE  Normalize(f) \in Finding /\ (enhanced => Normalize(f).fix \in {"yes", "no"})
  <2>1. SEVERITY_MAP[f.severity] \in Severities /\ f.id \in Nat
    BY MapValues DEF Readable, RawFinding, Severities
  <2>2. enhanced => FIX_AVAILABLE[f.fixAvailable] \in {"yes", "no"}
    BY DEF Readable, FIX_AVAILABLE
  <2> QED BY <2>1, <2>2 DEF Normalize, Finding
<1>2. h \in Surjection(T, F)
  BY DEF Surjection
<1>3. IsFiniteSet(F)
  BY <1>2, FS_Surjection
<1> QED BY <1>1, <1>3

\* The report of finitely many findings, with its own counts.
LEMMA ReportType ==
  ASSUME TypeOK, NEW F \in SUBSET Finding, IsFiniteSet(F), NEW body,
         body.imageDigest \in {Digest, Other}
  PROVE  ReportOf(body, F) \in Report
<1>1. [s \in Severities |-> CountOf(F, s)] \in [Severities -> Nat]
  <2> SUFFICES ASSUME NEW s \in Severities PROVE CountOf(F, s) \in Nat
    OBVIOUS
  <2>1. IsFiniteSet({f \in F : f.severity = s})
    BY FS_Subset, {f \in F : f.severity = s} \subseteq F
  <2> QED BY <2>1, FS_CardinalityType DEF CountOf
<1>2. (IF enhanced THEN "aws-ecr-enhanced" ELSE "aws-ecr-basic") \in RegistrySources
  BY DEF RegistrySources
<1> DEFINE counts == [s \in Severities |-> CountOf(F, s)]
           source == IF enhanced THEN "aws-ecr-enhanced" ELSE "aws-ecr-basic"
<1>3. ReportOf(body, F) =
        [schemaVersion |-> 1, source |-> source, scanStatus |-> "COMPLETE",
         imageDigest |-> body.imageDigest, severityCounts |-> counts, findings |-> F]
  BY DEF ReportOf
<1> HIDE DEF counts, source
<1> QED BY <1>1, <1>2, <1>3 DEF Report, Finding, counts, source

\* What the gate is given on an accepted body is a report; so is the clean report.
LEMMA NormalizedReport ==
  ASSUME IInv, NEW body \in Bodies, NormalizeAccepts(body)
  PROVE  NormalizeEcrResponse(body) \in Report
<1>1. scan.attached /\ Normalizable(body)
  BY ParsedIsTrue DEF NormalizeAccepts, FindingsAttached, Reconciled
<1>2. Parsed(body) \subseteq truth /\ (body.hasEnhanced <=> enhanced)
      /\ body.imageDigest \in {Digest, Other}
  BY <1>1, ParsedIsTrue DEF IInv, TypeOK
<1>3. Parsed(body) \in SUBSET RawFinding /\ IsFiniteSet(Parsed(body))
  BY <1>2, FS_Subset DEF IInv, TypeOK
<1>4. \A f \in Parsed(body) : Readable(f)
  BY <1>1, <1>2 DEF Normalizable, Readable
<1> DEFINE F == {Normalize(f) : f \in Parsed(body)}
<1>5. F \in SUBSET Finding /\ IsFiniteSet(F)
  BY <1>3, <1>4, NormalizedFindings
<1>6. NormalizeEcrResponse(body) = ReportOf(body, F)
  BY DEF NormalizeEcrResponse
<1> HIDE DEF F
<1> QED BY <1>2, <1>5, <1>6, ReportType DEF IInv

\* So is the clean report.
LEMMA CleanReport ==
  ASSUME TypeOK, NEW body, body.imageDigest \in {Digest, Other}
  PROVE  CleanEnhancedReport(body) \in Report /\ CleanEnhancedReport(body).findings = {}
<1>1. ReportOf(body, {}) \in Report
  BY ReportType, FS_EmptySet, {} \in SUBSET Finding
<1> QED BY <1>1 DEF CleanEnhancedReport, ReportOf

-----------------------------------------------------------------------------
(* The steps of the services and the clock *)

\* Time passes only while no publication is overdue.
LEMMA TickStep ==
  ASSUME IInv, Tick
  PROVE  IInv'
<1> USE DEF IInv, Tick, environment
<1>1. TypeOK' /\ IsFiniteSet(truth)'
  BY DEF TypeOK
<1>2. ScanInv'
  BY DEF ScanInv, TypeOK
<1>3. OnTime'
  BY TimesAssumption DEF OnTime, Overdue, TypeOK
<1>4. PollerInv'
  BY TimesAssumption DEF PollerInv, TypeOK
<1> QED BY <1>1, <1>2, <1>3, <1>4

\* A basic scan completes with its findings, an enhanced one without.
LEMMA EcrScansStep ==
  ASSUME IInv, EcrScans
  PROVE  IInv'
<1> USE DEF IInv
<1>1. UNCHANGED <<now, enhanced, byDigest, policy, truth, inspector, poller, report>>
  BY DEF EcrScans, environment
<1>2. CASE scan.status \in {"missing", "PENDING"} /\ \E st \in {"PENDING", "IN_PROGRESS"} :
             scan' = [scan EXCEPT !.status = st]
  <2>1. PICK st \in {"PENDING", "IN_PROGRESS"} : scan' = [scan EXCEPT !.status = st]
    BY <1>2
  <2> QED BY <1>1, <1>2, <2>1 DEF TypeOK, ScanInv, OnTime, PollerInv
<1>3. CASE scan.status = "IN_PROGRESS" /\ scan' = [scan EXCEPT !.status = "FAILED"]
  BY <1>1, <1>3 DEF TypeOK, ScanInv, OnTime, PollerInv
<1>4. CASE /\ scan.status = "IN_PROGRESS"
           /\ scan' = [status |-> "COMPLETE", completedAt |-> now, attached |-> ~enhanced]
  <2>1. TypeOK' /\ IsFiniteSet(truth)'
    BY <1>1, <1>4 DEF TypeOK
  <2>2. ScanInv'
    <3>1. scan'.status = "COMPLETE" /\ scan'.completedAt = now /\ (scan'.attached <=> ~enhanced)
      BY <1>4
    <3>2. now =< now
      BY DEF TypeOK
    <3> QED BY <1>1, <3>1, <3>2 DEF ScanInv
  <2>3. OnTime'
    BY <1>1, <1>4, TimesAssumption DEF OnTime, TypeOK
  <2>4. PollerInv'
    BY <1>1, <1>4 DEF PollerInv
  <2> QED BY <2>1, <2>2, <2>3, <2>4
<1> QED BY <1>2, <1>3, <1>4 DEF EcrScans

\* ECR attaches the enhanced findings that Inspector has published.
LEMMA EcrAttachesStep ==
  ASSUME IInv, EcrAttaches
  PROVE  IInv'
BY DEF IInv, EcrAttaches, environment, TypeOK, ScanInv, OnTime, PollerInv

\* Inspector scans again, publishing at once what it owes.
LEMMA InspectorScansStep ==
  ASSUME IInv, InspectorScans
  PROVE  IInv'
<1> USE DEF IInv
<1>1. UNCHANGED <<now, enhanced, byDigest, policy, truth, scan, poller, report>>
  BY DEF InspectorScans, environment
<1>2. CASE inspector' =
             [coverage |-> "scanned", scannedAt |-> now, published |->
                \/ inspector.published
                \/ scan.status = "COMPLETE" /\ now >= scan.completedAt + Lag]
  <2>1. TypeOK' /\ IsFiniteSet(truth)'
    BY <1>1, <1>2 DEF TypeOK
  <2>2. ScanInv'
    BY <1>1 DEF ScanInv
  <2>3. OnTime'
    BY <1>1, <1>2, TimesAssumption DEF OnTime, TypeOK
  <2>4. PollerInv'
    BY <1>1, <1>2 DEF PollerInv, ScanInv, TypeOK
  <2> QED BY <2>1, <2>2, <2>3, <2>4
<1>3. CASE inspector' = [inspector EXCEPT !.coverage = "unsupported"]
  BY <1>1, <1>3 DEF TypeOK, ScanInv, OnTime, PollerInv
<1> QED BY <1>2, <1>3 DEF InspectorScans

\* Inspector publishes what it found.
LEMMA InspectorPublishesStep ==
  ASSUME IInv, InspectorPublishes
  PROVE  IInv'
BY DEF IInv, InspectorPublishes, environment, TypeOK, ScanInv, OnTime, PollerInv

\* A later advisory adds a finding.
LEMMA DriftStep ==
  ASSUME IInv, Drift
  PROVE  IInv'
<1> USE DEF IInv
<1>1. UNCHANGED <<now, enhanced, byDigest, policy, scan, inspector, poller, report>>
  BY DEF Drift, environment
<1>2. PICK f \in News : truth' = truth \cup {f}
  BY DEF Drift
<1>3. TypeOK'
  BY <1>1, <1>2, TruthsAssumption DEF TypeOK
<1>4. IsFiniteSet(truth \cup {f})
  BY FS_AddElement
<1>5. ScanInv'
  BY <1>1, <1>2 DEF ScanInv
<1>6. OnTime' /\ PollerInv'
  BY <1>1 DEF OnTime, PollerInv
<1> QED BY <1>2, <1>3, <1>4, <1>5, <1>6

-----------------------------------------------------------------------------
(* The steps of the poller *)

\* What a step of the poller leaves alone.
Outside == <<now, enhanced, byDigest, policy, truth, scan, inspector>>

\* A new state of the poller's record keeps the invariant when it has the types and
\* knows what its phase says.
LEMMA PollerMoves ==
  ASSUME IInv, UNCHANGED Outside,
         NEW pc \in {"describe", "coverage", "findings", "waiting", "reported", "failed"},
         NEW attempt \in 1..MaxAttempts, NEW wake \in Nat, NEW body,
         poller' = [pc |-> pc, attempt |-> attempt, wake |-> wake, body |-> body],
         body # NoBody <=> pc \in {"coverage", "findings"},
         report' \in Report \cup {NoReport}, report' # NoReport <=> pc = "reported",
         pc \in {"coverage", "findings"} =>
           /\ enhanced /\ scan.status = "COMPLETE"
           /\ body.imageDigest = Digest /\ body.completedAt = scan.completedAt
           /\ now - scan.completedAt >= Settle,
         pc = "findings" => inspector.scannedAt >= scan.completedAt,
         pc = "waiting" => attempt < MaxAttempts
  PROVE  IInv'
<1> USE DEF IInv, Outside
<1>1. poller'.pc = pc /\ poller'.attempt = attempt /\ poller'.wake = wake /\ poller'.body = body
  OBVIOUS
<1>2. TypeOK'
  BY <1>1 DEF TypeOK, NoBody
<1>3. ScanInv' /\ OnTime' /\ IsFiniteSet(truth)'
  BY DEF ScanInv, OnTime
<1>4. PollerInv'
  BY <1>1 DEF PollerInv
<1> QED BY <1>2, <1>3, <1>4

\* The poller gives up.
LEMMA FailStep ==
  ASSUME IInv, UNCHANGED Outside, Polling, Fail
  PROVE  IInv'
<1>1. poller' = [pc |-> "failed", attempt |-> poller.attempt, wake |-> poller.wake,
                 body |-> NoBody]
  BY DEF Fail, IInv, PollerInv
<1>2. /\ report' = report /\ report = NoReport
      /\ poller.attempt \in 1..MaxAttempts /\ poller.wake \in Nat
  BY DEF Fail, IInv, TypeOK, Polling
<1> QED BY <1>1, <1>2, PollerMoves

\* The poller waits for its next attempt, or gives up at the limit.
LEMMA NotReadyStep ==
  ASSUME IInv, UNCHANGED Outside, Polling, NotReady
  PROVE  IInv'
<1>1. CASE /\ poller.attempt < MaxAttempts
           /\ poller' = [poller EXCEPT !.pc = "waiting", !.wake = now + Delay, !.body = NoBody]
           /\ UNCHANGED report
  <2>1. poller' = [pc |-> "waiting", attempt |-> poller.attempt, wake |-> now + Delay,
                   body |-> NoBody]
    BY <1>1 DEF IInv, PollerInv
  <2>2. /\ report' = report /\ report = NoReport
        /\ poller.attempt \in 1..MaxAttempts /\ now + Delay \in Nat
        /\ poller.attempt < MaxAttempts
    BY <1>1, TimesAssumption DEF IInv, TypeOK, Polling
  <2> QED BY <2>1, <2>2, PollerMoves
<1> QED BY <1>1, FailStep DEF NotReady

\* The poller writes its report.
LEMMA ReturnStep ==
  ASSUME IInv, UNCHANGED Outside, NEW r \in Report, Return(r)
  PROVE  IInv'
<1>1. poller' = [pc |-> "reported", attempt |-> poller.attempt, wake |-> poller.wake,
                 body |-> NoBody]
  BY DEF Return, IInv, PollerInv
<1>2. /\ report' \in Report /\ report' # NoReport
      /\ poller.attempt \in 1..MaxAttempts /\ poller.wake \in Nat
  BY NoReportAssumption DEF Return, IInv, TypeOK
<1> QED BY <1>1, <1>2, PollerMoves

\* A call fails for a while, or for good.
LEMMA CallFailsStep ==
  ASSUME IInv, UNCHANGED Outside, Polling, CallFails
  PROVE  IInv'
BY NotReadyStep, FailStep DEF CallFails

\* The poller reads a body: it reports, asks for the coverage, waits or fails.
LEMMA DescribeAnswersStep ==
  ASSUME IInv, UNCHANGED Outside, poller.pc = "describe", NEW body \in Bodies,
         DescribeAnswers(body)
  PROVE  IInv'
<1>1. Polling
  BY DEF Polling
<1>2. CASE body.status = "COMPLETE" /\ FindingsAttached(body) /\ NormalizeAccepts(body)
           /\ Return(NormalizeEcrResponse(body))
  BY <1>2, NormalizedReport, ReturnStep
<1>3. CASE /\ body.status = "COMPLETE" /\ ~FindingsAttached(body) /\ MayBeClean(body)
           /\ poller' = [poller EXCEPT !.pc = "coverage", !.body = body] /\ UNCHANGED report
  <2>1. poller' = [pc |-> "coverage", attempt |-> poller.attempt, wake |-> poller.wake,
                   body |-> body]
    BY <1>3 DEF IInv, PollerInv
  <2>2. /\ report' = report /\ report = NoReport
        /\ poller.attempt \in 1..MaxAttempts /\ poller.wake \in Nat
    BY <1>3 DEF IInv, TypeOK
  <2>3. body # NoBody
    BY <1>3 DEF NoBody
  <2>4. /\ scan.status = "COMPLETE" /\ ~scan.attached /\ body.completedAt = scan.completedAt
    BY <1>3, ParsedIsTrue DEF FindingsAttached
  <2>5. enhanced
    BY <2>4 DEF IInv, ScanInv
  <2>6. body.imageDigest = Digest /\ now - scan.completedAt >= Settle
    BY <1>3, <2>4 DEF MayBeClean, Settled
  <2> QED BY <2>1, <2>2, <2>3, <2>4, <2>5, <2>6, PollerMoves
<1>4. DescribeAnswers(body) =>
        \/ /\ body.status = "COMPLETE" /\ FindingsAttached(body) /\ NormalizeAccepts(body)
           /\ Return(NormalizeEcrResponse(body))
        \/ /\ body.status = "COMPLETE" /\ ~FindingsAttached(body) /\ MayBeClean(body)
           /\ poller' = [poller EXCEPT !.pc = "coverage", !.body = body] /\ UNCHANGED report
        \/ NotReady
        \/ Fail
  BY DEF DescribeAnswers
<1> QED BY <1>1, <1>2, <1>3, <1>4, NotReadyStep, FailStep

\* The poller describes the scan.
LEMMA DescribeStep ==
  ASSUME IInv, Describe
  PROVE  IInv'
<1>1. UNCHANGED Outside /\ Polling /\ poller.pc = "describe"
  BY DEF Describe, Outside, environment, Polling
<1> QED BY <1>1, NotReadyStep, FailStep, CallFailsStep, DescribeAnswersStep DEF Describe

\* The poller asks Inspector when it scanned the image.
LEMMA ListCoverageStep ==
  ASSUME IInv, ListCoverage
  PROVE  IInv'
<1>1. UNCHANGED Outside /\ Polling
  BY DEF ListCoverage, Outside, environment, Polling
<1>2. CASE /\ CoverageConfirms(poller.body)
           /\ poller' = [poller EXCEPT !.pc = "findings"] /\ UNCHANGED report
  <2>1. poller' = [pc |-> "findings", attempt |-> poller.attempt, wake |-> poller.wake,
                   body |-> poller.body]
    BY <1>2 DEF IInv, PollerInv
  <2>2. /\ report' = report /\ report = NoReport
        /\ poller.attempt \in 1..MaxAttempts /\ poller.wake \in Nat
        /\ poller.body # NoBody
    BY <1>2 DEF IInv, TypeOK, ListCoverage
  <2>3. /\ enhanced /\ scan.status = "COMPLETE"
        /\ poller.body.imageDigest = Digest /\ poller.body.completedAt = scan.completedAt
        /\ now - scan.completedAt >= Settle
    BY DEF IInv, PollerInv, ListCoverage
  <2>4. inspector.scannedAt >= scan.completedAt
    BY <1>2, <2>3 DEF CoverageConfirms
  <2> QED BY <1>1, <2>1, <2>2, <2>3, <2>4, PollerMoves
<1> QED BY <1>1, <1>2, NotReadyStep, CallFailsStep DEF ListCoverage

\* The poller asks Inspector for its findings.
LEMMA ListFindingsStep ==
  ASSUME IInv, ListFindings
  PROVE  IInv'
<1>1. UNCHANGED Outside /\ Polling
  BY DEF ListFindings, Outside, environment, Polling
<1>2. CASE Return(CleanEnhancedReport(poller.body))
  <2>1. poller.body.imageDigest \in {Digest, Other} /\ TypeOK
    BY DEF IInv, PollerInv, ListFindings
  <2>2. CleanEnhancedReport(poller.body) \in Report
    BY <2>1, CleanReport
  <2> QED BY <1>1, <1>2, <2>2, ReturnStep
<1> QED BY <1>1, <1>2, NotReadyStep, CallFailsStep DEF ListFindings

\* The poller's next attempt begins: it waits only below the limit.
LEMMA WakeStep ==
  ASSUME IInv, Wake
  PROVE  IInv'
<1>1. UNCHANGED Outside
  BY DEF Wake, Outside, environment
<1>2. poller' = [pc |-> "describe", attempt |-> poller.attempt + 1, wake |-> poller.wake,
                 body |-> poller.body]
  BY DEF Wake, IInv, PollerInv
<1>3. /\ report' = report /\ report = NoReport
      /\ poller.attempt \in 1..MaxAttempts /\ poller.wake \in Nat
      /\ poller.body = NoBody
  BY DEF Wake, IInv, TypeOK
<1>4. poller.attempt < MaxAttempts
  BY DEF Wake, IInv, PollerInv
<1>5. poller.attempt + 1 \in 1..MaxAttempts
  BY <1>3, <1>4, TimesAssumption
<1> QED BY <1>1, <1>2, <1>3, <1>5, PollerMoves

\* Every step keeps the invariant.
LEMMA Step ==
  ASSUME IInv, [Next]_vars
  PROVE  IInv'
<1>1. CASE UNCHANGED vars
  BY <1>1 DEF vars, IInv, TypeOK, ScanInv, OnTime, PollerInv
<1> QED BY <1>1, TickStep, EcrScansStep, EcrAttachesStep, InspectorScansStep,
           InspectorPublishesStep, DriftStep, DescribeStep, ListCoverageStep,
           ListFindingsStep, WakeStep DEF Next, Poll

\* The initial states have it.
LEMMA Start == Init => IInv
<1> SUFFICES ASSUME Init PROVE IInv
  OBVIOUS
<1>1. TypeOK
  BY TruthsAssumption, TimesAssumption DEF Init, TypeOK, NoBody
<1>2. IsFiniteSet(truth)
  BY TruthsAssumption DEF Init
<1>3. ScanInv /\ OnTime /\ PollerInv
  BY DEF Init, ScanInv, OnTime, PollerInv
<1> QED BY <1>1, <1>2, <1>3 DEF IInv

\* The inductive invariant holds in every reachable state.
THEOREM Invariance == Spec => []IInv
<1>1. IInv /\ [Next]_vars => IInv'
  BY Step
<1> QED BY <1>1, Start, PTL DEF Spec

\* The poller's state, and the report it writes, have their types: the attempts stay
\* within maxAttempts, a body is kept only while the coverage and the findings are
\* confirmed, and there is a report exactly when the poll ended with one.
THEOREM TypeCorrect == Spec => []TypeOK
<1>1. IInv => TypeOK
  BY DEF IInv
<1> QED BY <1>1, Invariance, PTL

-----------------------------------------------------------------------------
(* The verdict *)

\* The gate's action on a finding, under the only policy it accepts.
Action(f) ==
  Decided(f.id, RuleOf(enhanced, SEVERITY_MAP[f.severity],
                       IF enhanced THEN FIX_AVAILABLE[f.fixAvailable] ELSE "absent"),
          ExpectedPolicy).action

\* A serious finding, and one with a fix or whose fix is not known.
IsSerious(f) == f.severity \in {"CRITICAL", "HIGH", "UNTRIAGED"}
Blocks(f)    == IsSerious(f) /\ (~enhanced \/ f.fixAvailable \in {"YES", "PARTIAL"})

\* The valid policy blocks on what blocks, excepts the other serious findings, and
\* logs the rest.
LEMMA ActionOf ==
  ASSUME NEW f, Readable(f), enhanced \in BOOLEAN
  PROVE  /\ Blocks(f) => Action(f) = "BLOCK_DEPLOY"
         /\ IsSerious(f) /\ ~Blocks(f) => Action(f) = "EXCEPTION"
         /\ ~IsSerious(f) => Action(f) = "LOG"
<1> DEFINE s == SEVERITY_MAP[f.severity]
           fix == IF enhanced THEN FIX_AVAILABLE[f.fixAvailable] ELSE "absent"
           rule == RuleOf(enhanced, s, fix)
<1>1. Action(f) = ExpectedPolicy[rule]
  BY DEF Action, Decided
<1>2. s \in Severities /\ (s \in Serious <=> IsSerious(f))
  BY MapValues DEF Readable, Severities, Serious, IsSerious
<1>3. enhanced => /\ fix = "yes" <=> f.fixAvailable \in {"YES", "PARTIAL"}
                  /\ fix \in {"yes", "no"}
  BY DEF Readable, FIX_AVAILABLE
<1> HIDE DEF s, fix
<1>4. CASE ~IsSerious(f)
  <2>1. rule = <<s, "">>
    BY <1>2, <1>4 DEF RuleOf
  <2> HIDE DEF rule
  <2>2. rule \in ImageRules /\ rule[1] \notin Serious /\ rule[2] = ""
    BY <1>2, <1>4, <2>1 DEF ImageRules
  <2>3. ExpectedPolicy[rule] = "LOG"
    BY <2>2 DEF ExpectedPolicy
  <2> QED BY <1>1, <1>4, <2>3 DEF Blocks
<1>5. CASE IsSerious(f) /\ ~Blocks(f)
  <2>1. rule = <<s, "no_fix">>
    BY <1>2, <1>3, <1>5 DEF RuleOf, Blocks
  <2> HIDE DEF rule
  <2>2. rule \in ImageRules /\ rule[1] \in Serious /\ rule[2] = "no_fix"
    BY <1>2, <1>5, <2>1 DEF ImageRules
  <2>3. ExpectedPolicy[rule] = "EXCEPTION"
    BY <2>2 DEF ExpectedPolicy
  <2> QED BY <1>1, <1>5, <2>3
<1>6. CASE Blocks(f)
  <2>1. rule = <<s, IF enhanced THEN "with_fix" ELSE "">>
    BY <1>2, <1>3, <1>6 DEF RuleOf, Blocks
  <2> HIDE DEF rule
  <2>2. rule \in ImageRules /\ rule[1] \in Serious /\ rule[2] # "no_fix"
    BY <1>2, <1>6, <2>1 DEF ImageRules, Blocks
  <2>3. ExpectedPolicy[rule] = "BLOCK_DEPLOY"
    BY <2>2 DEF ExpectedPolicy
  <2> QED BY <1>1, <1>6, <2>3 DEF Blocks
<1> QED BY <1>4, <1>5, <1>6

\* The rule of a finding record is one that the policy has.
LEMMA RuleIsKnown ==
  ASSUME NEW aware \in BOOLEAN, NEW s \in Severities, NEW fix
  PROVE  RuleOf(aware, s, fix) \in ImageRules
BY DEF RuleOf, ImageRules, Severities, Serious

\* What the gate decides on a normalized finding, under any policy that it accepts.
LEMMA DecidedAction ==
  ASSUME PolicyIsValid(policy), NEW f, Readable(f), enhanced \in BOOLEAN, NEW aware,
         aware = enhanced
  PROVE  Decided(Normalize(f).id, RuleOf(aware, Normalize(f).severity, Normalize(f).fix),
                 policy).action = Action(f)
<1> DEFINE s == SEVERITY_MAP[f.severity]
           fix == IF enhanced THEN FIX_AVAILABLE[f.fixAvailable] ELSE "absent"
<1>1. Normalize(f).severity = s /\ Normalize(f).fix = fix
  BY DEF Normalize
<1>2. s \in Severities
  BY MapValues DEF Readable, Severities
<1>3. Action(f) = ExpectedPolicy[RuleOf(enhanced, s, fix)]
  BY DEF Action, Decided
<1> HIDE DEF s, fix
<1>4. policy[RuleOf(enhanced, s, fix)] = ExpectedPolicy[RuleOf(enhanced, s, fix)]
  BY <1>2, RuleIsKnown DEF PolicyIsValid
<1> QED BY <1>1, <1>3, <1>4 DEF Decided

\* The verdict of decided findings is the one intended for the findings they come
\* from.
LEMMA VerdictOfDecided ==
  ASSUME NEW T, \A f \in T : Readable(f), enhanced \in BOOLEAN, NEW D,
         \A f \in T : \E d \in D : d.action = Action(f),
         \A d \in D : \E f \in T : d.action = Action(f)
  PROVE  VerdictOn(D) = Intended(T)
<1>1. \A f \in T : /\ Blocks(f) => Action(f) = "BLOCK_DEPLOY"
                   /\ IsSerious(f) /\ ~Blocks(f) => Action(f) = "EXCEPTION"
                   /\ ~IsSerious(f) => Action(f) = "LOG"
  BY ActionOf
<1>2. \A f \in T : IsSerious(f) /\ ~Blocks(f) => enhanced /\ f.fixAvailable = "NO"
  BY DEF Readable, Blocks, FIX_AVAILABLE
<1> DEFINE serious == {f \in T : f.severity \in {"CRITICAL", "HIGH", "UNTRIAGED"}}
<1>3. \A f : f \in serious <=> f \in T /\ IsSerious(f)
  BY DEF IsSerious
<1>4. Intended(T) =
        CASE \E f \in serious : ~enhanced \/ f.fixAvailable \in {"YES", "PARTIAL"} ->
               "BLOCK_DEPLOY"
          [] serious # {} /\ (\A f \in serious : enhanced /\ f.fixAvailable = "NO") ->
               "DEPLOY-WITH-EXCEPTIONS"
          [] OTHER -> "DEPLOY"
  BY DEF Intended
<1> HIDE DEF serious
<1>5. CASE \E f \in T : Blocks(f)
  <2>1. \E d \in D : d.action = "BLOCK_DEPLOY"
    BY <1>1, <1>5
  <2>2. VerdictOn(D) = "BLOCK_DEPLOY"
    BY <2>1 DEF VerdictOn
  <2>3. \E f \in serious : ~enhanced \/ f.fixAvailable \in {"YES", "PARTIAL"}
    BY <1>3, <1>5 DEF Blocks
  <2>4. ~(\A f \in serious : enhanced /\ f.fixAvailable = "NO")
    BY <2>3
  <2>5. Intended(T) = "BLOCK_DEPLOY"
    BY <1>4, <2>3, <2>4
  <2> QED BY <2>2, <2>5
<1>6. CASE (\A f \in T : ~Blocks(f)) /\ \E f \in T : IsSerious(f)
  <2>1. (\A d \in D : d.action # "BLOCK_DEPLOY") /\ \E d \in D : d.action = "EXCEPTION"
    BY <1>1, <1>6
  <2>2. VerdictOn(D) = "DEPLOY-WITH-EXCEPTIONS"
    BY <2>1 DEF VerdictOn
  <2>3. serious # {} /\ \A f \in serious : enhanced /\ f.fixAvailable = "NO"
    BY <1>2, <1>3, <1>6
  <2>4. ~(\E f \in serious : ~enhanced \/ f.fixAvailable \in {"YES", "PARTIAL"})
    BY <2>3
  <2>5. Intended(T) = "DEPLOY-WITH-EXCEPTIONS"
    BY <1>4, <2>3, <2>4
  <2> QED BY <2>2, <2>5
<1>7. CASE \A f \in T : ~IsSerious(f)
  <2>1. \A d \in D : d.action # "BLOCK_DEPLOY" /\ d.action # "EXCEPTION"
    BY <1>1, <1>7
  <2>2. VerdictOn(D) = "DEPLOY"
    BY <2>1 DEF VerdictOn
  <2>3. serious = {}
    BY <1>3, <1>7
  <2>4. Intended(T) = "DEPLOY"
    BY <1>4, <2>3
  <2> QED BY <2>2, <2>4
<1> QED BY <1>5, <1>6, <1>7

\* The gate takes the report of findings that the normalizer read, and decides what is
\* intended for them.
LEMMA VerdictOnReport ==
  ASSUME TypeOK, IsFiniteSet(truth), \A f \in truth : Readable(f), NEW body,
         body.imageDigest = Digest
  PROVE  RunImageGate("ecr", policy, ReportOf(body, {Normalize(f) : f \in truth})).verdict =
           IF PolicyIsValid(policy) THEN Intended(truth) ELSE "BLOCK_DEPLOY"
<1> DEFINE F == {Normalize(f) : f \in truth}
           r == ReportOf(body, F)
<1>1. enhanced \in BOOLEAN /\ truth \in SUBSET RawFinding
  BY DEF TypeOK
<1>2. /\ F \in SUBSET Finding /\ IsFiniteSet(F)
      /\ enhanced => \A g \in F : g.fix \in {"yes", "no"}
  BY <1>1, NormalizedFindings
<1>3. r \in Report
  <2> HIDE DEF F
  <2> QED BY <1>2, ReportType
<1>4. /\ r.schemaVersion = 1 /\ r.scanStatus = "COMPLETE" /\ r.findings = F
      /\ r.source = (IF enhanced THEN "aws-ecr-enhanced" ELSE "aws-ecr-basic")
      /\ r.severityCounts = [s \in Severities |-> CountOf(F, s)]
  <2> HIDE DEF F
  <2> QED BY DEF ReportOf
<1>5. r # NoReport /\ r.source \in RegistrySources
  <2> HIDE DEF r
  <2> QED BY <1>3, <1>4, NoReportAssumption DEF RegistrySources
<1>6. RegistryReportIsSound(r)
  <2> HIDE DEF r, F
  <2>1. \A g \in r.findings :
          /\ g.severity \in Severities
          /\ r.source = "aws-ecr-enhanced" => g.fix \in {"yes", "no"}
    BY <1>1, <1>2, <1>4 DEF Finding
  <2>2. \A s \in Severities : r.severityCounts[s] = CountOf(r.findings, s)
    BY <1>4
  <2> QED BY <1>4, <1>5, <2>1, <2>2 DEF RegistryReportIsSound
<1>7. CASE ~PolicyIsValid(policy)
  <2> HIDE DEF r
  <2> QED BY <1>7 DEF RunImageGate, Untrusted
<1>8. CASE PolicyIsValid(policy)
  <2> DEFINE aware == r.source = "aws-ecr-enhanced"
             D == {Decided(g.id, RuleOf(aware, g.severity, g.fix), policy) : g \in r.findings}
  <2>1. aware = enhanced
    BY <1>1, <1>4
  <2>2. RunImageGate("ecr", policy, r).verdict = VerdictOn(D)
    <3>1. RunImageGate("ecr", policy, r) = EvaluateRegistry(policy, r)
      <4> HIDE DEF r
      <4> QED BY <1>6, <1>8 DEF RunImageGate
    <3>2. EvaluateRegistry(policy, r) = Judged(D)
      <4> HIDE DEF r
      <4> QED BY DEF EvaluateRegistry
    <3>3. Judged(D).verdict = VerdictOn(D)
      BY DEF Judged
    <3> QED BY <3>1, <3>2, <3>3
  <2> HIDE DEF aware
  <2>3. \A f \in truth :
          Decided(Normalize(f).id, RuleOf(aware, Normalize(f).severity, Normalize(f).fix),
                  policy).action = Action(f)
    BY <1>1, <1>8, <2>1, DecidedAction
  <2>4. D = {Decided(g.id, RuleOf(aware, g.severity, g.fix), policy) : g \in F}
    <3> HIDE DEF r, F
    <3> QED BY <1>4
  <2>5. \A f \in truth : \E d \in D : d.action = Action(f)
    BY <2>3, <2>4
  <2>6. \A d \in D : \E f \in truth : d.action = Action(f)
    BY <2>3, <2>4
  <2> HIDE DEF D, r
  <2>7. VerdictOn(D) = Intended(truth)
    BY <1>1, <2>5, <2>6, VerdictOfDecided
  <2>8. RunImageGate("ecr", policy, r).verdict = Intended(truth)
    BY <2>2, <2>7
  <2> QED BY <1>8, <2>8 DEF r
<1> QED BY <1>7, <1>8

\* A new report is an accepted body's, or the clean one that a poller who confirmed the
\* scan writes when Inspector holds nothing.
LEMMA NewReports ==
  ASSUME [Next]_vars, NewReport
  PROVE  \/ Describe /\ \E body \in Bodies : /\ NormalizeAccepts(body)
                                             /\ report' = NormalizeEcrResponse(body)
         \/ ListFindings /\ Held = {} /\ report' = CleanEnhancedReport(poller.body)
<1>1. report' # report
  BY DEF NewReport
<1>2. NotReady => UNCHANGED report
  BY DEF NotReady, Fail
<1>3. CallFails => UNCHANGED report
  BY <1>2 DEF CallFails, Fail
<1>4. Next /\ (Describe \/ ListFindings)
  BY <1>1, <1>2, <1>3 DEF Next, Poll, vars, Tick, EcrScans, EcrAttaches, InspectorScans,
     InspectorPublishes, Drift, ListCoverage, Wake
<1>5. CASE Describe
  <2>1. PICK body \in Bodies : DescribeAnswers(body)
    BY <1>1, <1>2, <1>3, <1>5 DEF Describe, Fail
  <2>2. NormalizeAccepts(body) /\ Return(NormalizeEcrResponse(body))
    BY <1>1, <1>2, <2>1 DEF DescribeAnswers, Fail
  <2> QED BY <1>5, <2>2 DEF Return
<1>6. CASE ListFindings
  BY <1>1, <1>2, <1>3, <1>6 DEF ListFindings, Return
<1> QED BY <1>4, <1>5, <1>6

\* When the poller writes the clean report, the scan found nothing: had it found
\* something, the findings would have been published before the scan settled.
LEMMA CleanHolds ==
  ASSUME IInv, poller.pc = "findings", Held = {}
  PROVE  /\ truth = {} /\ poller.body.imageDigest = Digest
         /\ inspector.scannedAt >= scan.completedAt
<1>1. /\ scan.status = "COMPLETE" /\ poller.body.imageDigest = Digest
      /\ now - scan.completedAt >= Settle /\ inspector.scannedAt >= scan.completedAt
  BY DEF IInv, PollerInv
<1>2. CASE inspector.published
  BY <1>1, <1>2 DEF Held
<1>3. CASE ~inspector.published
  <2>1. now =< scan.completedAt + Lag
    BY <1>1, <1>3 DEF IInv, OnTime
  <2>2. now \in Nat /\ scan.completedAt \in Nat
    BY DEF IInv, TypeOK
  <2> QED BY <1>1, <2>1, <2>2, TimesAssumption
<1> QED BY <1>1, <1>2, <1>3

\* What a new report of the pushed image lists, and on what ground.
LEMMA NewReportOf ==
  ASSUME IInv, [Next]_vars, NewReport
  PROVE  /\ \A f \in truth : Readable(f)
         /\ \E body : /\ body.imageDigest = Digest
                      /\ report' = ReportOf(body, {Normalize(f) : f \in truth})
         /\ truth = {} /\ enhanced => inspector.scannedAt >= scan.completedAt
<1>1. CASE \E body \in Bodies : /\ NormalizeAccepts(body)
                                /\ report' = NormalizeEcrResponse(body)
  <2>1. PICK body \in Bodies : /\ NormalizeAccepts(body)
                               /\ report' = NormalizeEcrResponse(body)
    BY <1>1
  <2>2. body.imageDigest = Digest
    <3>1. NormalizeEcrResponse(body).imageDigest = body.imageDigest
      BY DEF NormalizeEcrResponse, ReportOf
    <3> QED BY <2>1, <3>1 DEF NewReport
  <2>3. /\ Parsed(body) = truth /\ scan.attached
        /\ \A f \in truth : /\ f.severity \in DOMAIN SEVERITY_MAP
                            /\ enhanced => f.fixAvailable \in DOMAIN FIX_AVAILABLE
    BY <2>1, <2>2, WholeBody
  <2>4. \A f \in truth : Readable(f)
    BY <2>3 DEF Readable
  <2>5. report' = ReportOf(body, {Normalize(f) : f \in truth})
    BY <2>1, <2>3 DEF NormalizeEcrResponse
  <2>6. ~(truth = {} /\ enhanced)
    BY <2>3 DEF IInv, ScanInv
  <2> QED BY <2>2, <2>4, <2>5, <2>6
<1>2. CASE ListFindings /\ Held = {} /\ report' = CleanEnhancedReport(poller.body)
  <2>1. /\ truth = {} /\ poller.body.imageDigest = Digest
        /\ inspector.scannedAt >= scan.completedAt
    BY <1>2, CleanHolds DEF ListFindings
  <2>2. {Normalize(f) : f \in truth} = {}
    BY <2>1
  <2>3. report' = ReportOf(poller.body, {Normalize(f) : f \in truth})
    BY <1>2, <2>2, Zenon DEF CleanEnhancedReport
  <2> QED BY <2>1, <2>3
<1> QED BY <1>1, <1>2, NewReports

\* The gate's verdict on a new report of the pushed image is the one that what the scan
\* finds at that moment deserves, and BLOCK_DEPLOY under a policy that is not the
\* expected one; in every mode, and whatever the services answer.
THEOREM VerdictEarned == Spec => VerdictIsEarned
<1> DEFINE Earned ==
      NewReport =>
        RunImageGate("ecr", policy, report').verdict =
          IF PolicyIsValid(policy) THEN Intended(truth) ELSE "BLOCK_DEPLOY"
<1>1. IInv /\ [Next]_vars => [Earned]_vars
  <2> SUFFICES ASSUME IInv, [Next]_vars, NewReport
               PROVE  RunImageGate("ecr", policy, report').verdict =
                        IF PolicyIsValid(policy) THEN Intended(truth) ELSE "BLOCK_DEPLOY"
    OBVIOUS
  <2>1. \A f \in truth : Readable(f)
    BY NewReportOf
  <2>2. PICK body : /\ body.imageDigest = Digest
                    /\ report' = ReportOf(body, {Normalize(f) : f \in truth})
    BY NewReportOf
  <2>3. TypeOK /\ IsFiniteSet(truth)
    BY DEF IInv
  <2>4. RunImageGate("ecr", policy, ReportOf(body, {Normalize(f) : f \in truth})).verdict =
          IF PolicyIsValid(policy) THEN Intended(truth) ELSE "BLOCK_DEPLOY"
    BY <2>1, <2>2, <2>3, VerdictOnReport
  <2> QED BY <2>2, <2>4, Zenon
<1> QED BY <1>1, Invariance, PTL DEF Spec, VerdictIsEarned

\* A clean report of the pushed image is true: the scan finds nothing, and in the
\* enhanced mode Inspector had scanned the image after ECR's own completion.
THEOREM CleanReportIsTrue == Spec => CleanIsTrue
<1> DEFINE True ==
      NewReport /\ report'.findings = {} =>
        truth = {} /\ (enhanced => inspector.scannedAt >= scan.completedAt)
<1>1. IInv /\ [Next]_vars => [True]_vars
  <2> SUFFICES ASSUME IInv, [Next]_vars, NewReport, report'.findings = {}
               PROVE  truth = {} /\ (enhanced => inspector.scannedAt >= scan.completedAt)
    OBVIOUS
  <2>1. PICK body : report' = ReportOf(body, {Normalize(f) : f \in truth})
    BY NewReportOf
  <2>2. {Normalize(f) : f \in truth} = {}
    BY <2>1 DEF ReportOf
  <2>3. truth = {}
    BY <2>2
  <2> QED BY <2>3, NewReportOf
<1> QED BY <1>1, Invariance, PTL DEF Spec, CleanIsTrue

=============================================================================
